---------------------------- MODULE OfferProofs ----------------------------
(***************************************************************************)
(* Theorems about OfferForms and Offers for every set of callers, offers,  *)
(* competitors and calls, all prices, all bounds and all faults.           *)
(***************************************************************************)
EXTENDS Offers, WellFoundedInduction, TLAPS

(* A form as the site keeps it, and its edit page. *)
IsForm(x) == /\ DOMAIN x = Fields
             /\ \A f \in Flags : x[f] \in BOOLEAN
Shown(x) == [f \in Fields |-> [tag |-> Widget[f], value |-> x[f]]]

(* A patch deletes, or explicitly does not, or says nothing of it. *)
IsPatch(p) == p.deleted \in {{}, {TRUE}, {FALSE}}
-----------------------------------------------------------------------------
(* parse_offer_details finds every field of a form under its control. *)
LEMMA EveryFieldIsRead ==
  ASSUME NEW x, IsForm(x)
  PROVE  /\ \A f \in Names : ParseOfferDetails(Shown(x))[f] = {x[f]}
         /\ ParseOfferDetails(Shown(x)).deleted = {}
<1> DEFINE page == Shown(x)
<1>1. \A f \in Names : /\ f \in DOMAIN page
                       /\ page[f].tag \in ReadableAs[f] /\ page[f].value = x[f]
  BY OffersAssumption DEF Shown, Fields
<1>2. /\ page["price"].tag = "input" /\ page["desc"].tag = "textarea"
      /\ page["type"].tag \in {"input", "select"}
      /\ page["active"].tag = "checkbox" /\ page["after"].tag = "checkbox"
  BY <1>1 DEF ReadableAs, Names, Texts, Flags
<1>3. Extract(page, "price", "input") = x["price"]
  BY <1>1, <1>2 DEF Extract, Names, Texts
<1>4. Extract(page, "desc", "textarea") = x["desc"]
  BY <1>1, <1>2 DEF Extract, Names, Texts
<1>5. ExtractField(page, "type") = x["type"]
  BY <1>1, <1>2 DEF ExtractField, Extract, Names, Texts
<1>6. \A f \in Flags : ExtractCheckbox(page, f) = x[f]
  BY <1>1, <1>2 DEF ExtractCheckbox, IsForm, Names, Flags
<1> HIDE DEF page
<1>7. QED
  BY <1>3, <1>4, <1>5, <1>6 DEF ParseOfferDetails, Names, Texts, Flags, page

(* What build_offer_payload posts, key by key. *)
LEMMA PayloadKeys ==
  ASSUME NEW edit
  PROVE  LET payload == BuildOfferPayload(edit)
             posted  == Taken(payload)
         IN /\ \A f \in Texts : posted[f] = TextOr(edit[f])
            /\ posted.active = (FALSE \notin edit.active)
            /\ posted.after \in BOOLEAN
            /\ posted.after <=> TRUE \in edit.after
            /\ payload.deleted = (TRUE \in edit.deleted)
<1>1. PICK payload : payload = BuildOfferPayload(edit)
  OBVIOUS
<1>2. PICK keys : keys = Texts \cup {"active", "deleted", AfterKey(edit)}
  OBVIOUS
<1>3. DOMAIN payload = keys
  BY <1>1, <1>2 DEF BuildOfferPayload
<1>4. \A f \in Texts : payload[f] = TextOr(edit[f])
  BY <1>1 DEF BuildOfferPayload
<1>5. payload["active"] = (FALSE \notin edit.active)
  BY <1>1 DEF BuildOfferPayload, Texts
<1>6. payload["deleted"] = (TRUE \in edit.deleted)
  BY <1>1 DEF BuildOfferPayload, Texts
<1>7. "after[]" \in keys <=> TRUE \in edit.after
  BY <1>2 DEF AfterKey, Texts
<1>8. QED
  <2>1. \A f \in Texts : Taken(payload)[f] = payload[f]
    BY DEF Taken, Names, Texts, Flags
  <2>2. Taken(payload)["active"] = payload["active"]
    BY DEF Taken, Names, Texts, Flags
  <2>3. Taken(payload)["after"] = ("after[]" \in keys)
    BY <1>3 DEF Taken, Names, Texts, Flags
  <2>4. ("after[]" \in keys) \in BOOLEAN
    OBVIOUS
  <2>5. PICK b \in BOOLEAN : b = ("after[]" \in keys)
    BY <2>4
  <2>6. b <=> TRUE \in edit.after
    BY <1>7, <2>5
  <2>7. Taken(payload)["after"] = b
    BY <2>3, <2>5
  <2>8. QED
    BY <1>1, <1>4, <1>5, <1>6, <2>1, <2>2, <2>6, <2>7

(* What the site saves of it is a form with the fields posted. *)
LEMMA SavedIsForm ==
  ASSUME NEW old, NEW edit, NEW emptied
  PROVE  /\ IsForm(SiteForm(old, BuildOfferPayload(edit), emptied))
         /\ \A f \in Names : SiteForm(old, BuildOfferPayload(edit), emptied)[f]
                              = Taken(BuildOfferPayload(edit))[f]
<1>1. PICK payload : payload = BuildOfferPayload(edit)
  OBVIOUS
<1>2. PICK saved : saved = SiteForm(old, payload, emptied)
  OBVIOUS
<1>3. DOMAIN saved = Fields /\ \A f \in Names : saved[f] = Taken(payload)[f]
  BY <1>2 DEF SiteForm, Fields
<1>4. Taken(payload).active \in BOOLEAN /\ Taken(payload).after \in BOOLEAN
  <2>1. (FALSE \notin edit.active) \in BOOLEAN
    OBVIOUS
  <2>2. QED
    BY <1>1, <2>1, PayloadKeys
<1>5. QED
  BY <1>1, <1>2, <1>3, <1>4 DEF IsForm, Names, Flags

(* What an edit posts of the form x and a patch. *)
Patched(x, patch) == BuildOfferPayload(Merge(ParseOfferDetails(Shown(x)), patch))

ChangesOnly(x, patch, posted) ==
  /\ posted.deleted <=> patch.deleted = {TRUE}
  /\ \A f \in Names : patch[f] = {} => Taken(posted)[f] = x[f]

(* Read, merged and posted, a form changes in the fields that the patch    *)
(* names, and is deleted just when the patch says so.                      *)
LEMMA PatchIsExact ==
  ASSUME NEW x, IsForm(x), NEW patch, IsPatch(patch)
  PROVE  ChangesOnly(x, patch, Patched(x, patch))
<1> DEFINE read == ParseOfferDetails(Shown(x))
           edit == Merge(read, patch)
<1>1. /\ \A f \in Names : read[f] = {x[f]}
      /\ read.deleted = {}
  BY EveryFieldIsRead
<1> HIDE DEF read
<1>2. \A f \in Names : patch[f] = {} => edit[f] = {x[f]}
  BY <1>1 DEF Merge
<1>3. edit.deleted = patch.deleted
  BY <1>1 DEF Merge
<1> HIDE DEF edit
<1>4. BuildOfferPayload(edit).deleted <=> patch.deleted = {TRUE}
  <2>1. BuildOfferPayload(edit).deleted = (TRUE \in edit.deleted)
    BY PayloadKeys
  <2>2. QED
    BY <1>3, <2>1 DEF IsPatch
<1>5. ASSUME NEW f \in Names, patch[f] = {} PROVE Taken(BuildOfferPayload(edit))[f] = x[f]
  <2>1. CASE f \in Texts
    <3>1. TextOr(edit[f]) = x[f]
      BY <1>2, <1>5 DEF TextOr
    <3>2. QED
      BY <2>1, <3>1, PayloadKeys
  <2>2. CASE f = "active"
    <3>1. x[f] \in BOOLEAN /\ edit.active = {x[f]}
      BY <1>2, <1>5, <2>2 DEF IsForm, Flags
    <3>2. (FALSE \notin edit.active) = x[f]
      BY <3>1
    <3>3. QED
      BY <2>2, <3>2, PayloadKeys
  <2>3. CASE f = "after"
    <3>1. x[f] \in BOOLEAN /\ edit.after = {x[f]}
      BY <1>2, <1>5, <2>3 DEF IsForm, Flags
    <3>3. PICK b : b = Taken(BuildOfferPayload(edit)).after
      OBVIOUS
    <3>4. b \in BOOLEAN /\ (b <=> TRUE \in edit.after)
      BY <3>3, PayloadKeys
    <3>5. b = x[f]
      <4>1. CASE x[f] = TRUE
        BY <3>1, <3>4, <4>1
      <4>2. CASE x[f] = FALSE
        BY <3>1, <3>4, <4>2
      <4>3. QED
        BY <3>1, <4>1, <4>2
    <3>6. QED
      BY <2>3, <3>3, <3>5
  <2>4. QED
    BY <2>1, <2>2, <2>3 DEF Names, Flags
<1>6. QED
  BY <1>4, <1>5 DEF ChangesOnly, Patched, edit, read
-----------------------------------------------------------------------------
CallFields  == {"op", "at", "id", "patch", "page", "todo", "again", "how"}
SinceFields == {"todo", "refused", "changed", "blind", "dirty", "moved"}

OffersInv ==
  /\ DOMAIN offers = Ids
  /\ \A o \in Ids : offers[o] = Gone \/ IsForm(offers[o])

CallInv ==
  /\ DOMAIN call = Callers /\ DOMAIN since = Callers /\ DOMAIN loggedIn = Callers
  /\ \A k \in Callers : /\ DOMAIN call[k] = CallFields /\ DOMAIN since[k] = SinceFields
                        /\ call[k].id \in Ids /\ call[k].todo \subseteq Ids
                        /\ IsPatch(call[k].patch)

(* A call about to post an edit, whose offer nobody else has changed since *)
(* it read the page, has the page of the form on the site, or has posted   *)
(* its fields already, or the offer is gone.  An empty page cannot get     *)
(* here: the session that got it has ended.                                *)
PageIsTrue(k) ==
  LET c == call[k] IN
  c.at = "post" /\ c.op # "create" /\ loggedIn[k] /\ ~since[k].dirty =>
    \/ offers[c.id] = Gone
    \/ c.page = Shown(offers[c.id])
    \/ \A f \in Names : offers[c.id][f] = Taken(Posted(c))[f]

FormInv == /\ OffersInv /\ CallInv
           /\ \A k \in Callers : PageIsTrue(k)
-----------------------------------------------------------------------------
(* A form is never mistaken for an offer that is gone. *)
LEMMA FormIsNotGone == ASSUME NEW x, IsForm(x) PROVE x # Gone
<1>1. DOMAIN x = Fields
  BY DEF IsForm
<1>2. "price" \in Fields /\ "price" \notin DOMAIN Gone
  BY DEF Fields, Names, Texts, Flags, Gone
<1>3. QED
  BY <1>1, <1>2

(* What no step of its own, no change of its session and no change of its  *)
(* offer touches stays true.                                               *)
LEMMA UntouchedStays ==
  ASSUME NEW k \in Callers, PageIsTrue(k),
         call'[k] = call[k], loggedIn'[k] = loggedIn[k],
         since[k].dirty => since'[k].dirty,
         offers'[call[k].id] = offers[call[k].id]
  PROVE  PageIsTrue(k)'
<1>1. PICK c : c = call[k]
  OBVIOUS
<1>2. CASE c.at = "post" /\ c.op # "create" /\ loggedIn[k] /\ ~since[k].dirty
  <2>1. CASE offers[c.id] = Gone \/ c.page = Shown(offers[c.id])
    BY <1>1, <2>1 DEF PageIsTrue
  <2>2. CASE \A f \in Names : offers[c.id][f] = Taken(Posted(c))[f]
    BY <1>1, <2>2 DEF PageIsTrue
  <2>3. QED
    BY <1>1, <1>2, <2>1, <2>2 DEF PageIsTrue
<1>3. QED
  BY <1>1, <1>2 DEF PageIsTrue

(* A change of an offer is known to every call it could mislead. *)
LEMMA ChangeIsNoted ==
  ASSUME CallInv, NEW o \in Ids, NEW by, Changed(o, by),
         NEW k \in Callers, k \notin by, PageIsTrue(k),
         call'[k] = call[k], loggedIn'[k] = loggedIn[k],
         \A p \in Ids \ {o} : offers'[p] = offers[p]
  PROVE  PageIsTrue(k)'
<1>1. CASE call[k].at = "idle"
  BY <1>1 DEF PageIsTrue
<1>2. CASE call[k].at # "idle"
  <2>1. since'[k].dirty = (since[k].dirty \/ o = call[k].id)
    BY <1>2 DEF Changed, CallInv, SinceFields
  <2>2. CASE o = call[k].id
    BY <2>1, <2>2 DEF PageIsTrue
  <2>3. CASE o # call[k].id
    <3>1. offers'[call[k].id] = offers[call[k].id]
      BY <2>3 DEF CallInv
    <3>2. QED
      BY <2>1, <3>1, UntouchedStays
  <2>4. QED
    BY <2>2, <2>3
<1>3. QED
  BY <1>1, <1>2
-----------------------------------------------------------------------------
(* What the shapes of calls and histories are under a change of both. *)
LEMMA ChangedShape ==
  ASSUME CallInv, NEW o \in Ids, NEW by, Changed(o, by)
  PROVE  DOMAIN since' = Callers /\ \A k \in Callers : DOMAIN since'[k] = SinceFields
BY DEF CallInv, Changed

(* The ways in which a call goes on. *)
LEMMA IdleIsCall ==
  DOMAIN Idle = CallFields /\ Idle.id \in Ids /\ Idle.todo \subseteq Ids /\ IsPatch(Idle.patch)
<1>1. Idle.id \in Ids
  BY OffersAssumption DEF Idle
<1>2. IsPatch(NoPatch)
  BY DEF IsPatch, NoPatch
<1>3. QED
  BY <1>1, <1>2 DEF Idle, CallFields

(* A call that another step leaves in shape, at no post. *)
CallOn(k) ==
  /\ DOMAIN call' = Callers /\ \A j \in Callers \ {k} : call'[j] = call[j]
  /\ DOMAIN call'[k] = CallFields /\ call'[k].id \in Ids /\ call'[k].todo \subseteq Ids
  /\ IsPatch(call'[k].patch)

SinceOn(k) ==
  /\ DOMAIN since' = Callers /\ \A j \in Callers \ {k} : since'[j] = since[j]
  /\ DOMAIN since'[k] = SinceFields

(* A call whose caller has gone is idle, and no other call changes. *)
LEMMA EndedOn ==
  ASSUME CallInv, NEW k \in Callers, Ended(k)
  PROVE  CallOn(k) /\ SinceOn(k) /\ call'[k].at = "idle"
<1>1. call'[k] = Idle /\ since'[k] = Fresh
  BY DEF CallInv, Ended
<1>2. Idle.at = "idle" /\ DOMAIN Fresh = SinceFields
  BY DEF Idle, Fresh, SinceFields
<1>3. CallOn(k)
  BY <1>1, IdleIsCall DEF CallOn, CallInv, Ended
<1>4. QED
  BY <1>1, <1>2, <1>3 DEF SinceOn, CallInv, Ended

(* A call that returns changes no other call. *)
LEMMA ReturnOn ==
  ASSUME CallInv, NEW k \in Callers, NEW how, Return(k, how)
  PROVE  CallOn(k) /\ call'[k].at = "returned"
BY DEF CallInv, Return, CallOn, CallFields

(* A call that goes on to its next offer, or returns after the last, has   *)
(* no page yet and changes no other call.                                  *)
LEMMA NextEditOn ==
  ASSUME CallInv, NEW k \in Callers, NEW todo \in SUBSET Ids, NextEdit(k, todo)
  PROVE  CallOn(k) /\ call'[k].at # "post"
<1>1. CASE todo = {}
  BY <1>1, ReturnOn DEF NextEdit
<1>2. CASE todo # {}
  <2>1. PICK o \in todo : call' = [call EXCEPT ![k] =
          [call[k] EXCEPT !.id = o, !.todo = todo \ {o}, !.at = "fetch",
                          !.again = FALSE, !.page = Blank]]
    BY <1>2 DEF NextEdit
  <2>2. QED
    BY <2>1 DEF CallInv, CallOn, CallFields
<1>3. QED
  BY <1>1, <1>2

(* So does a call after the answer to a post. *)
LEMMA AnsweredOn ==
  ASSUME CallInv, NEW k \in Callers, NEW how, Answered(k, how)
  PROVE  CallOn(k) /\ call'[k].at # "post"
<1>1. call[k].todo \in SUBSET Ids
  BY DEF CallInv
<1>2. QED
  BY <1>1, NextEditOn, ReturnOn DEF Answered

(* reconnect_on_auth! either goes back to a request before the post, or to *)
(* the post of a new offer, or ends the call.                              *)
LEMMA RefusesOn ==
  ASSUME CallInv, NEW k \in Callers, Refuses(k)
  PROVE  /\ CallOn(k) /\ SinceOn(k)
         /\ DOMAIN loggedIn' = Callers
         /\ \A j \in Callers \ {k} : loggedIn'[j] = loggedIn[j]
         /\ call'[k].at = "post" => call'[k].op = "create"
         /\ offers' = offers
<1>1. CASE /\ loggedIn' = [loggedIn EXCEPT ![k] = TRUE]
           /\ call' = [call EXCEPT ![k] = [call[k] EXCEPT !.again = TRUE, !.page = Blank,
                !.at = IF call[k].at = "list" THEN "list" ELSE Beginning(call[k].op)]]
           /\ UNCHANGED since
  <2>1. /\ CallOn(k) /\ call'[k].op = call[k].op
        /\ call'[k].at = IF call[k].at = "list" THEN "list" ELSE Beginning(call[k].op)
    BY <1>1 DEF CallInv, CallOn, CallFields
  <2>2. call'[k].at = "post" => call'[k].op = "create"
    BY <2>1 DEF Beginning
  <2>3. QED
    BY <1>1, <2>1, <2>2 DEF CallInv, SinceOn, Refuses
<1>2. CASE Ended(k) /\ UNCHANGED loggedIn
  BY <1>2, EndedOn DEF CallInv, Refuses
<1>3. QED
  BY <1>1, <1>2 DEF Refuses
-----------------------------------------------------------------------------
(* Init, and each kind of step, and the invariant. *)
LEMMA FormInvInit == Init => FormInv
<1> SUFFICES ASSUME Init PROVE FormInv
  OBVIOUS
<1>1. OffersInv
  BY OffersAssumption DEF Init, OffersInv, IsForm
<1>2. CallInv
  BY IdleIsCall DEF Init, CallInv, Fresh, SinceFields
<1>3. \A k \in Callers : PageIsTrue(k)
  BY DEF Init, PageIsTrue, Idle
<1>4. QED
  BY <1>1, <1>2, <1>3 DEF FormInv

(* A step of one caller that changes no offer and does not lead to a post  *)
(* of an edit keeps everything.                                            *)
LEMMA QuietStep ==
  ASSUME FormInv, NEW k \in Callers, CallOn(k), SinceOn(k),
         DOMAIN loggedIn' = Callers, \A j \in Callers \ {k} : loggedIn'[j] = loggedIn[j],
         call'[k].at = "post" => call'[k].op = "create",
         offers' = offers
  PROVE  FormInv'
<1>1. OffersInv' /\ CallInv'
  BY DEF FormInv, OffersInv, CallInv, CallOn, SinceOn
<1>2. PageIsTrue(k)'
  BY DEF PageIsTrue
<1>3. ASSUME NEW j \in Callers, j # k PROVE PageIsTrue(j)'
  BY <1>3, UntouchedStays DEF FormInv, CallOn, SinceOn
<1>4. QED
  BY <1>1, <1>2, <1>3 DEF FormInv

(* The seller edits by hand: the pages read before may be outdated from    *)
(* then on.                                                                *)
LEMMA SellerEditsKeeps ==
  ASSUME FormInv, NEW o \in Ids, NEW f \in {"price", "active"},
         NEW value \in IF f = "price" THEN MyPrices ELSE BOOLEAN, SellerEdits(o, f, value)
  PROVE  FormInv'
<1>1. OffersInv'
  <2>1. IsForm(offers[o]) /\ offers' = [offers EXCEPT ![o] = [offers[o] EXCEPT ![f] = value]]
    BY DEF SellerEdits, FormInv, OffersInv
  <2>2. IsForm([offers[o] EXCEPT ![f] = value])
    BY <2>1 DEF IsForm, Fields, Names, Texts, Flags
  <2>3. QED
    BY <2>1, <2>2 DEF FormInv, OffersInv
<1>2. CallInv'
  BY ChangedShape DEF SellerEdits, FormInv, CallInv
<1>3. ASSUME NEW k \in Callers PROVE PageIsTrue(k)'
  BY ChangeIsNoted DEF SellerEdits, FormInv, OffersInv
<1>4. QED
  BY <1>1, <1>2, <1>3 DEF FormInv

(* A rival moves: no form and no page changes. *)
LEMMA RivalMovesKeeps ==
  ASSUME FormInv, NEW r \in Rivals, NEW price \in Prices, RivalMoves(r, price)
  PROVE  FormInv'
<1>1. /\ DOMAIN since' = Callers
      /\ \A k \in Callers : DOMAIN since'[k] = SinceFields /\ since'[k].dirty = since[k].dirty
  BY DEF RivalMoves, FormInv, CallInv, SinceFields
<1>2. OffersInv' /\ CallInv'
  BY <1>1 DEF RivalMoves, FormInv, OffersInv, CallInv
<1>3. ASSUME NEW k \in Callers PROVE PageIsTrue(k)'
  BY <1>1, UntouchedStays DEF RivalMoves, FormInv
<1>4. QED
  BY <1>2, <1>3 DEF FormInv

(* The session ends: no form and no page changes. *)
LEMMA ExpireKeeps ==
  ASSUME FormInv, NEW k \in Callers, Expire(k) PROVE FormInv'
<1>1. OffersInv' /\ CallInv'
  BY DEF Expire, FormInv, OffersInv, CallInv
<1>2. PageIsTrue(k)'
  BY DEF Expire, FormInv, CallInv, PageIsTrue
<1>3. ASSUME NEW j \in Callers, j # k PROVE PageIsTrue(j)'
  BY <1>3, UntouchedStays DEF Expire, FormInv, CallInv
<1>4. QED
  BY <1>1, <1>2, <1>3 DEF FormInv

(* A call starts without a page. *)
LEMMA StartCallKeeps ==
  ASSUME FormInv, NEW k \in Callers, NEW r \in Calls[k], StartCall(k, r) PROVE FormInv'
<1>1. r.ids \subseteq Ids /\ IsPatch(r.patch)
  <2>1. r \in UNION {Calls[j] : j \in Callers}
    OBVIOUS
  <2>2. QED
    BY <2>1, OffersAssumption DEF IsPatch
<1>2. PICK o \in r.ids : call' = [call EXCEPT ![k] =
        [Idle EXCEPT !.op = r.op, !.id = o, !.patch = r.patch,
                     !.at = IF IsBulk(r.op) THEN "list" ELSE Beginning(r.op)]]
  BY DEF StartCall
<1>3. CallOn(k)
  BY <1>1, <1>2, IdleIsCall DEF FormInv, CallInv, CallOn, CallFields
<1>4. /\ call'[k].op = r.op
      /\ call'[k].at = IF IsBulk(r.op) THEN "list" ELSE Beginning(r.op)
  BY <1>2, IdleIsCall DEF FormInv, CallInv, CallFields
<1>5. call'[k].at = "post" => call'[k].op = "create"
  BY <1>4 DEF Beginning
<1>6. QED
  BY <1>3, <1>5, QuietStep DEF StartCall, site, FormInv, CallInv, SinceOn

(* Reading the market reads no form. *)
LEMMA ReadMarketKeeps ==
  ASSUME FormInv, NEW k \in Callers, ReadMarket(k) PROVE FormInv'
<1> DEFINE price == Target(Competitors(ParseMarketOffers(MarketRows), My), By, Floor)
<1>1. CASE Refuses(k)
  BY <1>1, RefusesOn, QuietStep DEF FormInv
<1>2. CASE ~Refuses(k)
  <2>1. /\ call' = [call EXCEPT ![k].at = "fetch", ![k].patch = [NoPatch EXCEPT !.price = {price}]]
        /\ since' = [since EXCEPT ![k].moved = {}]
        /\ UNCHANGED site
    BY <1>2 DEF ReadMarket
  <2> HIDE DEF price
  <2>2. IsPatch([NoPatch EXCEPT !.price = {price}])
    BY DEF IsPatch, NoPatch
  <2>3. CallOn(k) /\ call'[k].at = "fetch"
    BY <2>1, <2>2 DEF FormInv, CallInv, CallOn, CallFields
  <2>4. SinceOn(k)
    BY <2>1 DEF FormInv, CallInv, SinceOn, SinceFields
  <2>5. QED
    BY <2>1, <2>3, <2>4, QuietStep DEF site, FormInv, CallInv
<1>3. QED
  BY <1>1, <1>2

(* Reading the list of offers reads no form. *)
LEMMA ReadListKeeps ==
  ASSUME FormInv, NEW k \in Callers, ReadList(k) PROVE FormInv'
<1>1. CASE Refuses(k)
  BY <1>1, RefusesOn, QuietStep DEF FormInv
<1>2. CASE ~Refuses(k)
  <2> DEFINE chosen == Chosen(call[k].op, ParseMyOffers(TradePage(k)))
  <2>1. chosen \in SUBSET Ids
    <3>1. \A offer \in ParseMyOffers(TradePage(k)) : offer.id \in Ids
      BY DEF ParseMyOffers, TradePage
    <3>2. QED
      BY <3>1 DEF Chosen
  <2>2. NextEdit(k, chosen) /\ UNCHANGED site
    BY <1>2 DEF ReadList
  <2> HIDE DEF chosen
  <2>3. CallOn(k) /\ call'[k].at # "post"
    BY <2>1, <2>2, NextEditOn DEF FormInv
  <2>4. SinceOn(k)
    BY <1>2 DEF ReadList, FormInv, CallInv, SinceOn, SinceFields
  <2>5. QED
    BY <2>2, <2>3, <2>4, QuietStep DEF site, FormInv, CallInv
<1>3. QED
  BY <1>1, <1>2

(* The page read is the form's, or the offer is gone, or the session has   *)
(* ended.                                                                  *)
LEMMA ReadPageKeeps ==
  ASSUME FormInv, NEW k \in Callers, ReadPage(k) PROVE FormInv'
<1>1. CASE Refuses(k)
  BY <1>1, RefusesOn, QuietStep DEF FormInv
<1>2. CASE ~Refuses(k)
  <2>1. /\ call' = [call EXCEPT ![k].at = "post", ![k].page = EditPage(k, call[k].id)]
        /\ since' = [since EXCEPT ![k].dirty = FALSE]
        /\ offers' = offers /\ loggedIn' = loggedIn
    BY <1>2 DEF ReadPage, site
  <2>2. OffersInv' /\ CallInv'
    BY <2>1 DEF FormInv, OffersInv, CallInv, CallFields, SinceFields
  <2>3. PageIsTrue(k)'
    <3>1. call'[k].page = EditPage(k, call[k].id) /\ call'[k].id = call[k].id
      BY <2>1 DEF FormInv, CallInv, CallFields
    <3>2. QED
      BY <2>1, <3>1 DEF PageIsTrue, EditPage, Shown
  <2>4. ASSUME NEW j \in Callers, j # k PROVE PageIsTrue(j)'
    BY <2>1, <2>4, UntouchedStays DEF FormInv, CallInv
  <2>5. QED
    BY <2>2, <2>3, <2>4 DEF FormInv
<1>3. QED
  BY <1>1, <1>2

(* A saved form is noted by the others; the call itself goes on, or posts  *)
(* the same form once more.                                                *)
LEMMA SaveKeeps ==
  ASSUME FormInv, NEW k \in Callers, call[k].at = "post", NEW o \in Places(call[k]), Save(k, o),
         \/ CallOn(k) /\ call'[k].at # "post"
         \/ UNCHANGED call
  PROVE  FormInv'
<1>1. o \in Ids /\ (call[k].op # "create" => o = call[k].id)
  BY DEF Places, FormInv, CallInv
<1>2. PICK emptied \in SUBSET Custom :
        offers' = [offers EXCEPT ![o] = IF Posted(call[k]).deleted THEN Gone
                                        ELSE SiteForm(offers[o], Posted(call[k]), emptied)]
  BY DEF Save
<1>3. /\ IsForm(SiteForm(offers[o], Posted(call[k]), emptied))
      /\ \A f \in Names : SiteForm(offers[o], Posted(call[k]), emptied)[f] = Taken(Posted(call[k]))[f]
  BY SavedIsForm DEF Posted
<1>4. OffersInv'
  BY <1>1, <1>2, <1>3 DEF FormInv, OffersInv
<1>5. CallInv'
  BY <1>1, ChangedShape DEF Save, FormInv, CallInv, CallOn
<1>6. PageIsTrue(k)'
  <2>1. CASE call'[k].at # "post"
    BY <2>1 DEF PageIsTrue
  <2>2. CASE UNCHANGED call
    <3>1. call[k].op # "create" =>
            \/ offers'[call[k].id] = Gone
            \/ \A f \in Names : offers'[call[k].id][f] = Taken(Posted(call[k]))[f]
      BY <1>1, <1>2, <1>3 DEF FormInv, OffersInv
    <3>2. QED
      BY <2>2, <3>1 DEF PageIsTrue
  <2>3. QED
    BY <2>1, <2>2
<1>7. ASSUME NEW j \in Callers, j # k PROVE PageIsTrue(j)'
  <2>1. call'[j] = call[j] /\ loggedIn'[j] = loggedIn[j] /\ j \notin {k}
    BY <1>7 DEF Save, CallOn
  <2>2. \A p \in Ids \ {o} : offers'[p] = offers[p]
    BY <1>2 DEF FormInv, OffersInv
  <2>3. Changed(o, {k}) /\ CallInv /\ PageIsTrue(j)
    BY DEF Save, FormInv
  <2>4. QED
    BY <1>1, <2>1, <2>2, <2>3, ChangeIsNoted
<1>8. QED
  BY <1>4, <1>5, <1>6, <1>7 DEF FormInv

(* What a post leaves on the site, for the calls that have a page of it. *)
LEMMA PostKeeps ==
  ASSUME FormInv, NEW k \in Callers, Post(k) PROVE FormInv'
<1>1. CASE Refuses(k)
  BY <1>1, RefusesOn, QuietStep DEF FormInv
<1>2. CASE /\ Answered(k, "refused")
           /\ since' = [since EXCEPT ![k].refused = @ \cup {call[k].id}]
           /\ UNCHANGED site
  <2>1. CallOn(k) /\ call'[k].at # "post"
    BY <1>2, AnsweredOn DEF FormInv
  <2>2. SinceOn(k)
    BY <1>2 DEF FormInv, CallInv, SinceOn, SinceFields
  <2>3. QED
    BY <1>2, <2>1, <2>2, QuietStep DEF site, FormInv, CallInv
<1>3. CASE /\ \E o \in Places(call[k]) : Save(k, o)
           /\ Answered(k, "saved") \/ UNCHANGED call
  <2>1. PICK o \in Places(call[k]) : Save(k, o)
    BY <1>3
  <2>2. \/ CallOn(k) /\ call'[k].at # "post"
        \/ UNCHANGED call
    BY <1>3, AnsweredOn DEF FormInv
  <2>3. QED
    BY <2>1, <2>2, SaveKeeps DEF Post
<1>4. QED
  BY <1>1, <1>2, <1>3 DEF Post

(* Every step keeps the invariant. *)
LEMMA FormInvStep == FormInv /\ [Next]_vars => FormInv'
<1> SUFFICES ASSUME FormInv, [Next]_vars PROVE FormInv'
  OBVIOUS
<1>1. ASSUME NEW o \in Ids, NEW f \in {"price", "active"},
             NEW value \in IF f = "price" THEN MyPrices ELSE BOOLEAN, SellerEdits(o, f, value)
      PROVE  FormInv'
  BY <1>1, SellerEditsKeeps
<1>2. ASSUME NEW r \in Rivals, NEW price \in Prices, RivalMoves(r, price) PROVE FormInv'
  BY <1>2, RivalMovesKeeps
<1>3. ASSUME NEW k \in Callers, Expire(k) PROVE FormInv'
  BY <1>3, ExpireKeeps
<1>4. ASSUME NEW k \in Callers, NEW r \in Calls[k], StartCall(k, r) PROVE FormInv'
  BY <1>4, StartCallKeeps
<1>5. ASSUME NEW k \in Callers, Step(k) PROVE FormInv'
  <2>1. CASE ReadMarket(k)
    BY <2>1, ReadMarketKeeps
  <2>2. CASE ReadList(k)
    BY <2>2, ReadListKeeps
  <2>3. CASE ReadPage(k)
    BY <2>3, ReadPageKeeps
  <2>4. CASE Post(k)
    BY <2>4, PostKeeps
  <2>5. CASE NetFails(k) \/ TakeResult(k)
    <3>1. Ended(k) /\ UNCHANGED site
      BY <2>5 DEF NetFails, TakeResult
    <3>2. QED
      BY <3>1, EndedOn, QuietStep DEF site, FormInv, CallInv
  <2>6. QED
    BY <1>5, <2>1, <2>2, <2>3, <2>4, <2>5 DEF Step
<1>6. CASE UNCHANGED vars
  <2>1. OffersInv' /\ CallInv'
    BY <1>6 DEF vars, site, FormInv, OffersInv, CallInv
  <2>2. ASSUME NEW k \in Callers PROVE PageIsTrue(k)'
    BY <1>6, UntouchedStays DEF vars, site, FormInv
  <2>3. QED
    BY <2>1, <2>2 DEF FormInv
<1>7. QED
  BY <1>1, <1>2, <1>3, <1>4, <1>5, <1>6 DEF Next
-----------------------------------------------------------------------------
(* The page a call is about to post over is the form on the site, unless   *)
(* somebody else has changed the offer since it was read.                  *)
THEOREM PagesAreTrue == Spec => []FormInv
<1>1. QED
  BY FormInvInit, FormInvStep, PTL DEF Spec

(* An edit, through any client, with any loss of answers and sessions,     *)
(* whatever fields the category adds to the form, changes only what its    *)
(* patch names of the fields an OfferEdit has a place for, unless somebody *)
(* else has changed the offer since its page was read (client.rs:374-395). *)
THEOREM EditsArePatches == Spec => UnnamedFieldsKept
<1>1. ASSUME FormInv, NEW k \in Callers, NEW o \in Ids,
             Post(k), offers'[o] # offers[o], offers[o] # Gone, ~since[k].dirty
      PROVE  IF offers'[o] = Gone THEN call[k].patch.deleted = {TRUE}
             ELSE \A f \in Names : call[k].patch[f] = {} => offers'[o][f] = offers[o][f]
  <2>1. ~Refuses(k) /\ ~UNCHANGED site
    BY <1>1, RefusesOn DEF FormInv, site
  <2>2. loggedIn[k] /\ \E p \in Places(call[k]) : Save(k, p)
    BY <1>1, <2>1 DEF Post
  <2>3. PICK p \in Places(call[k]) : Save(k, p)
    BY <2>2
  <2>4. o = p
    BY <1>1, <2>3 DEF Save, FormInv, OffersInv
  <2>5. call[k].op # "create" /\ o = call[k].id
    BY <1>1, <2>3, <2>4 DEF Places
  <2>6. IF Posted(call[k]).deleted THEN offers'[o] = Gone
        ELSE IsForm(offers'[o]) /\ \A f \in Names : offers'[o][f] = Taken(Posted(call[k]))[f]
    <3>1. PICK emptied \in SUBSET Custom :
            offers'[o] = IF Posted(call[k]).deleted THEN Gone
                         ELSE SiteForm(offers[o], Posted(call[k]), emptied)
      BY <1>1, <2>3, <2>4 DEF Save, FormInv, OffersInv
    <3>2. /\ IsForm(SiteForm(offers[o], Posted(call[k]), emptied))
          /\ \A f \in Names : SiteForm(offers[o], Posted(call[k]), emptied)[f]
                               = Taken(Posted(call[k]))[f]
      BY SavedIsForm DEF Posted
    <3>3. QED
      BY <3>1, <3>2
  <2>7. \/ call[k].page = Shown(offers[o])
        \/ \A f \in Names : offers[o][f] = Taken(Posted(call[k]))[f]
    BY <1>1, <2>2, <2>5 DEF Post, FormInv, PageIsTrue
  <2>8. Posted(call[k]) = BuildOfferPayload(Merge(ParseOfferDetails(call[k].page), call[k].patch))
    BY <2>5 DEF Posted
  <2>9. CASE call[k].page = Shown(offers[o])
    <3>1. IsForm(offers[o]) /\ IsPatch(call[k].patch)
      BY <1>1 DEF FormInv, OffersInv, CallInv
    <3>2. /\ Posted(call[k]).deleted <=> call[k].patch.deleted = {TRUE}
          /\ \A f \in Names : call[k].patch[f] = {} => Taken(Posted(call[k]))[f] = offers[o][f]
      <4>1. ChangesOnly(offers[o], call[k].patch, Patched(offers[o], call[k].patch))
        BY <3>1, PatchIsExact
      <4>2. Patched(offers[o], call[k].patch) = Posted(call[k])
        BY <2>8, <2>9 DEF Patched
      <4>3. QED
        BY <4>1, <4>2 DEF ChangesOnly
    <3>3. CASE Posted(call[k]).deleted
      BY <2>6, <3>2, <3>3
    <3>4. CASE ~Posted(call[k]).deleted
      BY <2>6, <3>2, <3>4, FormIsNotGone
    <3>5. QED
      BY <3>3, <3>4
  <2>10. CASE \A f \in Names : offers[o][f] = Taken(Posted(call[k]))[f]
    <3>1. CASE ~Posted(call[k]).deleted
      BY <2>6, <2>10, <3>1, FormIsNotGone
    <3>2. CASE Posted(call[k]).deleted
      <4>1. PICK edit : edit = Merge(ParseOfferDetails(call[k].page), call[k].patch)
        OBVIOUS
      <4>2. edit.deleted = call[k].patch.deleted
        BY <4>1 DEF Merge, ParseOfferDetails
      <4>3. Posted(call[k]).deleted = (TRUE \in edit.deleted)
        BY <2>8, <4>1, PayloadKeys
      <4>4. TRUE \in call[k].patch.deleted
        BY <3>2, <4>2, <4>3
      <4>5. call[k].patch.deleted = {TRUE}
        BY <1>1, <4>4 DEF FormInv, CallInv, IsPatch
      <4>6. QED
        BY <2>6, <3>2, <4>5
    <3>3. QED
      BY <3>1, <3>2
  <2>11. QED
    BY <2>7, <2>9, <2>10
<1>2. FormInv /\ [Next]_vars =>
        [\A k \in Callers, o \in Ids :
           Post(k) /\ offers'[o] # offers[o] /\ offers[o] # Gone /\ ~since[k].dirty =>
             IF offers'[o] = Gone THEN call[k].patch.deleted = {TRUE}
             ELSE \A f \in Names : call[k].patch[f] = {} => offers'[o][f] = offers[o][f]]_vars
  BY <1>1
<1>3. QED
  BY <1>2, PagesAreTrue, PTL DEF Spec, UnnamedFieldsKept
-----------------------------------------------------------------------------
(* An offer that a bulk call has dealt with. *)
DealtWith(op, o) == offers[o] = Gone \/ (op = "deactivateAll" /\ ~offers[o].active)

(* A bulk call that edits, or has ended with Ok: each offer of its list,   *)
(* but those the site refused and those somebody else has changed, is      *)
(* dealt with, or still to be edited.                                      *)
BulkInv(k) ==
  LET c == call[k]
      s == since[k]
  IN /\ c.op = "deactivateAll" => c.patch.active = {FALSE}
     /\ c.op = "deleteAll" => c.patch.deleted = {TRUE}
     /\ c.at = "list" => IsBulk(c.op)
     /\ c.at = "market" => ~IsBulk(c.op)
     /\ c.how = "done" => IsBulk(c.op) /\ c.at = "returned"
     /\ s.todo \subseteq Ids
     /\ IsBulk(c.op) /\ (c.at \in {"fetch", "post"} \/ c.how = "done") /\ ~s.blind =>
          \A o \in s.todo \ (s.refused \cup s.changed) :
            \/ DealtWith(c.op, o)
            \/ c.at # "returned" /\ (o \in c.todo \/ o = c.id)

(* A call that another's step leaves alone stays so: a change of an offer  *)
(* is noted.                                                               *)
LEMMA BulkUntouched ==
  ASSUME NEW k \in Callers, BulkInv(k), call'[k] = call[k],
         since'[k].todo = since[k].todo, since'[k].refused = since[k].refused,
         since'[k].blind = since[k].blind, since[k].changed \subseteq since'[k].changed,
         \/ call[k].at = "idle"
         \/ \A o \in Ids : offers'[o] = offers[o] \/ o \in since'[k].changed
  PROVE  BulkInv(k)'
<1>1. CASE call[k].at = "idle"
  <2>1. call'[k].how # "done" /\ call'[k].at = "idle"
    BY <1>1 DEF BulkInv
  <2>2. QED
    BY <2>1 DEF BulkInv
<1>2. CASE \A o \in Ids : offers'[o] = offers[o] \/ o \in since'[k].changed
  <2>1. \A o \in Ids : o \notin since'[k].changed =>
          (DealtWith(call[k].op, o)' <=> DealtWith(call[k].op, o))
    BY <1>2 DEF DealtWith
  <2>2. QED
    BY <2>1 DEF BulkInv
<1>3. QED
  BY <1>1, <1>2

(* A change of an offer keeps the calls that learn of it. *)
LEMMA BulkChanged ==
  ASSUME CallInv, NEW o, NEW by, Changed(o, by), NEW k \in Callers, k \notin by,
         BulkInv(k), call'[k] = call[k], \A p \in Ids \ {o} : offers'[p] = offers[p]
  PROVE  BulkInv(k)'
<1>1. CASE call[k].at = "idle"
  <2>1. since'[k] = since[k]
    BY <1>1 DEF Changed, CallInv
  <2>2. QED
    BY <1>1, <2>1, BulkUntouched
<1>2. CASE call[k].at # "idle"
  <2>1. /\ since'[k].todo = since[k].todo /\ since'[k].refused = since[k].refused
        /\ since'[k].blind = since[k].blind
        /\ since'[k].changed = since[k].changed \cup {o}
    BY <1>2 DEF Changed, CallInv, SinceFields
  <2>2. QED
    BY <2>1, BulkUntouched
<1>3. QED
  BY <1>1, <1>2

(* A call that has ended has nothing to do. *)
LEMMA BulkEnded ==
  ASSUME CallInv, NEW k \in Callers, Ended(k)
  PROVE  BulkInv(k)'
<1>1. call'[k] = Idle /\ since'[k] = Fresh
  BY DEF CallInv, Ended
<1>2. Idle.op = "none" /\ Idle.at = "idle" /\ Idle.how = "none" /\ Fresh.todo = {}
  BY DEF Idle, Fresh
<1>3. QED
  BY <1>1, <1>2 DEF BulkInv, IsBulk

(* The next edit, or the end, of a call whose remaining offers are todo.   *)
LEMMA BulkNext ==
  ASSUME CallInv, NEW k \in Callers, NEW todo \in SUBSET Ids, NextEdit(k, todo),
         IsBulk(call[k].op), BulkInv(k), call[k].at # "returned",
         since'[k].todo \subseteq Ids,
         ~since'[k].blind =>
           \A o \in since'[k].todo \ (since'[k].refused \cup since'[k].changed) :
             DealtWith(call[k].op, o)' \/ o \in todo
  PROVE  BulkInv(k)'
<1>1. CASE todo = {}
  <2>1. Return(k, "done")
    BY <1>1 DEF NextEdit
  <2>2. /\ call'[k].op = call[k].op /\ call'[k].patch = call[k].patch
        /\ call'[k].at = "returned" /\ call'[k].how = "done"
    BY <2>1 DEF Return, CallInv, CallFields
  <2>3. QED
    BY <1>1, <2>2 DEF BulkInv, DealtWith
<1>2. CASE todo # {}
  <2>1. PICK o \in todo : call' = [call EXCEPT ![k] =
          [call[k] EXCEPT !.id = o, !.todo = todo \ {o}, !.at = "fetch",
                          !.again = FALSE, !.page = Blank]]
    BY <1>2 DEF NextEdit
  <2>2. /\ call'[k].op = call[k].op /\ call'[k].patch = call[k].patch
        /\ call'[k].at = "fetch" /\ call'[k].how = call[k].how
        /\ call'[k].id = o /\ call'[k].todo = todo \ {o}
    BY <2>1 DEF CallInv, CallFields
  <2>3. call[k].how # "done"
    BY DEF BulkInv
  <2>4. QED
    BY <2>2, <2>3 DEF BulkInv, DealtWith
<1>3. QED
  BY <1>1, <1>2

(* A refused call begins its request again, or ends. *)
LEMMA BulkRefused ==
  ASSUME CallInv, NEW k \in Callers, BulkInv(k), Refuses(k),
         call[k].at \in {"list", "market", "fetch", "post"}
  PROVE  BulkInv(k)'
<1>1. CASE /\ call' = [call EXCEPT ![k] = [call[k] EXCEPT !.again = TRUE, !.page = Blank,
                !.at = IF call[k].at = "list" THEN "list" ELSE Beginning(call[k].op)]]
           /\ UNCHANGED << since, offers >>
  <2>1. /\ call'[k].op = call[k].op /\ call'[k].patch = call[k].patch
        /\ call'[k].how = call[k].how /\ call'[k].id = call[k].id
        /\ call'[k].todo = call[k].todo
        /\ call'[k].at = IF call[k].at = "list" THEN "list" ELSE Beginning(call[k].op)
    BY <1>1 DEF CallInv, CallFields
  <2>2. call[k].how # "done"
    BY DEF BulkInv
  <2>3. call'[k].at = "list" => IsBulk(call[k].op)
    BY <2>1 DEF Beginning, BulkInv
  <2>4. call'[k].at = "market" => ~IsBulk(call[k].op)
    BY <2>1 DEF Beginning, IsBulk
  <2>5. IsBulk(call[k].op) /\ call'[k].at \in {"fetch", "post"} => call[k].at \in {"fetch", "post"}
    BY <2>1 DEF BulkInv
  <2>6. \A o : DealtWith(call[k].op, o)' <=> DealtWith(call[k].op, o)
    BY <1>1 DEF DealtWith
  <2>7. CASE call[k].at \in {"fetch", "post"}
    <3>1. IsBulk(call[k].op) /\ ~since[k].blind =>
            \A o \in since[k].todo \ (since[k].refused \cup since[k].changed) :
              DealtWith(call[k].op, o) \/ o \in call[k].todo \/ o = call[k].id
      BY <2>7 DEF BulkInv
    <3>2. since'[k] = since[k] /\ call'[k].at # "returned"
      BY <1>1, <2>1 DEF Beginning
    <3>3. QED
      BY <2>1, <2>2, <2>3, <2>4, <2>6, <3>1, <3>2 DEF BulkInv
  <2>8. CASE ~(IsBulk(call[k].op) /\ call'[k].at \in {"fetch", "post"})
    <3>1. since'[k] = since[k] /\ (IsBulk(call[k].op)' <=> IsBulk(call[k].op))
      BY <1>1, <2>1 DEF IsBulk
    <3>2. ~(IsBulk(call'[k].op) /\ (call'[k].at \in {"fetch", "post"} \/ call'[k].how = "done"))
      BY <2>1, <2>2, <2>8
    <3>3. /\ call'[k].op = "deactivateAll" => call'[k].patch.active = {FALSE}
          /\ call'[k].op = "deleteAll" => call'[k].patch.deleted = {TRUE}
          /\ since'[k].todo \subseteq Ids
      BY <2>1, <3>1 DEF BulkInv
    <3>4. QED
      BY <2>1, <2>2, <2>3, <2>4, <3>1, <3>2, <3>3 DEF BulkInv
  <2>9. QED
    BY <2>5, <2>7, <2>8
<1>2. CASE Ended(k)
  BY <1>2, BulkEnded
<1>3. QED
  BY <1>1, <1>2 DEF Refuses

(* A new bulk call begins with its list. *)
LEMMA BulkStarts ==
  ASSUME CallInv, NEW k \in Callers, BulkInv(k), NEW r \in Calls[k], StartCall(k, r)
  PROVE  BulkInv(k)'
<1>1. PICK o \in r.ids : call' = [call EXCEPT ![k] =
        [Idle EXCEPT !.op = r.op, !.id = o, !.patch = r.patch,
                     !.at = IF IsBulk(r.op) THEN "list" ELSE Beginning(r.op)]]
  BY DEF StartCall
<1>2. /\ call'[k].op = r.op /\ call'[k].patch = r.patch
      /\ call'[k].at = IF IsBulk(r.op) THEN "list" ELSE Beginning(r.op)
      /\ call'[k].how = "none"
  BY <1>1, IdleIsCall DEF CallInv, CallFields, Idle
<1>3. /\ r.op = "deactivateAll" => r.patch = [NoPatch EXCEPT !.active = {FALSE}]
      /\ r.op = "deleteAll" => r.patch = [NoPatch EXCEPT !.deleted = {TRUE}]
  <2>1. r \in UNION {Calls[j] : j \in Callers}
    OBVIOUS
  <2>2. QED
    BY <2>1, OffersAssumption
<1>4. /\ [NoPatch EXCEPT !.active = {FALSE}].active = {FALSE}
      /\ [NoPatch EXCEPT !.deleted = {TRUE}].deleted = {TRUE}
  BY DEF NoPatch, Names, Flags, Texts
<1>5. since'[k] = since[k]
  BY DEF StartCall
<1>6. QED
  BY <1>2, <1>3, <1>4, <1>5 DEF BulkInv, Beginning, IsBulk

(* Reading the market is no part of a bulk call. *)
LEMMA BulkMarket ==
  ASSUME CallInv, NEW k \in Callers, BulkInv(k), ReadMarket(k)
  PROVE  BulkInv(k)'
<1>1. CASE Refuses(k)
  BY <1>1, BulkRefused DEF ReadMarket
<1>2. CASE ~Refuses(k)
  <2>1. /\ call'[k].op = call[k].op /\ call'[k].at = "fetch" /\ call'[k].how = call[k].how
        /\ ~IsBulk(call[k].op) /\ since'[k].todo = since[k].todo
    BY <1>2 DEF ReadMarket, CallInv, CallFields, SinceFields, BulkInv
  <2>2. QED
    BY <2>1 DEF BulkInv, IsBulk
<1>3. QED
  BY <1>1, <1>2

(* The list: in a session, it has just the offers that are to be edited.   *)
LEMMA BulkList ==
  ASSUME FormInv, NEW k \in Callers, BulkInv(k), ReadList(k)
  PROVE  BulkInv(k)'
<1>1. CASE Refuses(k)
  BY <1>1, BulkRefused DEF FormInv, ReadList
<1>2. CASE ~Refuses(k)
  <2> DEFINE rows == TradePage(k)
             chosen == Chosen(call[k].op, ParseMyOffers(rows))
             wanted == {o \in Ids : /\ offers[o] # Gone
                                    /\ call[k].op = "deactivateAll" => offers[o].active}
  <2>1. chosen \subseteq Ids /\ (loggedIn[k] => wanted \subseteq chosen)
    <3>1. \A offer \in ParseMyOffers(rows) : offer.id \in Ids
      BY DEF ParseMyOffers, TradePage
    <3>2. ASSUME loggedIn[k], NEW o \in wanted PROVE o \in chosen
      <4>1. PICK row : row = [id |-> {o}, warning |-> ~offers[o].active]
        OBVIOUS
      <4>2. row \in rows /\ row.id = {o}
        BY <3>2, <4>1 DEF TradePage
      <4> HIDE DEF rows
      <4>3. PICK offer : offer = [id |-> CHOOSE x \in row.id : TRUE, active |-> ~row.warning]
        OBVIOUS
      <4>4. offer \in ParseMyOffers(rows)
        BY <4>2, <4>3 DEF ParseMyOffers
      <4>5. offer.id = o
        <5>1. (CHOOSE x \in {o} : TRUE) = o
          OBVIOUS
        <5>2. QED
          BY <4>2, <4>3, <5>1
      <4>6. call[k].op = "deactivateAll" => offer.active
        BY <3>2, <4>1, <4>3
      <4>7. QED
        BY <4>4, <4>5, <4>6 DEF Chosen
    <3>3. QED
      BY <3>1, <3>2 DEF Chosen
  <2>2. NextEdit(k, chosen) /\ call[k].at = "list" /\ offers' = offers
    BY <1>2 DEF ReadList, site
  <2>3. since'[k].todo = wanted /\ since'[k].blind = ~loggedIn[k]
    BY <1>2 DEF ReadList, FormInv, CallInv, SinceFields
  <2> HIDE DEF chosen, wanted
  <2>4. ~since'[k].blind =>
          \A o \in since'[k].todo \ (since'[k].refused \cup since'[k].changed) :
             DealtWith(call[k].op, o)' \/ o \in chosen
    BY <2>1, <2>3
  <2>5. since'[k].todo \subseteq Ids
    BY <2>3 DEF wanted
  <2>6. IsBulk(call[k].op)
    BY <2>2 DEF BulkInv
  <2>7. QED
    BY <2>1, <2>2, <2>4, <2>5, <2>6, BulkNext DEF FormInv
<1>3. QED
  BY <1>1, <1>2

(* Reading the page leaves the offer to be edited. *)
LEMMA BulkPage ==
  ASSUME CallInv, NEW k \in Callers, BulkInv(k), ReadPage(k)
  PROVE  BulkInv(k)'
<1>1. CASE Refuses(k)
  BY <1>1, BulkRefused DEF ReadPage
<1>2. CASE ~Refuses(k)
  <2>1. /\ call' = [call EXCEPT ![k].at = "post", ![k].page = EditPage(k, call[k].id)]
        /\ since' = [since EXCEPT ![k].dirty = FALSE]
        /\ offers' = offers /\ call[k].at = "fetch"
    BY <1>2 DEF ReadPage, site
  <2>2. /\ call'[k].op = call[k].op /\ call'[k].patch = call[k].patch
        /\ call'[k].at = "post" /\ call'[k].how = call[k].how
        /\ call'[k].id = call[k].id /\ call'[k].todo = call[k].todo
    BY <2>1 DEF CallInv, CallFields
  <2>3. /\ since'[k].todo = since[k].todo /\ since'[k].refused = since[k].refused
        /\ since'[k].changed = since[k].changed /\ since'[k].blind = since[k].blind
    BY <2>1 DEF CallInv, SinceFields
  <2>4. ASSUME IsBulk(call[k].op), ~since[k].blind,
               NEW o \in since[k].todo \ (since[k].refused \cup since[k].changed)
        PROVE  DealtWith(call[k].op, o) \/ o \in call[k].todo \/ o = call[k].id
    BY <2>1, <2>4 DEF BulkInv
  <2>5. \A o : DealtWith(call[k].op, o)' <=> DealtWith(call[k].op, o)
    BY <2>1, <2>2 DEF DealtWith
  <2>6. QED
    BY <2>1, <2>2, <2>3, <2>4, <2>5 DEF BulkInv
<1>3. QED
  BY <1>1, <1>2

(* The next edit is of the same call. *)
LEMMA NextEditSame ==
  ASSUME CallInv, NEW k \in Callers, NEW todo, NextEdit(k, todo)
  PROVE  call'[k].op = call[k].op
<1>1. CASE todo = {}
  <2>1. PICK how : Return(k, how)
    BY <1>1 DEF NextEdit
  <2>2. QED
    BY <2>1 DEF Return, CallInv, CallFields
<1>2. CASE todo # {}
  <2>1. PICK o \in todo : call' = [call EXCEPT ![k] =
          [call[k] EXCEPT !.id = o, !.todo = todo \ {o}, !.at = "fetch",
                          !.again = FALSE, !.page = Blank]]
    BY <1>2 DEF NextEdit
  <2>2. QED
    BY <2>1 DEF CallInv, CallFields
<1>3. QED
  BY <1>1, <1>2

(* What an edit that names deleted, or active as off, posts. *)
LEMMA FlagsPosted ==
  ASSUME NEW edit
  PROVE  /\ edit.deleted = {TRUE} => BuildOfferPayload(edit).deleted
         /\ edit.active = {FALSE} => ~Taken(BuildOfferPayload(edit)).active
<1>1. TRUE \in {TRUE} /\ FALSE \in {FALSE}
  OBVIOUS
<1>2. edit.deleted = {TRUE} => TRUE \in edit.deleted
  BY <1>1
<1>3. edit.active = {FALSE} => ~(FALSE \notin edit.active)
  BY <1>1
<1>4. BuildOfferPayload(edit).deleted = (TRUE \in edit.deleted)
  BY PayloadKeys
<1>5. Taken(BuildOfferPayload(edit)).active = (FALSE \notin edit.active)
  BY PayloadKeys
<1>6. QED
  BY <1>2, <1>3, <1>4, <1>5

(* What a bulk call's edit saves leaves its offer dealt with. *)
LEMMA BulkSaves ==
  ASSUME FormInv, NEW k \in Callers, BulkInv(k), IsBulk(call[k].op),
         NEW o \in Places(call[k]), Save(k, o)
  PROVE  /\ o = call[k].id /\ o \in Ids /\ since'[k] = since[k]
         /\ \A p \in Ids \ {o} : offers'[p] = offers[p]
         /\ offers'[o] = Gone \/ (call[k].op = "deactivateAll" /\ ~offers'[o].active)
<1>1. o = call[k].id /\ o \in Ids /\ call[k].op # "create"
  BY DEF Places, FormInv, CallInv, IsBulk
<1>2. PICK emptied \in SUBSET Custom :
        offers' = [offers EXCEPT ![o] = IF Posted(call[k]).deleted THEN Gone
                                        ELSE SiteForm(offers[o], Posted(call[k]), emptied)]
  BY DEF Save
<1>3. since'[k] = since[k]
  BY DEF Save, Changed, FormInv, CallInv
<1>4. PICK patch : patch = call[k].patch
  OBVIOUS
<1>5. PICK edit : edit = Merge(ParseOfferDetails(call[k].page), patch)
  OBVIOUS
<1>6. Posted(call[k]) = BuildOfferPayload(edit)
  BY <1>1, <1>4, <1>5 DEF Posted
<1>7. CASE call[k].op = "deleteAll"
  <2>1. edit.deleted = {TRUE}
    BY <1>4, <1>5, <1>7 DEF BulkInv, Merge
  <2>2. Posted(call[k]).deleted
    BY <1>6, <2>1, FlagsPosted
  <2>3. offers'[o] = Gone
    BY <1>1, <1>2, <2>2 DEF FormInv, OffersInv
  <2>4. QED
    BY <1>1, <1>2, <1>3, <2>3 DEF FormInv, OffersInv
<1>8. CASE call[k].op = "deactivateAll"
  <2>1. edit.active = {FALSE}
    BY <1>4, <1>5, <1>8 DEF BulkInv, Merge, Names, Flags
  <2>2. ~Taken(Posted(call[k])).active
    BY <1>6, <2>1, FlagsPosted
  <2>3. SiteForm(offers[o], Posted(call[k]), emptied).active = Taken(Posted(call[k])).active
    BY <1>6, SavedIsForm DEF Names, Flags
  <2>4. offers'[o] = Gone \/ ~offers'[o].active
    BY <1>1, <1>2, <2>2, <2>3 DEF FormInv, OffersInv
  <2>5. QED
    BY <1>1, <1>2, <1>3, <1>8, <2>4 DEF FormInv, OffersInv
<1>9. QED
  BY <1>7, <1>8 DEF IsBulk

(* A single call's post is not of a bulk call. *)
LEMMA BulkOther ==
  ASSUME CallInv, NEW k \in Callers, BulkInv(k), ~IsBulk(call[k].op),
         call'[k].op = call[k].op, call'[k].at \notin {"list", "market"},
         call'[k].how # "done", since'[k].todo \subseteq Ids
  PROVE  BulkInv(k)'
BY DEF BulkInv, IsBulk

(* The post of a bulk call's edit deals with its offer, is refused, or has *)
(* lost its answer.                                                        *)
LEMMA BulkPost ==
  ASSUME FormInv, NEW k \in Callers, BulkInv(k), Post(k)
  PROVE  BulkInv(k)'
<1>a. call[k].at = "post" /\ call[k].how # "done" /\ CallInv /\ call[k].todo \in SUBSET Ids
  BY DEF Post, BulkInv, FormInv, CallInv
<1>b. IsBulk(call[k].op) /\ ~since[k].blind =>
        \A o \in since[k].todo \ (since[k].refused \cup since[k].changed) :
          DealtWith(call[k].op, o) \/ o \in call[k].todo \/ o = call[k].id
  BY <1>a DEF BulkInv
<1>c. since[k].todo \subseteq Ids
  BY DEF BulkInv
<1>r. ASSUME NEW how \in {"refused", "saved"}, Answered(k, how), ~IsBulk(call[k].op),
             since'[k].todo \subseteq Ids
      PROVE  BulkInv(k)'
  <2>1. Return(k, how)
    BY <1>r DEF Answered
  <2>2. call'[k].op = call[k].op /\ call'[k].at = "returned" /\ call'[k].how = how
    BY <2>1 DEF Return, CallFields, FormInv, CallInv
  <2>3. QED
    BY <1>a, <1>r, <2>2, BulkOther
<1>1. CASE Refuses(k)
  BY <1>1, <1>a, BulkRefused
<1>2. CASE /\ Answered(k, "refused")
           /\ since' = [since EXCEPT ![k].refused = @ \cup {call[k].id}]
           /\ UNCHANGED site
  <2>1. /\ since'[k].todo = since[k].todo /\ since'[k].blind = since[k].blind
        /\ since'[k].changed = since[k].changed
        /\ since'[k].refused = since[k].refused \cup {call[k].id}
    BY <1>2, <1>a DEF CallInv, SinceFields
  <2>2. CASE IsBulk(call[k].op)
    <3>1. NextEdit(k, call[k].todo) /\ offers' = offers
      BY <1>2, <2>2 DEF Answered, site
    <3>2. call'[k].op = call[k].op
      BY <3>1, <1>a, NextEditSame
    <3>3. PICK todo : todo = call[k].todo
      OBVIOUS
    <3>4. ~since'[k].blind =>
           \A o \in since'[k].todo \ (since'[k].refused \cup since'[k].changed) :
             DealtWith(call[k].op, o)' \/ o \in todo
      BY <1>b, <2>1, <2>2, <3>1, <3>2, <3>3 DEF DealtWith
    <3>5. QED
      BY <1>a, <1>c, <2>1, <2>2, <3>1, <3>3, <3>4, BulkNext
  <2>3. QED
    BY <1>2, <1>c, <1>r, <2>1, <2>2
<1>3. CASE /\ \E o \in Places(call[k]) : Save(k, o)
           /\ Answered(k, "saved") \/ UNCHANGED call
  <2>1. PICK o \in Places(call[k]) : Save(k, o)
    BY <1>3
  <2>2. CASE IsBulk(call[k].op)
    <3>1. /\ o = call[k].id /\ o \in Ids /\ since'[k] = since[k]
          /\ \A p \in Ids \ {o} : offers'[p] = offers[p]
          /\ offers'[o] = Gone \/ (call[k].op = "deactivateAll" /\ ~offers'[o].active)
      BY <2>1, <2>2, BulkSaves
    <3>2. PICK todo : todo = call[k].todo
      OBVIOUS
    <3>3. PICK op : op = call[k].op
      OBVIOUS
    <3>4. DealtWith(op, o)'
      BY <3>1, <3>3 DEF DealtWith
    <3>5. ~since'[k].blind =>
           \A p \in since'[k].todo \ (since'[k].refused \cup since'[k].changed) :
             DealtWith(op, p)' \/ p \in todo
      <4>1. ASSUME ~since[k].blind, NEW p \in since[k].todo \ (since[k].refused \cup since[k].changed)
            PROVE  DealtWith(op, p)' \/ p \in todo
        <5>1. CASE p = o
          BY <3>4, <5>1
        <5>2. CASE p # o
          <6>1. DealtWith(op, p) \/ p \in todo
            BY <1>b, <2>2, <3>1, <3>2, <3>3, <4>1, <5>2
          <6>2. offers'[p] = offers[p]
            BY <1>c, <3>1, <4>1, <5>2
          <6>3. QED
            BY <6>1, <6>2 DEF DealtWith
        <5>3. QED
          BY <5>1, <5>2
      <4>2. QED
        BY <3>1, <4>1
    <3>6. CASE Answered(k, "saved")
      <4>1. NextEdit(k, todo)
        BY <2>2, <3>2, <3>6 DEF Answered
      <4>2. call'[k].op = op
        BY <4>1, <1>a, <3>3, NextEditSame
      <4>3. ~since'[k].blind =>
             \A p \in since'[k].todo \ (since'[k].refused \cup since'[k].changed) :
               DealtWith(call[k].op, p)' \/ p \in todo
        BY <3>5, <4>2 DEF DealtWith
      <4>4. QED
        BY <1>a, <1>c, <2>2, <3>1, <3>2, <4>1, <4>3, BulkNext
    <3>7. CASE UNCHANGED call
      <4>1. ~since'[k].blind =>
             \A p \in since'[k].todo \ (since'[k].refused \cup since'[k].changed) :
               DealtWith(call[k].op, p)' \/ p \in todo
        BY <3>3, <3>5, <3>7 DEF DealtWith
      <4>2. call'[k] = call[k] /\ since'[k] = since[k]
        BY <3>1, <3>7
      <4>3. QED
        BY <1>a, <3>2, <4>1, <4>2 DEF BulkInv
    <3>8. QED
      BY <1>3, <3>6, <3>7
  <2>3. CASE ~IsBulk(call[k].op)
    <3>1. since'[k] = since[k]
      BY <1>a, <2>1 DEF Save, Changed, CallInv
    <3>2. CASE Answered(k, "saved")
      BY <1>c, <1>r, <2>3, <3>1, <3>2
    <3>3. CASE UNCHANGED call
      BY <1>a, <1>c, <2>3, <3>1, <3>3, BulkOther
    <3>4. QED
      BY <1>3, <3>2, <3>3
  <2>4. QED
    BY <2>2, <2>3
<1>4. QED
  BY <1>1, <1>2, <1>3 DEF Post

(* The steps of the seller and the competitors, of the call itself, and of *)
(* the other calls, keep a bulk call's invariant.                          *)
LEMMA BulkStep ==
  ASSUME FormInv, [Next]_vars, NEW k \in Callers, BulkInv(k)
  PROVE  BulkInv(k)'
<1>a. CallInv /\ OffersInv
  BY DEF FormInv
<1>1. CASE UNCHANGED vars
  BY <1>1, BulkUntouched DEF vars, site
<1>2. ASSUME NEW o \in Ids, NEW f, NEW value, SellerEdits(o, f, value) PROVE BulkInv(k)'
  <2>1. Changed(o, {}) /\ call' = call /\ \A p \in Ids \ {o} : offers'[p] = offers[p]
    BY <1>2, <1>a DEF SellerEdits, OffersInv
  <2>2. QED
    BY <1>a, <2>1, BulkChanged
<1>3. ASSUME NEW r, NEW price, RivalMoves(r, price) PROVE BulkInv(k)'
  <2>1. /\ since'[k].todo = since[k].todo /\ since'[k].refused = since[k].refused
        /\ since'[k].blind = since[k].blind /\ since'[k].changed = since[k].changed
    BY <1>3, <1>a DEF RivalMoves, CallInv, SinceFields
  <2>2. call' = call /\ offers' = offers
    BY <1>3 DEF RivalMoves
  <2>3. QED
    BY <2>1, <2>2, BulkUntouched
<1>4. ASSUME NEW j \in Callers, Expire(j) PROVE BulkInv(k)'
  BY <1>4, BulkUntouched DEF Expire
<1>5. ASSUME NEW j \in Callers, j # k, CallOn(j), SinceOn(j), offers' = offers PROVE BulkInv(k)'
  BY <1>5, BulkUntouched DEF CallOn, SinceOn
<1>6. ASSUME NEW j \in Callers, NEW r \in Calls[j], StartCall(j, r) PROVE BulkInv(k)'
  <2>1. CASE j = k
    BY <1>6, <1>a, <2>1, BulkStarts
  <2>2. CASE j # k
    BY <1>6, <1>a, <2>2, BulkUntouched DEF StartCall, CallInv, site
  <2>3. QED
    BY <2>1, <2>2
<1>7. ASSUME NEW j \in Callers, Step(j), j # k PROVE BulkInv(k)'
  <2>2. ASSUME Refuses(j) PROVE BulkInv(k)'
    BY <1>5, <1>7, <1>a, <2>2, RefusesOn
  <2>1. CASE ReadMarket(j)
    <3>1. CASE ~Refuses(j)
      <4>1. call'[k] = call[k] /\ since'[k] = since[k] /\ offers' = offers
        BY <1>7, <1>a, <2>1, <3>1 DEF ReadMarket, CallInv, site
      <4>2. QED
        BY <4>1, BulkUntouched
    <3>2. QED
      BY <2>2, <3>1
  <2>3. ASSUME NEW todo, NextEdit(j, todo) PROVE call'[k] = call[k]
    BY <1>7, <1>a, <2>3 DEF NextEdit, Return, CallInv
  <2>4. CASE ReadList(j)
    <3>1. CASE ~Refuses(j)
      <4>1. call'[k] = call[k]
        BY <2>3, <2>4, <3>1 DEF ReadList
      <4>2. since'[k] = since[k] /\ offers' = offers
        BY <1>7, <1>a, <2>4, <3>1 DEF ReadList, site, CallInv
      <4>3. QED
        BY <4>1, <4>2, BulkUntouched
    <3>2. QED
      BY <2>2, <3>1
  <2>5. CASE ReadPage(j)
    <3>1. CASE ~Refuses(j)
      <4>1. call'[k] = call[k] /\ since'[k] = since[k] /\ offers' = offers
        BY <1>7, <1>a, <2>5, <3>1 DEF ReadPage, site, CallInv
      <4>2. QED
        BY <4>1, BulkUntouched
    <3>2. QED
      BY <2>2, <3>1
  <2>6. CASE Post(j)
    <3>1. ASSUME NEW how, Answered(j, how) PROVE call'[k] = call[k]
      BY <1>7, <1>a, <2>3, <3>1 DEF Answered, Return, CallInv
    <3>2. CASE /\ Answered(j, "refused")
               /\ since' = [since EXCEPT ![j].refused = @ \cup {call[j].id}]
               /\ UNCHANGED site
      <4>1. call'[k] = call[k] /\ since'[k] = since[k] /\ offers' = offers
        BY <1>7, <1>a, <3>1, <3>2 DEF site, CallInv
      <4>2. QED
        BY <4>1, BulkUntouched
    <3>3. CASE /\ \E o \in Places(call[j]) : Save(j, o)
               /\ Answered(j, "saved") \/ UNCHANGED call
      <4>1. call'[k] = call[k]
        BY <3>1, <3>3
      <4>2. PICK o \in Places(call[j]) : Save(j, o)
        BY <3>3
      <4>3. Changed(o, {j}) /\ \A p \in Ids \ {o} : offers'[p] = offers[p]
        BY <1>a, <4>2 DEF Save, OffersInv
      <4>4. QED
        BY <1>7, <1>a, <4>1, <4>3, BulkChanged
    <3>4. QED
      BY <2>2, <2>6, <3>2, <3>3 DEF Post
  <2>7. CASE NetFails(j) \/ TakeResult(j)
    <3>1. Ended(j) /\ offers' = offers
      BY <2>7 DEF NetFails, TakeResult, site
    <3>2. QED
      BY <1>5, <1>7, <1>a, <3>1, EndedOn
  <2>8. QED
    BY <1>7, <2>1, <2>4, <2>5, <2>6, <2>7 DEF Step
<1>8. CASE Step(k)
  <2>1. NetFails(k) \/ TakeResult(k) => BulkInv(k)'
    BY <1>a, BulkEnded DEF NetFails, TakeResult
  <2>2. QED
    BY <1>8, <1>a, <2>1, BulkMarket, BulkList, BulkPage, BulkPost DEF Step
<1>9. QED
  BY <1>1, <1>2, <1>3, <1>4, <1>6, <1>7, <1>8 DEF Next

BulkCalls == \A k \in Callers : BulkInv(k)

(* The invariant of the bulk calls. *)
LEMMA BulkHolds == Spec => []BulkCalls
<1>1. Init => BulkCalls
  <2>1. Idle.op = "none" /\ Idle.at = "idle" /\ Idle.how = "none" /\ Fresh.todo = {}
    BY DEF Idle, Fresh
  <2>2. QED
    BY <2>1 DEF Init, BulkCalls, BulkInv, IsBulk
<1>2. FormInv /\ BulkCalls /\ [Next]_vars => BulkCalls'
  BY BulkStep DEF BulkCalls
<1>3. QED
  BY <1>1, <1>2, PagesAreTrue, PTL DEF Spec

(* When deactivate_all_offers or delete_all_offers returns Ok, every offer *)
(* it had to change is off, or gone, but those whose edit the site refused *)
(* and those somebody else has changed meanwhile, unless the list came     *)
(* from an ended session (client.rs:725-747, session.rs:413-436).          *)
THEOREM BulkCallsAreDone == Spec => []BulkIsDone
<1>1. BulkCalls => BulkIsDone
  <2> SUFFICES ASSUME BulkCalls, NEW k \in Callers, call[k].how = "done", ~since[k].blind,
                      NEW o \in since[k].todo \ (since[k].refused \cup since[k].changed)
               PROVE  offers[o] # Gone => call[k].op = "deactivateAll" /\ ~offers[o].active
    BY DEF BulkIsDone
  <2>1. IsBulk(call[k].op) /\ call[k].at = "returned"
    BY DEF BulkCalls, BulkInv
  <2>2. DealtWith(call[k].op, o)
    BY <2>1 DEF BulkCalls, BulkInv
  <2>3. QED
    BY <2>1, <2>2 DEF DealtWith
<1>2. QED
  BY <1>1, BulkHolds, PTL
-----------------------------------------------------------------------------
(* A set of numbers has a least one. *)
LEMMA HasMin ==
  ASSUME NEW S, S \subseteq Nat, S # {}
  PROVE  Min(S) \in S /\ \A y \in S : Min(S) <= y
<1> DEFINE below == {ss \in Nat \X Nat : ss[1] < ss[2]}
<1>1. IsWellFoundedOn(below, Nat)
  BY NatLessThanWellFounded DEF OpToRel
<1>2. PICK x \in S : \A y \in S : ~ (<< y, x >> \in below)
  BY <1>1, WFMin
<1>3. \A y \in S : x <= y
  <2>1. \A y \in S : ~ (y < x) /\ y \in Nat /\ x \in Nat
    BY <1>2
  <2>2. QED
    BY <2>1
<1>4. QED
  BY <1>3 DEF Min

(* An Option of a number counts as 0 when there is none. *)
LEMMA PriceRead == OrZero(Unreadable) = 0 /\ \A n : OrZero({n}) = n
BY DEF OrZero, Unreadable

Compete == Rivals \ Promoted

(* The market is of numbers, as far as they can be read. *)
MarketInv == market \in [Rivals -> Prices]

(* What undercut_price takes the competitors' prices to be. *)
LEMMA CompetitorsAre ==
  ASSUME MarketInv
  PROVE  /\ \A r \in Compete :
              OrZero(market[r]) \in Competitors(ParseMarketOffers(MarketRows), My)
         /\ \A x \in Competitors(ParseMarketOffers(MarketRows), My) :
              \E r \in Compete : x = OrZero(market[r])
<1> DEFINE rivals == {[id |-> {r}, price |-> market[r], seller |-> {2}, promo |-> r \in Promoted] :
                        r \in Rivals}
           own    == {[id |-> {o}, price |-> {offers[o].price}, seller |-> {My}, promo |-> FALSE] :
                        o \in {o \in Ids : offers[o] # Gone /\ offers[o].active}}
           list   == ParseMarketOffers(MarketRows)
<1>1. MarketRows = rivals \cup own
  BY DEF MarketRows
<1>2. ASSUME NEW r \in Compete
      PROVE  OrZero(market[r]) \in Competitors(list, My)
  <2>1. PICK row : row = [id |-> {r}, price |-> market[r], seller |-> {2}, promo |-> r \in Promoted]
    OBVIOUS
  <2>2. row \in MarketRows /\ row.id # {} /\ row.price = market[r] /\ row.seller = {2} /\ ~row.promo
    BY <1>1, <2>1 DEF Compete
  <2>3. PICK offer : offer = [id |-> row.id, price |-> OrZero(row.price),
                              seller |-> OrZero(row.seller), promo |-> row.promo]
    OBVIOUS
  <2>4. offer \in list
    BY <2>2, <2>3 DEF ParseMarketOffers
  <2>5. offer.seller = 2 /\ ~offer.promo /\ offer.price = OrZero(market[r])
    BY <2>2, <2>3, PriceRead
  <2>6. QED
    BY <2>4, <2>5 DEF Competitors, My
<1>3. ASSUME NEW x \in Competitors(list, My)
      PROVE  \E r \in Compete : x = OrZero(market[r])
  <2>1. PICK offer \in list : offer.seller # My /\ ~offer.promo /\ x = offer.price
    BY <1>3 DEF Competitors
  <2>2. PICK row \in MarketRows : offer = [id |-> row.id, price |-> OrZero(row.price),
                              seller |-> OrZero(row.seller), promo |-> row.promo]
    BY <2>1 DEF ParseMarketOffers
  <2>3. row \notin own
    <3>1. row \in own => row.seller = {My}
      OBVIOUS
    <3>2. QED
      BY <2>1, <2>2, <3>1, PriceRead
  <2>4. PICK r \in Rivals :
          row = [id |-> {r}, price |-> market[r], seller |-> {2}, promo |-> r \in Promoted]
    BY <1>1, <2>3
  <2>5. r \notin Promoted
    BY <2>1, <2>2, <2>4
  <2>6. QED
    BY <2>1, <2>2, <2>4, <2>5 DEF Compete
<1>4. QED
  BY <1>2, <1>3

(* A price that undercuts what the competitors, but those that have moved, *)
(* now ask.                                                                *)
Undercuts(p, moved) ==
  /\ p \in Int /\ p >= Floor
  /\ p # Floor => \A r \in Compete \ moved : market[r] # Unreadable =>
                    \A q \in market[r] : p <= q - By
  /\ p # Floor /\ moved = {} => \E r \in Compete : p + By \in market[r]

(* The price that undercut_price chooses undercuts the market. *)
LEMMA TargetUndercuts ==
  ASSUME MarketInv
  PROVE  Undercuts(Target(Competitors(ParseMarketOffers(MarketRows), My), By, Floor), {})
<1>0. /\ By \in Nat \ {0} /\ Floor \in Nat
      /\ \A price \in Prices : price = Unreadable \/ \E n \in Nat : price = {n}
  BY OffersAssumption
<1>1. PICK S : S = Competitors(ParseMarketOffers(MarketRows), My)
  OBVIOUS
<1>2. \A r \in Compete : OrZero(market[r]) \in S
  BY <1>1, CompetitorsAre
<1>3. \A x \in S : \E r \in Compete : x = OrZero(market[r])
  BY <1>1, CompetitorsAre
<1>4. \A r \in Compete : market[r] = Unreadable \/ \E n \in Nat : market[r] = {n}
  BY <1>0 DEF MarketInv, Compete
<1>5. ASSUME NEW r \in Compete PROVE OrZero(market[r]) \in Nat
  <2>1. CASE market[r] = Unreadable
    BY <2>1, PriceRead
  <2>2. CASE \E n \in Nat : market[r] = {n}
    BY <2>2, PriceRead
  <2>3. QED
    BY <1>4, <2>1, <2>2
<1>6. S \subseteq Nat
  BY <1>3, <1>5
<1>7. CASE S = {} \/ Min(S) - By < Floor
  <2>1. Target(S, By, Floor) = Floor
    BY <1>7 DEF Target
  <2>2. QED
    BY <1>0, <1>1, <2>1 DEF Undercuts
<1>8. CASE S # {} /\ ~(Min(S) - By < Floor)
  <2>1. PICK p : p = Target(S, By, Floor)
    OBVIOUS
  <2>2. PICK m : m = Min(S)
    OBVIOUS
  <2>3. m \in S /\ m \in Nat /\ \A y \in S : m <= y
    BY <1>6, <1>8, <2>2, HasMin
  <2>4. p = m - By /\ p >= Floor /\ p \in Int
    BY <1>0, <1>8, <2>1, <2>2, <2>3 DEF Target
  <2>5. m > 0
    BY <1>0, <2>3, <2>4
  <2>6. ASSUME NEW r \in Compete, NEW q \in market[r] PROVE p <= q - By
    <3>1. market[r] = {q} /\ q \in Nat
      BY <1>4, <2>6 DEF Unreadable
    <3>2. m <= q
      BY <1>2, <2>3, <3>1, PriceRead
    <3>3. QED
      BY <1>0, <2>3, <2>4, <3>1, <3>2
  <2>7. PICK r \in Compete : m = OrZero(market[r])
    BY <1>3, <2>3
  <2>8. market[r] = {m}
    <3>1. market[r] # Unreadable
      BY <2>5, <2>7, PriceRead
    <3>2. QED
      BY <1>4, <2>7, <3>1, PriceRead
  <2>9. p + By = m
    BY <1>0, <2>3, <2>4
  <2>10. QED
    BY <1>1, <2>1, <2>4, <2>6, <2>7, <2>8, <2>9 DEF Undercuts
<1>9. QED
  BY <1>7, <1>8

(* An undercut that has chosen its price and has not saved it yet. *)
UndercutInv(k) ==
  call[k].op = "undercut" /\ call[k].at \in {"fetch", "post"} =>
    \E p : call[k].patch = [NoPatch EXCEPT !.price = {p}] /\ Undercuts(p, since[k].moved)

(* A step that leaves the call and the market alone. *)
LEMMA UndercutUntouched ==
  ASSUME NEW k \in Callers, UndercutInv(k), market' = market,
         \/ call'[k] = call[k] /\ since'[k].moved = since[k].moved
         \/ call'[k].op # "undercut"
         \/ call'[k].at \notin {"fetch", "post"}
  PROVE  UndercutInv(k)'
<1>1. CASE call'[k] = call[k] /\ since'[k].moved = since[k].moved
           /\ call[k].op = "undercut" /\ call[k].at \in {"fetch", "post"}
  <2>1. PICK p : call[k].patch = [NoPatch EXCEPT !.price = {p}] /\ Undercuts(p, since[k].moved)
    BY <1>1 DEF UndercutInv
  <2>2. PICK moved : moved = since[k].moved
    OBVIOUS
  <2>3. Undercuts(p, moved)'
    BY <2>1, <2>2 DEF Undercuts
  <2>4. QED
    BY <1>1, <2>1, <2>2, <2>3 DEF UndercutInv, Undercuts
<1>2. QED
  BY <1>1 DEF UndercutInv

(* A competitor that moves is noted. *)
LEMMA UndercutMoved ==
  ASSUME CallInv, MarketInv, NEW k \in Callers, UndercutInv(k), NEW r \in Rivals, NEW price \in Prices,
         RivalMoves(r, price)
  PROVE  UndercutInv(k)' /\ MarketInv'
<1>1. MarketInv' /\ call' = call /\ market' = [market EXCEPT ![r] = price]
  BY DEF MarketInv, RivalMoves
<1>2. CASE call[k].op = "undercut" /\ call[k].at \in {"fetch", "post"}
  <2>1. PICK p : call[k].patch = [NoPatch EXCEPT !.price = {p}] /\ Undercuts(p, since[k].moved)
    BY <1>2 DEF UndercutInv
  <2>2. since'[k].moved = since[k].moved \cup {r}
    BY <1>2 DEF RivalMoves, CallInv, SinceFields
  <2>3. \A s \in Compete \ since'[k].moved : market'[s] = market[s]
    BY <1>1, <2>2 DEF MarketInv, Compete
  <2>4. since'[k].moved # {}
    BY <2>2
  <2>5. Undercuts(p, since[k].moved)'
    BY <2>1, <2>2, <2>3, <2>4 DEF Undercuts
  <2>6. QED
    BY <1>1, <2>1, <2>5 DEF UndercutInv
<1>3. QED
  BY <1>1, <1>2 DEF UndercutInv

(* The call's own steps: it chooses its price anew when it begins again.   *)
LEMMA UndercutStep ==
  ASSUME FormInv, MarketInv, [Next]_vars, NEW k \in Callers, BulkInv(k), UndercutInv(k)
  PROVE  UndercutInv(k)' /\ MarketInv'
<1>a. CallInv
  BY DEF FormInv
<1>b. MarketInv' <=> market' \in [Rivals -> Prices]
  BY DEF MarketInv
<1>1. CASE UNCHANGED vars
  BY <1>1, UndercutUntouched DEF vars, site, MarketInv
<1>2. ASSUME NEW o \in Ids, NEW f, NEW value, SellerEdits(o, f, value) PROVE UndercutInv(k)' /\ MarketInv'
  <2>1. call' = call /\ market' = market /\ since'[k].moved = since[k].moved
    BY <1>2, <1>a DEF SellerEdits, Changed, CallInv, SinceFields
  <2>2. QED
    BY <2>1, UndercutUntouched DEF MarketInv
<1>3. ASSUME NEW r \in Rivals, NEW price \in Prices, RivalMoves(r, price)
      PROVE  UndercutInv(k)' /\ MarketInv'
  BY <1>3, <1>a, UndercutMoved
<1>4. ASSUME NEW j \in Callers, Expire(j) PROVE UndercutInv(k)' /\ MarketInv'
  BY <1>4, UndercutUntouched DEF Expire, MarketInv
<1>5. ASSUME NEW j \in Callers, NEW r \in Calls[j], StartCall(j, r)
      PROVE  UndercutInv(k)' /\ MarketInv'
  <2>1. market' = market /\ since' = since
    BY <1>5 DEF StartCall, site
  <2>2. CASE j # k
    BY <1>5, <1>a, <2>1, <2>2, UndercutUntouched DEF StartCall, CallInv, MarketInv
  <2>3. CASE j = k
    <3>1. PICK o \in r.ids : call' = [call EXCEPT ![k] =
            [Idle EXCEPT !.op = r.op, !.id = o, !.patch = r.patch,
                         !.at = IF IsBulk(r.op) THEN "list" ELSE Beginning(r.op)]]
      BY <1>5, <2>3 DEF StartCall
    <3>2. call'[k].op = r.op /\ call'[k].at = IF IsBulk(r.op) THEN "list" ELSE Beginning(r.op)
      BY <1>a, <3>1, IdleIsCall DEF CallInv, CallFields
    <3>3. call'[k].op # "undercut" \/ call'[k].at \notin {"fetch", "post"}
      BY <3>2 DEF Beginning, IsBulk
    <3>4. QED
      BY <2>1, <3>3, UndercutUntouched DEF MarketInv
  <2>4. QED
    BY <2>2, <2>3
<1>6. ASSUME NEW j \in Callers, Step(j) PROVE market' = market
  BY <1>6 DEF Step, ReadMarket, ReadList, ReadPage, Post, NetFails, TakeResult, Refuses, Save, site
<1>7. ASSUME NEW j \in Callers, Step(j), j # k PROVE call'[k] = call[k] /\ since'[k].moved = since[k].moved
  <2>1. ASSUME Ended(j) \/ \E how : Return(j, how) PROVE call'[k] = call[k]
    BY <1>7, <1>a, <2>1 DEF Ended, Return, CallInv
  <2>2. ASSUME NEW todo, NextEdit(j, todo) PROVE call'[k] = call[k]
    BY <1>7, <1>a, <2>1, <2>2 DEF NextEdit, CallInv
  <2>3. ASSUME Ended(j) PROVE since'[k] = since[k]
    BY <1>7, <1>a, <2>3 DEF Ended, CallInv
  <2>4. ASSUME Refuses(j) PROVE call'[k] = call[k] /\ since'[k] = since[k]
    BY <1>7, <1>a, <2>4, RefusesOn DEF CallOn, SinceOn
  <2>5. CASE ReadMarket(j) /\ ~Refuses(j)
    BY <1>7, <1>a, <2>5 DEF ReadMarket, CallInv
  <2>6. CASE ReadList(j) /\ ~Refuses(j)
    <3>1. call'[k] = call[k]
      BY <2>2, <2>6 DEF ReadList
    <3>2. since'[k] = since[k]
      BY <1>7, <1>a, <2>6 DEF ReadList, CallInv
    <3>3. QED
      BY <3>1, <3>2
  <2>7. CASE ReadPage(j) /\ ~Refuses(j)
    BY <1>7, <1>a, <2>7 DEF ReadPage, CallInv
  <2>8. CASE Post(j) /\ ~Refuses(j)
    <3>1. ASSUME NEW how, Answered(j, how) PROVE call'[k] = call[k]
      BY <2>1, <2>2, <3>1 DEF Answered
    <3>2. call'[k] = call[k]
      BY <2>8, <3>1 DEF Post
    <3>3. ASSUME NEW o, Save(j, o) PROVE since'[k].moved = since[k].moved
      BY <1>a, <3>3 DEF Save, Changed, CallInv, SinceFields
    <3>4. since' = [since EXCEPT ![j].refused = @ \cup {call[j].id}] => since'[k] = since[k]
      BY <1>7, <1>a DEF CallInv
    <3>5. QED
      BY <2>8, <3>2, <3>3, <3>4 DEF Post
  <2>9. CASE NetFails(j) \/ TakeResult(j)
    BY <2>1, <2>3, <2>9 DEF NetFails, TakeResult
  <2>10. QED
    BY <1>7, <2>4, <2>5, <2>6, <2>7, <2>8, <2>9 DEF Step, ReadMarket, ReadList, ReadPage, Post
<1>8. CASE Step(k)
  <2>m. market' = market
    BY <1>6, <1>8
  <2>e. ASSUME Ended(k) PROVE call'[k].op # "undercut"
    BY <1>a, <2>e DEF Ended, CallInv, Idle
  <2>1. CASE NetFails(k) \/ TakeResult(k)
    BY <2>1, <2>e, <2>m, UndercutUntouched DEF NetFails, TakeResult, MarketInv
  <2>2. CASE ReadMarket(k) /\ ~Refuses(k)
    <3>1. PICK p : p = Target(Competitors(ParseMarketOffers(MarketRows), My), By, Floor)
      OBVIOUS
    <3>2. Undercuts(p, {})
      BY <3>1, TargetUndercuts
    <3>3. call' = [call EXCEPT ![k].at = "fetch", ![k].patch = [NoPatch EXCEPT !.price = {p}]]
          /\ since' = [since EXCEPT ![k].moved = {}]
      BY <2>2, <3>1 DEF ReadMarket
    <3>4. call'[k].patch = [NoPatch EXCEPT !.price = {p}] /\ since'[k].moved = {}
      BY <1>a, <3>3 DEF CallInv, CallFields, SinceFields
    <3>5. PICK moved : moved = {}
      OBVIOUS
    <3>6. Undercuts(p, moved)'
      BY <2>m, <3>2, <3>5 DEF Undercuts
    <3>7. UndercutInv(k)'
      BY <3>4, <3>5, <3>6 DEF UndercutInv, Undercuts
    <3>8. QED
      BY <2>m, <3>7 DEF MarketInv
  <2>3. CASE Refuses(k) /\ call[k].at \in {"list", "market", "fetch", "post"}
    <3>1. CASE call' = [call EXCEPT ![k] = [call[k] EXCEPT !.again = TRUE, !.page = Blank,
                !.at = IF call[k].at = "list" THEN "list" ELSE Beginning(call[k].op)]]
      <4>1. /\ call'[k].op = call[k].op
            /\ call'[k].at = IF call[k].at = "list" THEN "list" ELSE Beginning(call[k].op)
        BY <1>a, <3>1 DEF CallInv, CallFields
      <4>2. call'[k].op # "undercut" \/ call'[k].at \notin {"fetch", "post"}
        BY <4>1 DEF Beginning
      <4>3. QED
        BY <2>m, <4>2, UndercutUntouched DEF MarketInv
    <3>2. CASE Ended(k)
      BY <2>e, <2>m, <3>2, UndercutUntouched DEF MarketInv
    <3>3. QED
      BY <2>3, <3>1, <3>2 DEF Refuses
  <2>n. ASSUME NEW todo, NextEdit(k, todo), IsBulk(call[k].op) PROVE call'[k].op # "undercut"
    <3>1. call'[k].op = call[k].op
      BY <1>a, <2>n, NextEditSame
    <3>2. QED
      BY <2>n, <3>1 DEF IsBulk
  <2>4. CASE ReadList(k) /\ ~Refuses(k)
    <3>1. IsBulk(call[k].op) => call'[k].op # "undercut"
      BY <2>4, <2>n DEF ReadList
    <3>2. IsBulk(call[k].op)
      BY <2>4 DEF ReadList, BulkInv
    <3>3. QED
      BY <2>m, <3>1, <3>2, UndercutUntouched DEF MarketInv
  <2>5. CASE ReadPage(k) /\ ~Refuses(k)
    <3>1. /\ call' = [call EXCEPT ![k].at = "post", ![k].page = EditPage(k, call[k].id)]
          /\ since' = [since EXCEPT ![k].dirty = FALSE] /\ call[k].at = "fetch"
      BY <2>5 DEF ReadPage
    <3>2. call'[k].op = call[k].op /\ call'[k].patch = call[k].patch
          /\ since'[k].moved = since[k].moved
      BY <1>a, <3>1 DEF CallInv, CallFields, SinceFields
    <3>3. CASE call[k].op = "undercut"
      <4>1. PICK p : call[k].patch = [NoPatch EXCEPT !.price = {p}] /\ Undercuts(p, since[k].moved)
        BY <3>1, <3>3 DEF UndercutInv
      <4>2. Undercuts(p, since[k].moved)'
        BY <2>m, <3>2, <4>1 DEF Undercuts
      <4>3. QED
        BY <2>m, <3>2, <4>1, <4>2 DEF UndercutInv, MarketInv
    <3>4. CASE call[k].op # "undercut"
      BY <2>m, <3>2, <3>4, UndercutUntouched DEF MarketInv
    <3>5. QED
      BY <3>3, <3>4
  <2>6. CASE Post(k) /\ ~Refuses(k)
    <3>1. ASSUME NEW how, Answered(k, how)
          PROVE  call'[k].op # "undercut" \/ call'[k].at \notin {"fetch", "post"}
      <4>1. CASE IsBulk(call[k].op)
        BY <2>n, <3>1, <4>1 DEF Answered
      <4>2. CASE ~IsBulk(call[k].op)
        BY <1>a, <3>1, <4>2, ReturnOn DEF Answered
      <4>3. QED
        BY <4>1, <4>2
    <3>2. ASSUME NEW o, Save(k, o) PROVE since'[k] = since[k]
      BY <1>a, <3>2 DEF Save, Changed, CallInv
    <3>3. \/ \E how : Answered(k, how)
          \/ UNCHANGED call /\ \E o : Save(k, o)
      BY <2>6 DEF Post
    <3>4. QED
      BY <2>m, <3>1, <3>2, <3>3, UndercutUntouched DEF MarketInv
  <2>7. QED
    BY <1>8, <2>1, <2>2, <2>3, <2>4, <2>5, <2>6 DEF Step, ReadMarket, ReadList, ReadPage, Post
<1>9. ASSUME NEW j \in Callers, Step(j) PROVE UndercutInv(k)' /\ MarketInv'
  BY <1>6, <1>7, <1>8, <1>9, UndercutUntouched DEF MarketInv
<1>10. QED
  BY <1>1, <1>2, <1>3, <1>4, <1>5, <1>9 DEF Next

Undercutting == MarketInv /\ \A k \in Callers : UndercutInv(k)

(* What an undercut posts is its offer with the chosen price. *)
LEMMA UndercutPosts ==
  ASSUME FormInv, NEW k \in Callers, call[k].op = "undercut", Post(k), offers' # offers,
         NEW p, call[k].patch = [NoPatch EXCEPT !.price = {p}]
  PROVE  offers'[call[k].id].price = p
<1>1. ~Refuses(k) /\ ~UNCHANGED site
  BY RefusesOn DEF FormInv, site
<1>2. PICK o \in Places(call[k]) : Save(k, o)
  BY <1>1 DEF Post
<1>3. o = call[k].id /\ o \in Ids
  BY <1>2 DEF Places, FormInv, CallInv
<1>4. PICK edit : edit = Merge(ParseOfferDetails(call[k].page), call[k].patch)
  OBVIOUS
<1>5. Posted(call[k]) = BuildOfferPayload(edit)
  BY <1>4 DEF Posted
<1>6. call[k].patch.price = {p} /\ call[k].patch.deleted = {}
  BY DEF NoPatch, Names, Texts
<1>7. edit.price = {p} /\ edit.deleted = {}
  BY <1>4, <1>6 DEF Merge, Names, Texts, ParseOfferDetails
<1>8. ~Posted(call[k]).deleted
  <2>1. TRUE \notin edit.deleted
    BY <1>7
  <2>2. Posted(call[k]).deleted = (TRUE \in edit.deleted)
    BY <1>5, PayloadKeys
  <2>3. QED
    BY <2>1, <2>2
<1>9. Taken(Posted(call[k])).price = p
  <2>1. TextOr({p}) = p
    BY DEF TextOr
  <2>2. Taken(BuildOfferPayload(edit))["price"] = TextOr(edit["price"])
    BY PayloadKeys DEF Texts
  <2>3. QED
    BY <1>5, <1>7, <2>1, <2>2
<1>10. PICK emptied \in SUBSET Custom : offers'[o] = SiteForm(offers[o], Posted(call[k]), emptied)
  BY <1>2, <1>3, <1>8 DEF Save, FormInv, OffersInv
<1>11. SiteForm(offers[o], Posted(call[k]), emptied).price = Taken(Posted(call[k])).price
  BY <1>5, SavedIsForm DEF Names, Texts
<1>12. QED
  BY <1>3, <1>9, <1>10, <1>11

(* client.rs:675: the price undercut_price saves is never below the        *)
(* threshold, and else below every readable competitor's that is not       *)
(* promoted and has not moved since, by just the given amount from the     *)
(* lowest; also when the call begins again and when the save is repeated.  *)
THEOREM UndercutsTheMarket == Spec => UndercutIsRight
<1> DEFINE Right(k) ==
      LET price  == offers'[call[k].id].price
          rivals == Rivals \ Promoted
          still  == {r \in rivals \ since[k].moved : market[r] # Unreadable}
      IN /\ price >= Floor
         /\ price # Floor => \A r \in still : \A p \in market[r] : price <= p - By
         /\ price # Floor /\ since[k].moved = {} =>
              \E r \in rivals : price + By \in market[r]
<1>1. Init => Undercutting
  <2>1. Idle.op = "none"
    BY DEF Idle
  <2>2. QED
    BY <2>1, OffersAssumption DEF Init, Undercutting, UndercutInv, MarketInv
<1>2. FormInv /\ BulkCalls /\ Undercutting /\ [Next]_vars => Undercutting'
  <2> SUFFICES ASSUME FormInv, BulkCalls, Undercutting, [Next]_vars PROVE Undercutting'
    OBVIOUS
  <2>1. \A k \in Callers : UndercutInv(k)'
    BY UndercutStep DEF BulkCalls, Undercutting
  <2>2. CASE Callers = {}
    <3>1. MarketInv'
      <4>1. market' = market \/ \E r \in Rivals, price \in Prices : RivalMoves(r, price)
        BY <2>2 DEF Next, SellerEdits, vars, site
      <4>2. QED
        BY <4>1 DEF RivalMoves, MarketInv, Undercutting
    <3>2. QED
      BY <2>1, <3>1 DEF Undercutting
  <2>3. CASE Callers # {}
    BY <2>1, <2>3, UndercutStep DEF BulkCalls, Undercutting
  <2>4. QED
    BY <2>2, <2>3
<1>3. ASSUME FormInv, Undercutting, NEW k \in Callers,
             call[k].op = "undercut", Post(k), offers' # offers
      PROVE  Right(k)
  <2>1. PICK p : call[k].patch = [NoPatch EXCEPT !.price = {p}] /\ Undercuts(p, since[k].moved)
    BY <1>3 DEF Undercutting, UndercutInv, Post
  <2>2. offers'[call[k].id].price = p
    BY <1>3, <2>1, UndercutPosts
  <2>3. QED
    BY <2>1, <2>2 DEF Undercuts, Compete
<1>4. FormInv /\ Undercutting /\ [Next]_vars =>
        [\A k \in Callers : call[k].op = "undercut" /\ Post(k) /\ offers' # offers => Right(k)]_vars
  BY <1>3
<1>5. QED
  BY <1>1, <1>2, <1>4, PagesAreTrue, BulkHolds, PTL DEF Spec, UndercutIsRight
=============================================================================
