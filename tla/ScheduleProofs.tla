----------------------------- MODULE ScheduleProofs -----------------------------
(***************************************************************************)
(* Theorems about Schedule for every set of offers, every schedule and     *)
(* every combination of failures, ended sessions and restarts.             *)
(***************************************************************************)
EXTENDS Schedule, TLAPS

(* The form of an offer on the site: every field has a value. *)
RealForms == [active : BOOLEAN, price : 0..MaxPrice]

(* An edit under way. *)
Edits == [offer : Offers, to : BOOLEAN, again : BOOLEAN,
          page : RealForms \cup {Blank, Unread}]

TypeOK ==
  /\ offers \in [Offers -> RealForms]
  /\ loggedIn \in BOOLEAN
  /\ edit \in Edits \cup {NoEdit}

(* Whoever holds the page without a form has no session to post it with:   *)
(* a new session begins only where no edit runs, or where the edit that    *)
(* asked for it starts over.                                               *)
BlankUnposted == edit # NoEdit /\ edit.page = Blank => ~loggedIn

IInv == TypeOK /\ BlankUnposted
-----------------------------------------------------------------------------
(* A page is a form, the page without one, or not there yet, and not two   *)
(* of these at once; an edit is not the absence of one.                    *)
LEMMA PagesDiffer ==
  /\ Blank \notin RealForms /\ Unread # Blank /\ Unread \notin RealForms
  /\ NoEdit \notin Edits
<1>1. DOMAIN Unread = {} /\ DOMAIN NoEdit = {}
  BY DEF Unread, NoEdit
<1>2. \A f \in RealForms : "price" \in DOMAIN f /\ f.price \in 0..MaxPrice
  BY DEF RealForms
<1>3. "price" \in DOMAIN Blank /\ Blank.price = -1
  BY DEF Blank, NoPrice
<1>4. -1 \notin 0..MaxPrice
  BY ScheduleAssumption
<1>5. \A e \in Edits : "page" \in DOMAIN e
  BY DEF Edits
<1>6. QED
  BY <1>1, <1>2, <1>3, <1>4, <1>5

(* A form with another activity, or with one price more, is a form. *)
LEMMA EditedForm ==
  ASSUME NEW f \in RealForms
  PROVE  /\ \A to \in BOOLEAN : [f EXCEPT !.active = to] \in RealForms
         /\ [f EXCEPT !.active = ~@] \in RealForms
         /\ f.price \in 0..(MaxPrice - 1) => [f EXCEPT !.price = @ + 1] \in RealForms
<1>1. f.price \in 0..(MaxPrice - 1) => f.price + 1 \in 0..MaxPrice
  BY ScheduleAssumption
<1>2. QED
  BY <1>1 DEF RealForms

(* The seller begins with real forms and no edit. *)
LEMMA InitReal == Init => IInv
<1> SUFFICES ASSUME Init PROVE IInv
  OBVIOUS
<1>1. [active |-> TRUE, price |-> 0] \in RealForms
  BY ScheduleAssumption DEF RealForms
<1>2. offers \in [Offers -> RealForms] /\ loggedIn \in BOOLEAN /\ edit = NoEdit
  BY <1>1 DEF Init
<1>3. QED
  BY <1>2 DEF IInv, TypeOK, BlankUnposted

(* A refused edit gives up, or starts over with a page still to be read. *)
LEMMA RefuseReal ==
  ASSUME IInv, Refuse, edit # NoEdit, UNCHANGED offers
  PROVE  IInv'
<1>1. offers' \in [Offers -> RealForms] /\ edit \in Edits
  BY DEF IInv, TypeOK
<1>2. CASE loggedIn' = TRUE /\ edit' = [edit EXCEPT !.again = TRUE, !.page = Unread]
  <2>1. edit' \in Edits /\ edit'.page = Unread
    BY <1>1, <1>2 DEF Edits
  <2>2. QED
    BY <1>1, <1>2, <2>1, PagesDiffer DEF IInv, TypeOK, BlankUnposted
<1>3. CASE GiveUp /\ UNCHANGED loggedIn
  BY <1>1, <1>3 DEF GiveUp, IInv, TypeOK, BlankUnposted
<1>4. QED
  BY <1>2, <1>3 DEF Refuse

(* Reading the page: the offer's form, or the page without one when the    *)
(* session has ended.                                                      *)
LEMMA FetchReal ==
  ASSUME IInv, FetchPage
  PROVE  IInv'
<1>1. edit # NoEdit /\ edit \in Edits /\ edit.offer \in Offers /\ UNCHANGED offers
  BY DEF FetchPage, EditIs, IInv, TypeOK, Edits
<1>2. CASE /\ edit' = [edit EXCEPT !.page = IF loggedIn THEN offers[edit.offer] ELSE Blank]
           /\ UNCHANGED loggedIn
  <2>1. offers[edit.offer] \in RealForms
    BY <1>1 DEF IInv, TypeOK
  <2>2. PICK page : page = IF loggedIn THEN offers[edit.offer] ELSE Blank
    OBVIOUS
  <2>3. edit' = [edit EXCEPT !.page = page] /\ page \in RealForms \cup {Blank, Unread}
    BY <1>2, <2>1, <2>2
  <2>4. edit' \in Edits /\ edit'.page = page
    BY <1>1, <2>3 DEF Edits
  <2>5. page = Blank => ~loggedIn
    BY <2>1, <2>2, PagesDiffer
  <2>6. QED
    BY <1>1, <1>2, <2>4, <2>5 DEF IInv, TypeOK, BlankUnposted
<1>3. CASE Refuse
  BY <1>1, <1>3, RefuseReal
<1>4. CASE GiveUp /\ UNCHANGED loggedIn
  BY <1>1, <1>4 DEF GiveUp, IInv, TypeOK, BlankUnposted
<1>5. QED
  BY <1>2, <1>3, <1>4 DEF FetchPage

(* Posting the page: only in a session, so never the page without a form. *)
LEMMA PostReal ==
  ASSUME IInv, PostPage
  PROVE  IInv'
<1>1. edit # NoEdit /\ edit \in Edits /\ edit.page # Unread
  BY DEF PostPage, EditIs, IInv, TypeOK
<1>2. loggedIn /\ Saved => offers' \in [Offers -> RealForms]
  <2> SUFFICES ASSUME loggedIn, Saved PROVE offers' \in [Offers -> RealForms]
    OBVIOUS
  <2>1. edit.page \in RealForms /\ edit.to \in BOOLEAN
    BY <1>1 DEF IInv, BlankUnposted, Edits
  <2>2. Merged(edit.page, edit.to) \in RealForms
    BY <2>1, EditedForm DEF Merged
  <2>3. QED
    BY <2>2 DEF Saved, IInv, TypeOK
<1>3. offers \in [Offers -> RealForms] /\ loggedIn \in BOOLEAN
  BY DEF IInv, TypeOK
<1>4. CASE /\ (loggedIn /\ Saved) \/ UNCHANGED offers
           /\ edit' = NoEdit /\ UNCHANGED loggedIn
  BY <1>2, <1>3, <1>4 DEF IInv, TypeOK, BlankUnposted
<1>5. CASE Refuse /\ UNCHANGED offers
  BY <1>1, <1>5, RefuseReal
<1>6. QED
  BY <1>4, <1>5 DEF PostPage, GiveUp

(* Every step keeps the invariant. *)
LEMMA NextReal ==
  ASSUME IInv, [Next]_vars
  PROVE  IInv'
<1>f. offers \in [Offers -> RealForms] /\ loggedIn \in BOOLEAN /\ edit \in Edits \cup {NoEdit}
  BY DEF IInv, TypeOK
<1>1. CASE UNCHANGED << offers, loggedIn, edit >>
  BY <1>1 DEF IInv, TypeOK, BlankUnposted
<1>2. (Tick \/ StartSleep \/ StartSchedule \/ EndCycle \/ UNCHANGED vars)
        => UNCHANGED << offers, loggedIn, edit >>
  BY DEF Tick, StartSleep, StartSchedule, EndCycle, vars, site
<1>3. CASE Expire
  BY <1>3, <1>f DEF Expire, IInv, TypeOK, BlankUnposted
<1>4. CASE Restart
  BY <1>4, <1>f DEF Restart, IInv, TypeOK, BlankUnposted
<1>5. CASE StartTransition
  <2>1. edit = NoEdit /\ UNCHANGED << offers, edit >> /\ loggedIn' \in BOOLEAN
    BY <1>5, <1>f DEF StartTransition, Idle
  <2>2. QED
    BY <1>f, <2>1 DEF IInv, TypeOK, BlankUnposted
<1>6. ASSUME NEW o \in Offers, SellerPrices(o) \/ SellerToggles(o) PROVE IInv'
  <2>1. UNCHANGED << loggedIn, edit >>
    BY <1>6 DEF SellerPrices, SellerToggles
  <2>2. offers[o] \in RealForms
    BY <1>f
  <2>3. offers' \in [Offers -> RealForms]
    BY <1>6, <1>f, <2>2, EditedForm DEF SellerPrices, SellerToggles
  <2>4. QED
    BY <2>1, <2>3 DEF IInv, TypeOK, BlankUnposted
<1>7. ASSUME NEW o \in Offers, NEW to \in BOOLEAN, StartEdit(o, to) PROVE IInv'
  <2>1. edit' \in Edits /\ edit'.page = Unread /\ UNCHANGED << offers, loggedIn >>
    BY <1>7 DEF StartEdit, site, Edits
  <2>2. QED
    BY <1>f, <2>1, PagesDiffer DEF IInv, TypeOK, BlankUnposted
<1>8. QED
  BY <1>1, <1>2, <1>3, <1>4, <1>5, <1>6, <1>7, FetchReal, PostReal DEF Next, OwnStep, Answered
-----------------------------------------------------------------------------
(* bot.rs, client.rs: an edit never saves the empty fields of a page that  *)
(* had no form, however sessions end, requests fail and the program        *)
(* restarts: such a page is refused, and the edit begins with a new one.   *)
THEOREM NoBlankSaved == Spec => []BlankNeverSaved
<1>1. IInv => BlankNeverSaved
  BY ScheduleAssumption DEF IInv, TypeOK, RealForms, BlankNeverSaved, NoPrice
<1>2. IInv /\ [Next]_vars => IInv'
  BY NextReal
<1>3. QED
  BY <1>1, <1>2, InitReal, PTL DEF Spec
=============================================================================
