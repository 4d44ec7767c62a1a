------------------------------ MODULE Schedule ------------------------------
(***************************************************************************)
(* What GoldenPayBot::run does to the seller's offers in every cycle       *)
(* (src/src/bot.rs): the sleep schedule, then the transitions that         *)
(* OfferScheduler reports (src/src/scheduler.rs), each applied with        *)
(* edit_offer, which reads an offer's form and posts it back whole         *)
(* (src/src/client.rs, src/src/session.rs).  The clock, the seller's own   *)
(* edits, the end of the session, failures and restarts come in between.   *)
(***************************************************************************)
EXTENDS Integers, SequencesExt

CONSTANTS
  Day,        \* bound: hours of a day, 24 in the code
  Offers,
  NodeOf,     \* offer -> its category node
  Entries,    \* the scheduler's entries, in order
  Sleep,      \* the sleep schedule, or the empty set: at most one of
              \* [start, end, offers]
  MaxPrice,   \* bound: price changes per offer
  Faults      \* which of "net", "expire", "restart", "toggle" may happen

ASSUME ScheduleAssumption ==
  /\ Day \in Nat \ {0}
  /\ MaxPrice \in Nat
  /\ Faults \subseteq {"net", "expire", "restart", "toggle"}
  /\ \A i \in DOMAIN Entries : DOMAIN Entries[i] =
       {"name", "node", "activeOnly", "start", "end", "desired"}

Hours == 0..(Day - 1)
Names == {Entries[i].name : i \in DOMAIN Entries}

NoPrice == -1                                \* an empty field
Blank   == [active |-> FALSE, price |-> NoPrice]   \* a page without a form
Forms   == [active : BOOLEAN, price : 0..MaxPrice] \cup {Blank}
Unread  == << >>                             \* the page is still to be fetched
NoEdit  == << >>

VARIABLES
  hour,
  offers,      \* offer -> its form on the site
  loggedIn,    \* the site still accepts the manager's session
  sleeping,    \* currently_sleeping, an Option: {} or {b}
  known,       \* OfferScheduler.last_states: name -> {} or {b}
  stage,       \* which part of the cycle runs
  due,         \* transitions not yet applied
  work,        \* << offer, wanted >> of the edits still to be made
  edit,        \* the edit_offer that runs, or NoEdit
  disturbed    \* an edit was lost, or the seller toggled one (history)

site == << hour, offers, loggedIn >>
memory == << sleeping, known >>
vars == << site, memory, stage, due, work, edit, disturbed >>

Init ==
  /\ hour \in Hours
  /\ offers = [o \in Offers |-> [active |-> TRUE, price |-> 0]]
  /\ loggedIn = TRUE
  /\ sleeping = {} /\ known = [n \in Names |-> {}]
  /\ stage = "wait" /\ due = << >> /\ work = {} /\ edit = NoEdit
  /\ disturbed = FALSE
-----------------------------------------------------------------------------
(* ScheduleRule::is_active: from start up to end, over midnight if end is  *)
(* smaller, all day if they are equal.                                     *)
InWindow(start, end, h) ==
  \/ start = end
  \/ start < end /\ start <= h /\ h < end
  \/ start > end /\ (start <= h \/ h < end)

ShouldBe(entry, h) ==
  IF InWindow(entry.start, entry.end, h) THEN entry.desired ELSE ~entry.desired

(* The sleep schedule's window: never, if start and end are equal. *)
ShouldSleep(rule, h) == rule.start # rule.end /\ InWindow(rule.start, rule.end, h)

(* Mutant: the state is not remembered. *)
PollEntry_Forgets(acc, entry) ==
  LET should == ShouldBe(entry, hour) IN
  IF acc.known[entry.name] = {should} THEN acc
  ELSE [known |-> acc.known, due |-> Append(acc.due, << entry, should >>)]

(* OfferScheduler::poll, entry by entry. *)
PollEntry(acc, entry) ==
  LET should == ShouldBe(entry, hour) IN
  IF acc.known[entry.name] = {should} THEN acc
  ELSE [known |-> [acc.known EXCEPT ![entry.name] = {should}],
        due   |-> Append(acc.due, << entry, should >>)]

Polled == FoldLeft(PollEntry, [known |-> known, due |-> << >>], Entries)
-----------------------------------------------------------------------------
Tick == /\ hour' = (hour + 1) % Day
        /\ UNCHANGED << offers, loggedIn, memory, stage, due, work, edit, disturbed >>

(* The seller changes a price, or an offer's activity, on the site. *)
SellerPrices(o) ==
  /\ offers[o].price \in 0..(MaxPrice - 1)
  /\ offers' = [offers EXCEPT ![o].price = @ + 1]
  /\ UNCHANGED << hour, loggedIn, memory, stage, due, work, edit, disturbed >>

SellerToggles(o) ==
  /\ "toggle" \in Faults
  /\ offers' = [offers EXCEPT ![o].active = ~@]
  /\ disturbed' = TRUE
  /\ UNCHANGED << hour, loggedIn, memory, stage, due, work, edit >>

Expire ==
  /\ "expire" \in Faults /\ loggedIn
  /\ loggedIn' = FALSE
  /\ UNCHANGED << hour, offers, memory, stage, due, work, edit, disturbed >>

(* The program dies and starts again; only memory knew what was applied. *)
Restart ==
  /\ "restart" \in Faults
  /\ sleeping' = {} /\ known' = [n \in Names |-> {}]
  /\ stage' = "wait" /\ due' = << >> /\ work' = {} /\ edit' = NoEdit
  /\ loggedIn' = TRUE
  /\ UNCHANGED << hour, offers, disturbed >>
-----------------------------------------------------------------------------
(* The cycle has handed out its events.  The sleep schedule asks for a     *)
(* transition when its answer differs from the last one, and remembers the *)
(* answer whatever comes of the edits.                                     *)
StartSleep ==
  /\ stage = "wait"
  /\ stage' = "sleep"
  /\ LET turns == {rule \in Sleep : sleeping # {ShouldSleep(rule, hour)}} IN
     /\ sleeping' = UNION {{ShouldSleep(rule, hour)} : rule \in Sleep}
     /\ work' = UNION {rule.offers \X {~ShouldSleep(rule, hour)} : rule \in turns}
  /\ UNCHANGED << site, known, due, edit, disturbed >>

Idle == edit = NoEdit /\ work = {}

StartSchedule ==
  /\ stage = "sleep" /\ Idle
  /\ stage' = "schedule"
  /\ known' = Polled.known /\ due' = Polled.due
  /\ UNCHANGED << site, sleeping, work, edit, disturbed >>

(* Mutant: inactive offers are skipped whatever the group says. *)
Affected_ActiveOnly(entry, should) ==
  {o \in Offers : /\ NodeOf[o] = entry.node
                  /\ offers[o].active
                  /\ offers[o].active # should}

(* The offers of a node that a transition has to change. *)
Affected(entry, should) ==
  {o \in Offers : /\ NodeOf[o] = entry.node
                  /\ entry.activeOnly => offers[o].active
                  /\ offers[o].active # should}

(* fetch_my_offers, then one edit per offer.  The list cannot be had, or a *)
(* session the site has ended gets a page without offers, or is refused    *)
(* and reconnects.                                                         *)
StartTransition ==
  /\ stage = "schedule" /\ Idle /\ due # << >>
  /\ due' = Tail(due)
  /\ \/ /\ work' = Affected(Head(due)[1], Head(due)[2]) \X {Head(due)[2]}
        /\ loggedIn' = TRUE
        /\ UNCHANGED disturbed
     \/ /\ ~loggedIn \/ "net" \in Faults
        /\ disturbed' = TRUE
        /\ UNCHANGED << loggedIn, work >>
  /\ UNCHANGED << hour, offers, memory, stage, edit >>

EndCycle ==
  /\ stage = "schedule" /\ Idle /\ due = << >>
  /\ stage' = "wait"
  /\ UNCHANGED << site, memory, due, work, edit, disturbed >>
-----------------------------------------------------------------------------
(* edit_offer, through the manager. *)
StartEdit(o, to) ==
  /\ edit = NoEdit /\ << o, to >> \in work
  /\ work' = work \ {<< o, to >>}
  /\ edit' = [offer |-> o, to |-> to, again |-> FALSE, page |-> Unread]
  /\ UNCHANGED << site, memory, stage, due, disturbed >>

EditIs(page) == edit # NoEdit /\ (edit.page = Unread <=> page = "unread")

(* The edit fails for good; its error is only logged. *)
GiveUp == edit' = NoEdit /\ disturbed' = TRUE

(* reconnect_on_auth!: a refused edit starts over once, with a new session. *)
Refuse ==
  \/ /\ ~edit.again
     /\ loggedIn' = TRUE
     /\ edit' = [edit EXCEPT !.again = TRUE, !.page = Unread]
     /\ UNCHANGED disturbed
  \/ /\ edit.again \/ "net" \in Faults
     /\ GiveUp
     /\ UNCHANGED loggedIn

(* fetch_offer_details: the page of an ended session has no form. *)
FetchPage ==
  /\ EditIs("unread")
  /\ \/ /\ edit' = [edit EXCEPT !.page = IF loggedIn THEN offers[edit.offer] ELSE Blank]
        /\ UNCHANGED << loggedIn, disturbed >>
     \/ ~loggedIn /\ Refuse
     \/ "net" \in Faults /\ GiveUp /\ UNCHANGED loggedIn
  /\ UNCHANGED << hour, offers, memory, stage, due, work >>

(* The patch is merged into the page and the whole is posted. *)
Merged(page, to) == [page EXCEPT !.active = to]

Saved == offers' = [offers EXCEPT ![edit.offer] = Merged(edit.page, edit.to)]

(* Mutant: an ended session gets a new one and posts what it has. *)
PostPage_SameForm ==
  /\ EditIs("read")
  /\ Saved
  /\ loggedIn' = TRUE
  /\ edit' = NoEdit
  /\ UNCHANGED << hour, memory, stage, due, work, disturbed >>

PostPage ==
  /\ EditIs("read")
  /\ \/ /\ loggedIn
        /\ Saved
        /\ edit' = NoEdit
        /\ UNCHANGED << loggedIn, disturbed >>
     \/ ~loggedIn /\ Refuse /\ UNCHANGED offers
     \/ /\ "net" \in Faults
        /\ (loggedIn /\ Saved) \/ UNCHANGED offers
        /\ GiveUp
        /\ UNCHANGED loggedIn
  /\ UNCHANGED << hour, memory, stage, due, work >>

(* What the bot does on its own, and with the site's answer to a request. *)
OwnStep == \/ StartSleep \/ StartSchedule \/ EndCycle
           \/ \E o \in Offers, to \in BOOLEAN : StartEdit(o, to)

Answered == StartTransition \/ FetchPage \/ PostPage

Next == \/ Tick \/ Expire \/ Restart \/ OwnStep \/ Answered
        \/ \E o \in Offers : SellerPrices(o) \/ SellerToggles(o)

(* run loops for ever.  Nothing makes the site answer: the HTTP client has *)
(* no timeout.                                                             *)
Spec == Init /\ [][Next]_vars /\ WF_vars(OwnStep)
-----------------------------------------------------------------------------
(* No offer is ever saved with the empty fields of a page that had no      *)
(* form: the session that gets such a page is refused when it posts, and   *)
(* the edit starts over with a page of the new session.                    *)
BlankNeverSaved == \A o \in Offers : offers[o].price # NoPrice

(* What the schedules want of an offer at an hour. *)
Wanted(o, h) ==
  {~ShouldSleep(rule, h) : rule \in {r \in Sleep : o \in r.offers}}
    \cup {ShouldBe(Entries[i], h) : i \in {j \in DOMAIN Entries : Entries[j].node = NodeOf[o]}}

Follows(o, h) == \A b \in BOOLEAN : Wanted(o, h) = {b} => offers[o].active = b

(* An active_only group never activates anything. *)
Switchable(o, h) ==
  Wanted(o, h) = {TRUE} =>
    \A i \in DOMAIN Entries : Entries[i].node = NodeOf[o] => ~Entries[i].activeOnly

(* The hour lasts, the program runs, and every request has an end. *)
Lasts(h) == WF_vars(Answered) /\ <>[](hour = h) /\ <>[][~Restart]_vars

(* When the clock stays in an hour and no edit was lost, every offer of    *)
(* which one thing is wanted ends up that way, also after restarts and     *)
(* ended sessions, unless only an active_only group could activate it.     *)
FollowsSchedule ==
  \A h \in Hours : Lasts(h) /\ <>[]~disturbed =>
    <>[](\A o \in Offers : Switchable(o, h) => Follows(o, h))

(* scheduler.rs:1: "activate/deactivate offers on a recurring schedule";   *)
(* bot.rs:112: "activate/deactivate specified offers during configured     *)
(* hours": in an hour that lasts, every offer ends up as wanted.           *)
HoursKept ==
  \A h \in Hours : Lasts(h) => <>[](\A o \in Offers : Follows(o, h))

Quiet == \A h \in Hours : Lasts(h) => <>[](due = << >> /\ work = {})

NamesDiffer == \A i, j \in DOMAIN Entries : Entries[i].name = Entries[j].name => i = j

(* "Returns entries whose desired state differs from the last known state" *)
(* (scheduler.rs:190): while an hour lasts the bot comes to rest, also     *)
(* when edits fail and when the seller changes offers by hand, if every    *)
(* entry has a name of its own.                                            *)
QuietWhenStable == NamesDiffer => Quiet

(* scheduler.rs:139: a name is "for logging"; entries of one name come to  *)
(* rest as well.                                                           *)
QuietWhateverNamed == Quiet
=============================================================================
