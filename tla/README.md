# TLA+ models and proofs for goldenpay

goldenpay is a Rust library for sellers on a digital goods market: a client for
the market's web site, a bot that turns new orders and messages into events,
automatic delivery of goods, scheduled offers, and a webhook receiver. This
directory holds TLA+ modules that model its stateful parts, TLC configurations
that check them on small instances, and TLAPS proofs of every safety property
those find to hold. Further configurations show where the code does otherwise
than its comments say. `PROJECT.json` lists the components, the runs, a mutant for
each checked property, the source lines behind each definition, the hazards
and the theorems.

    tlc -workers 2 -config DeliveryJson.cfg MCDelivery.tla
    tlapm DeliveryProofs.tla

Source references below are to `src/src/*.rs`.

## 1. The system

| Part | State it keeps | Operations | Talks to | What is hard |
|---|---|---|---|---|
| Automatic delivery, `DeliveryService` (automation.rs:258-452) | inventories: product key -> items; a shared store | `add_product`, `deliver_order`, `process_paid_order` | a `DeliveryStore`, a `DeliveryMessenger` (the session) | several services on one store; every await may fail, or be the last one |
| Delivery stores (automation.rs:454-645) | order id -> record, pending or delivered; memory or a JSON file | `contains_order`, `claim_pending`, `commit_delivered`, `release_pending` | the file system | lost races, failed file calls, dropped futures, crashes |
| Bot loop, `GoldenPayBot` and `EventStream` (bot.rs, event.rs) | seen orders; last seen message per chat | `load_state`, `bootstrap`, `poll_once`, `save_state`, `run` | session manager, `StateStore`, the application's handler | concurrent chat fetches joined in any order; failed saves; handler errors; shutdown at any await |
| Bot state stores (storage.rs) | the saved `BotState`: memory, JSON file, SQLite | `load`, `save` | the file system | crash between the write and the rename; a dropped save |
| Offer scheduler and sleep schedule (scheduler.rs, bot.rs:341-402) | last state per entry name; `currently_sleeping` | `poll`, and the edits `run` makes from it | session manager, the clock | the clock moves while edits run; transitions are remembered although their edits failed |
| Offer edits (client.rs:340-434, 674-747, 906-995, models.rs:221-267, offer.rs) | none; the forms on the site | `edit_offer`, `create_offer`, `delete_offer`, `undercut_price`, `deactivate_all_offers`, `delete_all_offers` | the site, the page parser | read-modify-write over the network, with a session that may have ended; sequences of edits over a list read once |
| Order reads (client.rs:243-298, models.rs:358-464) | none; the orders on the site | `fetch_orders`, `fetch_order_page`, filters, statistics | the site, the page parser | two pages, read at different times by different rules |
| Session manager (session.rs) | client with its key; current session | about thirty delegating calls, two batches, `rotate_key`, `reconnect` | client | repeats a call after a refusal; batches whose parts fail differently |
| Client: transport, retry, limiter (client.rs, utils.rs, config.rs) | per session a semaphore | `connect`, `request_with_retry`, batches | the site | retries after lost answers; permits held through sleeps; task order |
| Webhook server (webhook.rs) | one task per connection | accept, read request, verify, parse, call the handler, answer | the sender, the handler | requests in pieces; connections that end early; senders that try again after a lost answer |
| Page parser (parser.rs) | none | HTML and JSON to models | all that read pages | an ended session's page; missing controls; nested lists |
| Models, URLs, offer builder, errors (models.rs, urls.rs, offer.rs, error.rs) | none | constructors, filters | - | - |
| Signatures and secrets (crypto.rs, security.rs) | none | HMAC, hex, comparison, redaction | webhook server | texts that are no hexadecimal |
| Examples and tests (examples/, tests/) | - | - | - | how programs use the library |

How they interact. A program connects a client, wraps the session in a
`SessionManager` and gives that to a `GoldenPayBot`. The bot polls: it fetches
the trade page, spawns one chat fetch per order, saves its marks, and awaits the
application's handler for each event; in between it applies the sleep schedule
and the scheduler's transitions with `edit_offer`. A handler typically calls
`DeliveryService::process_paid_order`, which reserves items, claims the order in
the store, sends the message, and commits or releases the claim. All requests
pass one retry loop and one semaphore per session.

What makes each part correct:

* Delivery: no item goes to two buyers, a buyer gets the ordered quantity; as
  long as the store keeps what it was told, an order is served at most once, a
  claim has one owner and records are true; nothing stays claimed when nothing
  fails, and items get lost only where the code accepts it.
* JSON store: as long as no operation overtakes a dropped one's file call, an
  operation is atomic, a file is never half of one, answers are true of what the
  operation found, a failed call changes nothing; and every call ends.
* Bot: as long as the store keeps what it was told, nothing is handed out before
  it is saved, nothing twice, nothing from the past, messages in order; and
  without faults everything reaches the handler.
* Scheduler: the offers end up as the schedules want them unless edits were
  lost, and the bot comes to rest.
* Offer edits: of the fields an `OfferEdit` has a place for, an edit changes those
  its patch names, an ended session's empty form is never saved, an undercut price is below the
  competitors' and not below the floor, and a bulk call that returns Ok has done
  what the site let it do.
* Order reads: no list is cut short by an ended session, the list and the page of
  an order agree, and statistics of parts add up to the whole.
* Category tree: every category is told, below the category it is nested in, and
  no list tells one twice.
* Webhook: the handler gets only whole, signed requests, again only when the
  sender could not know of the first time, and every task ends.
* Session: permits come back, a request is repeated only when its answer was
  lost, each part of a batch has an outcome, a refusal is reported only after a
  new session, or its connection, was refused too, and every call returns if the
  site answers it: the HTTP client has no timeout (client.rs:60).

## 2. Modules

| Module | Models | Proved | Checked by |
|---|---|---|---|
| `DeliveryStore` | the store trait, atomic operations | | through `Delivery` |
| `Delivery` (EXTENDS `DeliveryStore`) | services on a shared store | `DeliveryProofs` | `delivery_*` |
| `SaleLedger` | abstract: what delivery promises | `DeliveryProofs` | refinement in `delivery_json` |
| `JsonFile` | the JSON store down to its file calls | `JsonFileProofs` | `json_faults` |
| `AtomicStore` | abstract: a map with atomic operations | `JsonFileProofs` | refinement in `json_faults` |
| `Bot` | bot loop, event stream, state store | `BotProofs` | `bot_*` |
| `Session` | manager, session, retry, limiter, site | `SessionProofs` | `session_*` |
| `Schedule` | scheduler, sleep schedule, their edits, site | `ScheduleProofs` | `schedule_faults` |
| `OfferForms` | form, patch, payload, rows of offers: pure | `OfferProofs` | through `Offers` |
| `Offers` (EXTENDS `OfferForms`) | every call that changes offers | `OfferProofs` | `offers_*` |
| `DocumentOrder` | the order of what selectors and filters yield: pure | `ReadProofs` | through `Orders`, `CategoryTree` |
| `Orders` (EXTENDS `DocumentOrder`) | list, page, filters, statistics | `ReadProofs` | `reads` |
| `CategoryTree` (EXTENDS `DocumentOrder`) | the parser of the home page | `ReadProofs` | `reads` |
| `Signature` | hexadecimal and acceptance of a signature: pure | `WebhookProofs` | through `Webhook` |
| `Webhook` (EXTENDS `Signature`) | server, connections, senders | `WebhookProofs` | `webhook_faults` |
| `MC*` | constants for TLC; `MCReads` runs `Orders` and `CategoryTree` by turns | | |

Mutated forms of definitions stand in the modules just before the definition
they change, named `<Definition>_<WhatIsWrong>`; no specification uses them.

A word used throughout: a store has *lapsed* when it no longer keeps what it was
told. There are three ways. The memory stores forget with the process
(storage.rs:18). A JSON store asks `path.exists()`, which is false on every error,
and then takes its file for missing (automation.rs:559, storage.rs:64); a save
after that writes the file without what was in it. And a dropped operation frees
the JSON store's mutex while its `fs::write` or `fs::rename` still runs
(automation.rs:584-585, 600; storage.rs:93-94), so that a stale map can take the
place of one that another operation has answered `Ok` for. `Delivery` and `Bot`
model all three in their stores, and `JsonFile` the last two down to the file
calls. Properties that need the store say `~lapsed =>`; those that do not, like
`NoItemSoldTwice` and `ExactQuantity`, hold afterwards as well.

### Delivery and DeliveryStore

A service is `&mut self`, so it runs one call at a time: `pc[s]` is the await its
call has reached, and `order`, `product`, `reserved` are the call's locals. One
action per segment between awaits:

| Action | Code |
|---|---|
| `AddProduct` | `add_product`: *replaces* what was left of the product |
| `Call` | entry of either call; `process_paid_order` refuses an unpaid snapshot |
| `CheckOrder` | `contains_order`; a JSON store that cannot be read says "no" |
| `Reserve` | `match_order` and `deliver`: any matching product (HashMap order), items drained from the front |
| `ClaimPending` | `claim_pending`; an error returns with the reserved items in hand, which are lost |
| `SendDelivery` | accepted; rejected, and `release_reserved` puts the items back (`SendRejected`); or an error, the buyer having the message or not |
| `ReleasePending`, `CommitDelivered` | the last store call |
| `DropCall` | the future is dropped; a store call under way may leave its file call running (`late`) |
| `LateWrite` | such a file call ends, and its map is in the file or not |
| `Crash` | the process dies and only a JSON file survives |

A store operation loads the records or, when the file cannot be looked at, none
(`Found`), and saves what it makes of them (`Save`) unless it fails
(`StoreFault`). While a dropped operation's file call is `late`, a save may find
that operation's map in its temporary file and rename it into place. A send is
`request_with_retry`: an attempt whose answer was lost is followed by another, so
that a message that is rejected in the end may have reached the buyer before
(`Stray`; `astray` keeps such items).

`records` is the store's map. `sold` and `deliveries` are history: what buyers
have received in messages that were not reported as rejected. For
`deliver_order`, which sends nothing, a delivery is the caller's getting the
items, once the commit has succeeded. `Faults` selects store errors (`io`), files
that cannot be looked at (`stat`), messenger errors (`send`), drops and crashes.
Bound: with `CallsLapsed` FALSE no call begins once the store has lapsed; those
under way go on.

`SaleLedger` says what a buyer and a seller may rely on: until the store lapses an
order is served at most once, always from available items; items sold or lost
never come back. It promises nothing of items that went astray. `Delivery`
implements it with `available <- Unsold` (not yet registered, in an inventory, or
held by a call and not sent).

### JsonFile

Below the atomic store operation: `Acquire` takes the handle's mutex, `Load`
reads and computes (`Loaded`, from an empty map when the file was taken for
missing, which `missed` notes; `LoadFails`), `OpenTmp` and `FillTmp` are the two halves of `fs::write` on
the temporary file, `RenameTmp` the rename. A file is a sequence of blocks, each
labelled with the map it is part of: a text is readable when all its blocks, and
no others, are of one map. `fd` follows an open file through renames. tokio runs
file calls on threads, so dropping a future frees the mutex but not the call:
`dropped` marks such a call. `storage.rs` writes its file with the same write
and rename (`write_atomic_json`). `AtomicStore` is a map with atomic operations,
each of which may take the map for empty (`Forgetful`). Bound: once operations
have overlapped, no new one begins. Out of the model: loss of power (there is no fsync).

### Bot

`Start` is `load_state` with or without `bootstrap`, from what the store answers
(`Loaded`); `Poll` the beginning of
`poll_once`; `FetchChat` the spawned fetches, each with the chat as it is at that
time; `Join` the `join_next` loop, in any order; `Save` the `save_state` that
ends both; `HandleOrder` and `HandleMessage` the `run` loop's handler calls;
`Drop` a shutdown or a dropped call at any await, which may leave the file call of
a save running (`late`, `LateWrite`); `Stop` the end of the process, with which
the memory store forgets. `StoreKind` is the store: memory, which is what a bot
without `state_path` has (bot.rs:43-46), JSON, or SQLite, whose save is one
synchronous transaction inside the future, so that nothing of it is left over.
Bound: once the store has lapsed, nothing begins after `MaxLapsed` handings of one
order or chat. A message id is its index in the
chat. The trade page of the model keeps all orders; pages that drop old orders
are not modelled. A chat's mark only grows in `JoinEmit` and is overwritten in
`JoinMark`, as in the code.

### Session

`StartCall` begins a delegating call, a batch of the manager, or a batch of the
session itself (which never reconnects); `Acquire`, `Attempt`, `Wake` are
`request_with_retry`, one permit for all attempts of a request; `SingleDone` is
`reconnect_on_auth!`; `Join` and `BatchDone` the batches; `Reconnected` the end of
`reconnect` or `rotate_key`, which passes on whatever `connect` ended with, its
`Unauthorized` too (session.rs:20, 66; client.rs:879-881). A post is done at most once per attempt and its
answer may be lost (`lost` counts that). `rotate_key` stores the new key before
it connects, and so the model keeps a bad key in the client when the connect
fails; the old session then works on. A site refuses with 401 or 403
(`Statuses`); only 403 is an authorisation error to the client (client.rs:879),
401 an ordinary one that reaches the caller (`Status401`).

### Schedule

`StartSleep`, `StartSchedule`, `StartTransition`, `EndCycle` are the parts of a
cycle of `run`; `StartEdit`, `FetchPage`, `PostPage` the parts of `edit_offer`;
`PollEntry` folded over the entries is `OfferScheduler::poll`. An ended session
either gets a page without a form, which the parser turns into empty fields, or
a refusal. A reconnect is one step with its refusal. The seller's price edits and toggles come
between any two steps. An offer here is a price and a flag; what an edit does to
the fields of a form is the subject of `Offers`.

### OfferForms and Offers

`OfferForms` is the data path of an edit, as operators: `ParseOfferDetails` finds a
field by the control it is shown as, `Merge` puts the patch over it,
`BuildOfferPayload` fills in what is missing (empty texts, an active offer) and
makes the keys and values that are posted: `deactivate_after_sale` is read from one
control and posted under another key when it is on (`AfterKey`). The real form's fifteen text fields fall into three classes by how they are read
(input; textarea; input, else select), and `price`, `desc` and `type` stand for
them; both flags are there, as their defaults differ. `Target` is
the arithmetic of `undercut_price` on whole numbers; the code's is on `f64`, whose
rounding is not modelled.

A form on the site also has the fields of its category (`Custom`), as
`fields[server]` in tests/fixtures/offer_edit.html. The parser reads them, but
`OfferEdit` has no place for them and `build_offer_payload` posts none
(client.rs:906-946). What a site does with a form it gets is external: here it
takes what is posted as the whole form, and both spellings of
`deactivate_after_sale` as the one field (`Taken`).

In `Offers` a caller is a client with a session of its own, directly or through a
`SessionManager`; `call[k].at` is the request its call has reached: `market`
(`ReadMarket`), `list` (`ReadList`), `fetch` (`ReadPage`), `post` (`Post`).
`Refuses`, which any of them may meet, is `reconnect_on_auth!` around the one request, or around the whole of
`undercut_price`; a bulk call of the manager repeats the list or the one edit.
`Post` covers a refusal, an error in the JSON, a save, and a save whose answer is
lost, after which the request is made again. The seller, the competitors and
other callers change the site between any two requests. `since` is history: what
has changed since a call read its pages.

### Orders

The site's orders go from paid to closed or refunded while `FetchOrders` and
`FetchOrderPage` read them. The two parsers have rules of their own: a row is
coloured by status, a page contains a class name somewhere (`Marked` pages contain
one in another text as well); a row's amount comes from its description, a page's
from a labelled value, where labels are compared in lower case but only of ASCII
letters. An `i32` is `0..MaxInt`, and what does not fit is not parsed. A result
is the set of its value, empty for an error. What a filter keeps of a list is
`Selection`, the list at the positions that match, in order.

### CategoryTree

The home page is built node by node in document order, every page of up to
`MaxNodes` nodes that the layouts allow, and `ParseCategoryTree` is computed for
each: `ParseChildren` is the recursive `parse_children` as a recursive function, with
a selector as a set of descendants, taken in document order (`InOrder`).
`TreeKeepsAncestry` says exactly what stands at the top level: of the current
layout the titles of its entries; of the older one every link of the container,
nested ones too, which are told below their category as well.

### Signature and Webhook

`Signature` is on character codes and bytes as in the code; the digest is the
parameter `Digest` (HMAC-SHA256 is a library's). In `Webhook`, a request is a line,
header lines, an empty line and a body of blocks, and arrives piece by piece
(`Send`); a sender may `Close` at any time, and connects again as long as it has
seen no 200. `ReadLine`, `ReadHeader`, `ReadBody`, `HandlerActs`, `HandlerReturns` and
`Reply` are the segments of `handle_request`; a body is JSON when it is all of one
note. `run` returns at the first failed `accept`, the tasks live on, and a
program may call it again (`Run`); `Crash` ends all tasks. At the end of the stream
within the headers, `read_line` yields empty lines for ever: in the model that
task makes no step, and `TasksEnd` names it as its exception.

## 3. Runs

| Run | Instance | Shows |
|---|---|---|
| `delivery_json` | 2 services, 2 orders (amounts 1 and 2), 1 product, 3 items in 2 batches, JSON store, all five faults, no call begins once the store has lapsed; 1 007 199 states, services up to symmetry | `AtMostOnce`, `NoItemSoldTwice`, `ExactQuantity`, `ClaimIsExclusive`, `RecordsTellTheTruth`, `DeliveredIsFinal`, and `ImplementsLedger` |
| `delivery_memory` | 2 services, 3 orders, 2 products, memory store, no faults; 63 496 states | `EverythingSettles`, `LossOnlyByLostRace` |
| `json_faults` | 2 tasks, 1 handle, 2 orders, failing and half-done file calls, a file that cannot be looked at, drops, crashes; 288 019 states | `FileIsWhole`, `ImplementsAtomicStore`, `AnswersAreTrue`, `CallsReturn` |
| `bot_faults` | 2 orders of one chat, 2 messages, default options and a welcome message, JSON store, all six faults, nothing begins once the store has lapsed; 123 551 states | `SavedBeforeHanded`, `OrderHandedOnce`, `MessagesHandedInOrder`, `PastIsNotEmitted`, `EverythingHanded`, `SeenIsThere` |
| `bot_duplicate` | `emit_messages_for_new_orders` off, no faults | **violated**: `MessagesHandedInOrder` |
| `session_faults` | 2 posts, limiter of 1, 2 attempts, 4 lost or failed answers, 3 sessions, 401 and 403, a good and a bad key; 163 260 states | `PermitsAccounted`, `RepeatedOnlyWhenLost`, `EveryPostAnswered`, `RefusedOnlyTwice`, `CallsReturn` |
| `session_order` | 2 posts | **violated**: `ResultsInOrder` |
| `schedule_faults` | a day of 3 hours, 3 offers in 3 nodes, 3 entries, a sleep schedule, ended sessions, failed requests, restarts, the seller's edits; 154 656 states | `BlankNeverSaved`, `FollowsSchedule`, `QuietWhenStable` |
| `offers_faults` | a managed caller with every call but `edit`, a plain one with `edit`, an active and an inactive offer and room for a third, a form with a field of its category, 2 competitors (one promoted), an unreadable price, 1 change by seller or competitors; refused, lost and failed requests, ended sessions, failed reconnects; 503 123 states | `UnnamedFieldsKept`, `UndercutIsRight`, `BulkIsDone` |
| `offers_silent` | 1 offer, a site that refuses | **violated**: `DeactivatesAll` |
| `reads` | 3 orders, 4 filters, `MaxInt` 4; home pages of up to 7 nodes; 52 200 states | `ListIsComplete`, `ReadsAgree`, `StatisticsAddUp`, `TreeKeepsAncestry` |
| `webhook_faults` | 2 connections, 2 notes, 8 requests (two lengths, a wrong method and path, a misspelt header, no hexadecimal, a length too small with either signature, a body too large), all faults; 575 737 states | `OnlyGenuineHandled`, `HandledAgainOnlyUnanswered`, `TasksEnd` |

`TypeOK` of `Delivery`, `Bot` and `Webhook` is checked in their fault runs.

Why these bounds are enough to be interesting. Two services already give every
race on a store, since a claim has one winner; two orders and three items make a
service run out, restock, and hold items of a lost claim; an item supplied only
once makes a second sale visible. Two orders of one buyer share a chat, which is
the only way two fetches of a cycle meet; two messages suffice for a repeated or
swapped one. A limiter of one under two posts makes a request wait;
two attempts and four faults exhaust the retries of two requests; three sessions
hold an end of the first, a reconnect that fails or not, and the end of the second
while the call goes through its second round. Three hours hold windows that cross midnight
and that do not, next to and across each other. Two tasks on one file are what one temporary name
can mix up. Two callers make one's edit come between the other's read and post;
an active and an inactive offer make a bulk call choose, and the third id is
where a created one goes; the cheapest competitor is the promoted one, and
others can sink below the floor. Seven nodes hold an entry with two nested lists,
or both layouts at once. A second connection is what a retry is made on. One
order has an unreadable buyer, one an amount that is too large, one a
capitalised Cyrillic label.

Bounds, all of them: `Batches` (each registered once), `MaxMessages`,
`MaxSessions`, `MaxFaults`, `Day`, `MaxPrice`, `MaxEdits`, `MaxCalls`, `MaxInt`,
`MaxNodes`, `MaxBody`, `ConnCount`, `CallsLapsed` and `MaxLapsed` (what begins once a
store has lapsed), and in `JsonFile` no new call after an overlap. The proofs
are for every value of these constants, so also of bots and services that go on
with a store that has lapsed; only the bound of `JsonFile` is part of the model.

Deadlock is off everywhere but in the violation runs that do not need it: the
environments really stop (all posts given away, all messages written), and the
liveness properties say what must not hang.

### Fairness

The HTTP client is built without a timeout (client.rs:60) and the configuration
has none, so nothing makes a site answer: a connection that stays open and
silent stops its request for ever. No specification assumes otherwise. What
waits for the site is outside the fairness of the program, and a liveness
property that needs answers has them as its premise.

* `Delivery`: `WF_vars(Advance(s) /\ pc[s] # "send")` for every service: the runtime
  polls a started call until it is done, and store calls end. `EverythingSettles`
  has the end of every send as its premise. Nothing is assumed of new calls, the
  seller, drops or crashes.
* `JsonFile`: `WF_vars(Advance(t))`, since file calls end; `SF_vars(Acquire(t))`, since
  tokio's `Mutex` is fair (first in, first out): a waiting task is not passed
  over for ever although the lock is taken between its chances.
* `Bot`, `Session`, `Schedule`: `WF_vars(OwnStep)`, where `OwnStep` is what the program
  does without the site. `EverythingHanded`, `FollowsSchedule`, `QuietWhenStable`
  (both through `Lasts`) and `CallsReturn` have as their premise that every request
  under way has an end, an answer or a broken connection: `WF_vars(Answered)`, or
  `WF_vars(Attempt(r))` for every request. In `Bot` that includes the application's
  handler, which may ask the site too. Buyers, sellers, the site ending a session,
  the clock, faults and starts are never forced.
* `Webhook`: `WF_vars(Serve(c))` for every connection: a spawned task that can go on
  is polled, and the application's handler returns. Senders need not send, close
  or read, `run` need not be called again.
* `Offers`, `Orders`, `CategoryTree`: none; their properties are safety.

### What the code does otherwise than its comments say

Three runs expect a violation, each of a sentence in the source:

1. `EventStream` "Tracks already-seen orders and messages to avoid duplicate
   events" (event.rs:48); with `emit_messages_for_new_orders` off, marking a new
   order's chat can move the mark of a shared chat backward.
2. `send_messages` and `fetch_orders_batch` return results "in the same order as
   the input" (client.rs:170, 193); they return them in the order tasks end.
3. `deactivate_all_offers` "Deactivates all active offers for the specified node"
   (client.rs:724); it drops the answers of its edits and returns Ok although
   the site has refused one in its JSON. `BulkIsDone` states what Ok does mean.

Eleven more configurations stand beside the runs. Each checks one sentence of the
source on a small instance, is refuted by TLC in seconds, and the trace is the
counterexample:

| Configuration, module | Sentence, property | Counterexample |
|---|---|---|
| `DeliveryDropped.cfg`, `MCDelivery` | a store is for "preventing duplicates" (automation.rs:473): `NoDuplicates` | a dropped operation's rename comes after another operation's Ok, takes a delivered record away, and the order is served twice |
| `DeliveryResent.cfg`, `MCDelivery` | `release_reserved` returns items "after a failed send" (automation.rs:363): `RestoredIsUnsold` | the first attempt arrives, its answer is lost, the second is rejected: items the buyer has are for sale |
| `DeliveryAnswer.cfg`, `MCDelivery` | `AlreadyDelivered`: "This order was already delivered" (automation.rs:227): `AlreadyDeliveredIsTrue` | nothing releases the claim of a call that crashed, was dropped, or whose send failed; the order, delivered to nobody, answers so for ever |
| `JsonFileMissing.cfg`, `MCJsonFile` | `claim_pending` "fails if already recorded" (automation.rs:478): `ClaimFailsIfRecorded` | the file cannot be looked at and counts as missing: the claim is Ok, and its save removes all other records |
| `BotMissing.cfg`, `MCBot` | `load_state` "Loads previously persisted state" (bot.rs:173): `HandedIsKnown` | the same of the state file: a bot that has loaded its state does not know what its handler got |
| `SessionStatus.cfg`, `MCSession` | "reconnection when the session expires (HTTP 401/403)" (session.rs:28): `EitherStatusReconnects` | a 401 is no authorisation error to the client and reaches the caller at once |
| `ScheduleExample.cfg`, `MCSchedule` | "activate/deactivate offers on a recurring schedule" (scheduler.rs:1): `HoursKept` | the example of that comment: an `active_only` group skips inactive offers on activation too (bot.rs:387) and never wakes what it put to sleep |
| `ScheduleLost.cfg`, `MCSchedule` | offers are switched "during configured hours" (bot.rs:112): `HoursKept` | an edit fails, `currently_sleeping` is set all the same (bot.rs:365-370), and the offer stays active through all of those hours |
| `ScheduleNames.cfg`, `MCSchedule` | an entry's name is "for logging" (scheduler.rs:139): `QuietWhateverNamed` | two entries of one name overwrite each other's last state and report transitions for ever |
| `OffersCustom.cfg`, `MCOffers` | `edit_offer` applies a patch "on top of current remote values" (client.rs:374): `CustomFieldsKept` | a field of the category is read, not posted, and lost where a posted form is the whole form |
| `ReadsTree.cfg`, `MCReads` | "Returns top-level categories" (parser.rs:817): `OnlyTopLevelOnTop` | of the older layout a nested category is told at the top level as well |

What the checked properties say of the same code is what does hold: until a store
has lapsed (`AtMostOnce`, `OrderHandedOnce` and others), of the fields a patch can
name (`UnnamedFieldsKept`), of entries of different names and edits that were not
lost (`QuietWhenStable`, `FollowsSchedule`), of what the client takes for a refusal
(`RefusedOnlyTwice`).

The models show others, which are no property's counterexample. Where a checked
property excuses one, the excuse is in its definition and comment:

* `bootstrap` "Pre-populates seen orders and messages so that past events are not
  re-emitted" (bot.rs:192); it skips a chat it cannot fetch and succeeds.
  `PastIsNotEmitted` speaks of what a bootstrap has read.
* Both JSON stores have "atomic writes" (automation.rs:543, storage.rs:44); a
  dropped operation's write still runs when the next one uses the same temporary
  name, and can leave an empty or mixed file under the store's name.
  `FileIsWhole` excuses what follows such an overlap, and so do two handles of one
  path.
* `undercut_price` counts a competitor whose price cannot be read as selling for
  0 (parser.rs:437) and goes down to the floor.
* The last resort of `parse_category_tree` says "scan whole document"
  (parser.rs:956) and reads the container that has just yielded nothing.
* `fetch_my_offers` of an ended session whose page is served is an empty list
  (client.rs:343), so that a bulk call of it returns Ok with nothing done;
  `BulkIsDone` excuses it (`blind`).

## 4. Proofs

Eight modules (11 757 obligations) prove, for all values of the constants, so for any
number of services, callers, tasks and connections, all orders, offers, forms,
digests and requests, and all faults unless the table says otherwise:

| Module | Theorem | Says |
|---|---|---|
| `DeliveryProofs` | `TypeCorrect` | `Spec => []TypeOK` |
| | `ExclusiveClaims` | `Spec => []ClaimIsExclusive` |
| | `ServedAtMostOnce` | `Spec => []AtMostOnce` |
| | `DeliveredStays` | `Spec => DeliveredIsFinal` (action property) |
| | `NothingSoldTwice` | `Spec => []NoItemSoldTwice` |
| | `QuantityIsExact` | `Spec => []ExactQuantity` |
| | `RecordsAreTrue` | `Spec => []RecordsTellTheTruth` |
| | `LedgerImplemented` | `Spec => ImplementsLedger` |
| | `LossIsALostRace` | `Spec => LossOnlyByLostRace` (action property), without faults |
| `SessionProofs` | `PermitsAreAccounted` | `Spec => []PermitsAccounted` |
| | `RepeatedIsLost` | `Spec => []RepeatedOnlyWhenLost` |
| | `AnswersAreComplete` | `Spec => []EveryPostAnswered` |
| | `OnlyTwiceRefused` | `Spec => []RefusedOnlyTwice` |
| `BotProofs` | `TypeCorrect` | `Spec => []TypeOK` |
| | `OrdersOnceOnly` | `Spec => []OrderHandedOnce` |
| | `PastIsKept` | `Spec => PastIsNotEmitted` (action property) |
| | `MessagesInOrder` | `Spec => []MessagesHandedInOrder`, with `emit_messages_for_new_orders` |
| | `SavedFirst` | `Spec => []SavedBeforeHanded`, with `emit_messages_for_new_orders` |
| | `SeenHasAppeared` | `Spec => []SeenIsThere` |
| | `StoreKeeps` | `Spec => [](~lapsed /\ late = {})` of SQLite; of JSON without `stat` and `drop`; of memory without `stop` |
| `JsonFileProofs` | `WholeAlways` | `Spec => []FileIsWhole` |
| | `AtomicStoreImplemented` | `Spec => ImplementsAtomicStore` |
| | `AnswersTellTheFile` | `Spec => AnswersAreTrue` (action property) |
| `ScheduleProofs` | `NoBlankSaved` | `Spec => []BlankNeverSaved` |
| `OfferProofs` | `PagesAreTrue` | `Spec => []FormInv`, the inductive invariant of the edits |
| | `EditsArePatches` | `Spec => UnnamedFieldsKept` (action property) |
| | `BulkCallsAreDone` | `Spec => []BulkIsDone` |
| | `UndercutsTheMarket` | `Spec => UndercutIsRight` (action property) |
| `WebhookProofs` | `SignatureIsExact` | `Accepts(d, HexEncode(e)) <=> d = e`, as its two halves |
| | `TypeCorrect` | `Spec => []TypeOK` |
| | `HandledIsGenuine` | `Spec => []OnlyGenuineHandled` |
| | `HandledOnceMore` | `Spec => []HandledAgainOnlyUnanswered` |
| `ReadProofs` | `ListsAreComplete` | `Spec => []ListIsComplete` |
| | `ListAndPageAgree` | `Spec => []ReadsAgree` |
| | `PartsMakeTheWhole` | `Spec => []StatisticsAddUp` |
| | `TreeIsTold` | `TreeSpec => []TreeKeepsAncestry` |

### Assumptions

Those the modules declare, which TLC evaluates in the runs:

* `Delivery`: `StoreKindAssumption`, `BatchesAssumption`, `OrdersAssumption`,
  `FaultsAssumption`. `LossIsALostRace` adds `Faults = {}`: after a store error or a
  drop the items in hand are gone.
* `Session`: `SessionAssumption`, with finitely many `Posts` (a batch is a `Vec`), so
  that running requests can be counted.
* `Bot`: `BotAssumption`. Two theorems add `Set("emit_for_new")`, the option
  `emit_messages_for_new_orders`, which is on by default; `bot_duplicate` shows what
  happens without. `StoreKeeps` has the three kinds of store as its cases.
* `Offers`: `OffersAssumption`: of what shape forms and patches are, that the fields
  of a category have other names than those `OfferEdit` knows, under which control the site shows a field, which patches the two bulk calls use
  (client.rs:730, 742), and that a price is a whole number or unreadable.
* `Webhook`: `WebhookAssumption`: a sender's body is its note, whole, and no digest is
  empty.
* `JsonFile` and `Schedule`: `JsonFileAssumption`, `ScheduleAssumption`.
* `Orders`: `OrdersAssumption`: of what shape orders, labels and filters are. That only
  finitely many orders are placed is proved, not assumed.
* `CategoryTree`: `TreeAssumption`: a page has at least its body. `MaxNodes` is any number,
  so that the theorem is about pages of every size.

### Delivery

`ClaimIsExclusive` is inductive together with `TypeOK`: a step of
one service leaves the locals of the others alone (`StepIsLocal`) and every
operation on the store changes one order's record (`EffectsAreLocal`);
`KeepsExclusive` combines the two into the one condition each action has to
meet, namely that it writes a record only under its own claim or when there is none.
`DeliveredStays` follows from it directly: whoever writes a record finds it absent
or pending. `AtMostOnce` alone is not inductive: nothing in `deliveries[o] <= 1`
stops a claimed order from being sent again. `IndSaleInv` adds what does: an
absent record means no delivery, a delivered one means one, and an order with an
owner has had one exactly if its message has been accepted (`Sent`).

All three are of the time before the store has lapsed, and inductive as such:
`lapsed` never goes back, and only then is a file call of a dropped operation left
over (`LateLapsed`), so that up to that step every save is of the records there are
(`NextLapses`, `UnlapsedExclusively`, `IndSaleInv`, `UnlapsedTruth`).

The second part of `DeliveryProofs` is about where the items are. The places are the batches not yet
registered, each service's stock of each product, each call's hand, and each
buyer (`Places`, `At`). Every step either moves items from one place to another or
only makes places lose some (`Moves`, `Fades`: `StepMoves`); that the places have
nothing in common (`Apart`) is kept by both, so it is enough to say of each action
which places it moves between. `Handling` adds the queues: their items differ, and
a call between reservation and commit holds as many as its order asks for. From
`Apart` follows `NoItemSoldTwice`, from both `ExactQuantity` (`Quantities` counts a
buyer's items per delivery), and from these with the claims `RecordsTellTheTruth`
(`TruthInv`: a claimed order whose message is out has its items with the buyer).
None of this is about the store but the last: where items are depends on
inventories and calls only, so nothing is sold twice and quantities are exact
in a store that has lapsed too.

The refinement is step by step: a sale takes what was unsold and is one `Sell` of
the ledger, a rejected message that had reached the buyer a `Stray`, every fading
step a `Lose`, all others stutter; a step at which the store lapses is a `Lose` as well.
Without faults nothing lapses (`NeverLapsed`), and an unsold item stays unsold or is sold in a step, unless
a lost race or a registration accounts for it (`Accounted`).

### Session

`Calls` relates the manager's call to its requests: which of them may run in each
phase, and that results and running requests together are the input. Permits: the
free ones and the holders (`send` or `sleep`) add up, and a step of one request
changes the holders by one at most (`HolderMoves`), with the count of the free ones
the other way. `Repeats` makes `applied <= 1 + lost` inductive: while a request may
still be sent (`Sendable`) it has been done at most as often as answers
were lost, and a refused one is sent again only because it has not been done.
`Refusals`: a post that ends unauthorized was refused in the session there is, a
connection in the one it was to make, and while a call goes through its second
round an older session is among the refused ones; so an authorisation error that
is returned has two of them behind it (`RefusedTwice`). `Answered` counts: results and posts still running are as many as the
input, so at the end each has one.

### Bot

`Stages` says which events there are at each `pc`; `Seen`, that what is taken for seen, in
memory, in the store or in a save left over, is there, whatever the store does.
`Kept` is what a store adds that keeps what it was told: no save is left over, and the
running bot is never behind the saved state. As `lapsed` never goes back,
`~lapsed => Kept` is inductive (`IndKept`), and so are the next three under the
same condition (`IndPast`, `IndOrders`, `IndTold`). `PastKept`: marks never fall below what a bootstrap has
read, in memory and, when saved, in the store. `OrdersOnce`: an
order among the events, or handed, is marked as seen, events have no order twice,
and a handed one is saved. `Told` does the same for messages: what is to be emitted is above
what was handed and below the mark, in increasing order, so that the chat fetches
may be joined in any order. It is here that `emit_messages_for_new_orders` is
needed: without it `JoinMark` overwrites a chat's mark, which may go back.

### JsonFile

`Whole` says: unless operations have overlapped, the file is the text of one finite map
(`Intact`), one task works on it (`Alone`), and a task that saves has in hand the map
its operation makes of the file's records, with the temporary file empty or
whole (`InStep`). The guard is the point of the design: a dropped future frees the
lock but not the file call, and only the next operation under that lock makes
it an overlap. A load that took the file for missing (`missed`) has the empty map for
the file's records: then the operation is the one `AtomicStore` allows of an empty
map, and its answer is true of that. The refinement maps the file to its content: the
rename is the operation of `AtomicStore`, and every other step stutters, a crash
included, or is the first of an overlap.

### Schedule

`BlankUnposted`: an edit that holds the page without a form has no session, so that its
post is refused; a new session comes only where no edit runs or with the edit's
starting over. With it a saved form is a real one.

### Offers

First the data path: on a form's own page
`ParseOfferDetails` yields every field `OfferEdit` has (`EveryFieldIsRead`), so that what
is posted, of whatever keys, is taken for a form that differs just where
the patch says so (`PatchIsExact`). Of the category's own fields this says nothing. Then the
invariant: a call at its post, whose session lives and whose offer nobody else
has changed since it read, holds the page of the form on the site
(`PageIsTrue`). Three escapes make it inductive: the offer is gone; the call has posted this
very form already and lost the answer; or the session has ended, and the empty
page it got leads to a refusal. Each change by somebody else is noted by all
calls it could mislead (`ChangeIsNoted`).

For the bulk calls `BulkInv` splits the list as it was read: each offer is still to do,
in hand, refused, changed by others, or dealt with (`DealtWith`), and an offer dealt
with stays so as long as nobody else changes it, since the call's other edits
have other ids and a repeated edit posts the same. For `undercut_price`, `UndercutInv` carries
what the target was computed from to the post: it is right for the prices of all
competitors that have not moved since (`Undercuts`). `Target` takes a
minimum, which exists as the least element of a set of numbers (`HasMin`).

### Webhook

`TaskInv` says, for each point of `handle_request`, how
far the task has read and what it has seen: a signature is a header's or none, a
body begins after the empty line, and a handler's request is genuine. A body
that parses has the length of the note it is of (`ParsedIsWhole`), and
a missing signature, the empty text, decodes to no bytes, which is no digest
(`EmptyIsRefused`). That a note is handled again only when its sender could not know
needs two more: a task acts once and answers 200 only after it (`Handled`), and of
the connections for one note at most one is answered with 200 or still waited for
(`OneAtATime`). The count is then an injection of the handlings into the
connections (`HandlingsBounded`).

### Reads

`InOrder` enumerates a set of numbers by how many others are below each
(`InOrderIsOrder`), so that `Selection` has each wanted position once and in order
(`SelectionIsExact`): what the parser reads of the trade page is the placed
orders, and nothing else (`ListTells`). `OrdersInv` says what a list and a page
remain after the site has moved on: an order's status is not ahead of the site's
(`NotAhead`), as statuses only move from paid to closed to refunded; and of a list
and a page the one read later tells no earlier status (`LaterTellsMore`), as
what it reads is the site and what was read before is not ahead of that.

A filter's statistics are those of a set of positions (`StatisticsAreTotals`). A
volume is the sum of the amounts (`VolumeIsSum`), and the sums of two
sets of positions with nothing in common add up: the last position of the list
is in one of the two, and the rest are two smaller sets (`SelectionGoesOn`,
`VolumesAddUp`). Buyers only do not exceed: one may be in both parts.

`DocInv` says that a page is nested: every node but the first is below an earlier one
that may hold it (`PagesAreNested`). So the nodes above a node form a chain
(`AboveIsLine`), and the list that `parse_children` recurses into is further down the
page than the container it reads, so that its recursion ends
(`NodesDependBelow`, `ChildrenAreNodes`). What is told is then enclosed from two sides:
a set that contains the answer and with a node its children contains all that is told
(`ToldIsWithin`); and a readable link at any depth of a container is told there itself
(`ToldOfBox`). On a page of items an item has one link and at most one list, and what
is below the item besides the link is below the list (`BelowItem`), so that nothing
of an item is left out (`ToldBelowLink`). In the current layout no entry is in another
(`OneEntry`), so that an entry's links are told below it only. A list tells nothing
twice since its nodes are taken in document order, each once (`InOrderOnce`,
`BoxOnce`).

### Induction

The proof system cannot instantiate the library's induction theorems, which
take a predicate as a parameter, but it can cite the well-foundedness of the
numbers (`WFMin`): a set of counterexamples has a least one. This gives maxima,
minima and ascending enumerations of finite sets (`HasLeast`, `HasGreatest` and
`Orderable` of `BotProofs`, `HasMin` of `OfferProofs`). In `ReadProofs` it gives
induction for sets in place of predicates (`OneByOne`, `FromTheSmaller`): a set of
numbers that has 0 and with each number the next has all. What a recursive
function is follows in the same way: for every bound there is a function that
satisfies its equations up to it, so that the definition, a choice of such
a function, has chosen one (`SumsExist`, `AboveIsChain`, `ChildrenAreNodes`,
`ToldInLevels`).

### Only model-checked

* Liveness (`EverythingSettles`, `EverythingHanded`, both `CallsReturn`, `FollowsSchedule`,
  `QuietWhenStable`, `TasksEnd`): the proof system handles no `ENABLED`, and fairness is
  defined by it.
* The counterexamples of section 3, which are behaviours of an instance.

## 5. Not modelled, and why

* In the page parser: category filters, subcategories, chat and runner objects,
  price calculation and reviews, which are extraction of values from one answer;
  and how the labels and options of a category's own fields are read, whose values
  are in `Offers` only as fields that are not posted.
* What the site makes of a form without a category's fields, and of the two
  spellings of `deactivate_after_sale` (client.rs:928-932): not in this repository,
  and modelled as said under `Offers`.
* SQLite's own files: `Bot` has its save as one step.
* Auto-raise: a timer and posts whose results are only logged.
* Prices as `f64`: `Target` is on whole numbers.
* HMAC-SHA256 and the redaction of secrets: a library's computation, and
  formatting.
* Event data beyond the kind of event, in `Webhook`.
* Inventories after a restart: they are not persisted, and a program that
  registers sold items again sells them again. `BatchesAssumption` says that the
  seller does not.
* `RetryPolicy` with no attempts (`unreachable!`, client.rs:843) and a bot with a
  concurrency limit of 0 (it waits for ever, bot.rs:137): arguments of builders,
  excluded by `SessionAssumption` and by the default.
* Builders, URLs, constants and error types: values only.

## 6. Plan

Done, in this order: `DeliveryStore`, `Delivery`, `SaleLedger`, `DeliveryProofs`, `Bot`,
`Session`, `Schedule`, `AtomicStore`, `JsonFile`, `Signature`, `Webhook`, `OfferForms`, `Offers`,
`Orders`, `CategoryTree`, `OfferProofs`, `WebhookProofs`, the second part of `DeliveryProofs`,
`SessionProofs`, `BotProofs`, `JsonFileProofs`, `ScheduleProofs`, `DocumentOrder`, `ReadProofs`.

Models that remain worth having: `Bot` with a trade page that drops old orders, and
its chat fetches under the session's limiter; `Bot` and `Delivery` composed, where
an order on the page is delivered once through restarts of both.

Proofs: every safety property that a run finds to hold is a theorem. What the
proofs leave is the liveness properties, which are out of the prover's reach.
