-------------------------------- MODULE Bot --------------------------------
(***************************************************************************)
(* GoldenPayBot (src/src/bot.rs) with its EventStream (src/src/event.rs)   *)
(* and its StateStore (src/src/storage.rs): start (load_state, bootstrap), *)
(* poll_once with its concurrent chat fetches, and the part of run that    *)
(* hands events to the application's handler.  The market site is the      *)
(* environment: buyers place orders and write messages at any time.        *)
(***************************************************************************)
EXTENDS Integers, SequencesExt

CONSTANTS
  Orders,        \* orders that may appear on the trade page
  Chats,
  ChatOf,        \* order -> its chat; orders of one buyer share a chat
  MaxMessages,   \* bound: messages per chat
  Options,       \* BotOptions: those of "ignore_own", "emit_for_new",
                 \* "welcome" that are set
  StoreKind,     \* "memory" (without a state_path), "json" or "sqlite"
  Faults,        \* which of "fetch", "stat", "save", "handler", "drop",
                 \* "stop" may happen
  MaxLapsed      \* bound: once the store has lapsed nothing begins if the
                 \* handler got an order so often or so many of a chat

ASSUME BotAssumption ==
  /\ ChatOf \in [Orders -> Chats]
  /\ MaxMessages \in Nat
  /\ Options \subseteq {"ignore_own", "emit_for_new", "welcome"}
  /\ StoreKind \in {"memory", "json", "sqlite"}
  /\ Faults \subseteq {"fetch", "stat", "save", "handler", "drop", "stop"}
  /\ MaxLapsed \in Nat

VARIABLES
  placed,          \* the orders the trade page lists
  log,             \* chat -> authors of its messages; the id is the index
  saved,           \* the BotState in the store
  late,            \* file calls of dropped saves that still run while
                   \* others begin: the state they write and the one before
  lapsed,          \* the store has lost what it was told (history)
  pc,              \* what the bot is doing
  seenOrders, seenMessages,      \* the EventStream, in memory
  tasks,           \* orders whose chat is being fetched by this cycle
  mode,            \* order -> "emit" or "mark", what its fetch is for
  snap,            \* order -> the messages its fetch returned, or NotYet
  orderEvents, messageEvents,    \* events of the cycle not yet handed out
  handedOrders,    \* order -> times the handler got it (history)
  handedMessages,  \* chat -> ids the handler got, in that order (history)
  past,            \* chat -> messages it had when the last bootstrap began,
                   \* 0 if that did not end or skipped the chat (history)
  lossy            \* a fetch, a save, a handler or the program has failed
                   \* since the start (history)

site    == << placed, log >>
store   == << saved, late, lapsed >>
stream  == << seenOrders, seenMessages >>
cycle   == << tasks, mode, snap, orderEvents, messageEvents >>
handed  == << handedOrders, handedMessages >>
vars    == << site, store, pc, stream, cycle, handed, past, lossy >>

BotStates == [orders : SUBSET Orders, messages : [Chats -> Nat]]

NotYet == -1
Set(option) == option \in Options

TypeOK ==
  /\ placed \subseteq Orders
  /\ log \in [Chats -> Seq({"own", "buyer"})]
  /\ saved \in BotStates
  /\ \A w \in late : w.from \in BotStates /\ w.to \in BotStates
  /\ lapsed \in BOOLEAN
  /\ pc \in {"off", "boot", "poll", "emit", "idle"}
  /\ seenOrders \subseteq Orders
  /\ seenMessages \in [Chats -> Nat]
  /\ tasks \subseteq Orders
  /\ mode \in [Orders -> {"emit", "mark"}]
  /\ snap \in [Orders -> Nat \cup {NotYet}]
  /\ orderEvents \subseteq Orders
  /\ messageEvents \in Seq(Chats \X Nat)
  /\ handedOrders \in [Orders -> Nat]
  /\ handedMessages \in [Chats -> Seq(Nat)]
  /\ past \in [Chats -> Nat]
  /\ lossy \in BOOLEAN

NoMessages == [c \in Chats |-> 0]
DefaultState == [orders |-> {}, messages |-> NoMessages]

Init ==
  /\ placed = {}
  /\ log = [c \in Chats |-> << >>]
  /\ saved = DefaultState /\ late = {} /\ lapsed = FALSE
  /\ pc = "off"
  /\ seenOrders = {} /\ seenMessages = NoMessages
  /\ tasks = {} /\ mode = [o \in Orders |-> "emit"]
  /\ snap = [o \in Orders |-> NotYet]
  /\ orderEvents = {} /\ messageEvents = << >>
  /\ handedOrders = [o \in Orders |-> 0]
  /\ handedMessages = [c \in Chats |-> << >>]
  /\ past = NoMessages
  /\ lossy = FALSE
-----------------------------------------------------------------------------
(* The market site. *)
PlaceOrder(o) == /\ o \notin placed
                 /\ placed' = placed \cup {o}
                 /\ UNCHANGED << log, store, pc, stream, cycle, handed, past, lossy >>

Post(c, author) == /\ Len(log[c]) < MaxMessages
                   /\ log' = [log EXCEPT ![c] = Append(@, author)]
                   /\ UNCHANGED << placed, store, pc, stream, cycle, handed, past, lossy >>
-----------------------------------------------------------------------------
(* A cycle over the orders on the page: one chat fetch per order. *)
StartTasks(newMode) == /\ tasks' = placed
                       /\ mode' = newMode
                       /\ snap' = [o \in Orders |-> NotYet]

NoEvents == orderEvents' = {} /\ messageEvents' = << >>

MayBegin == lapsed => /\ \A o \in Orders : handedOrders[o] < MaxLapsed
                      /\ \A c \in Chats : Len(handedMessages[c]) < MaxLapsed

(* What a load may answer: the JSON store looks for its file first, and    *)
(* takes a file it cannot look at for none.                                *)
Loaded == {saved} \cup
          (IF StoreKind = "json" /\ "stat" \in Faults THEN {DefaultState} ELSE {})

(* load_state, then bootstrap as every documented program does, or not.    *)
(* bootstrap takes the orders of the page as seen and fetches their chats. *)
Start(bootstrap) ==
  /\ pc = "off"
  /\ MayBegin
  /\ \E m \in Loaded :
       /\ seenOrders' = m.orders \cup (IF bootstrap THEN placed ELSE {})
       /\ seenMessages' = m.messages
       /\ lapsed' = (lapsed \/ m # saved)
       /\ lossy' = (lossy \/ m # saved)
  /\ IF bootstrap
     THEN /\ pc' = "boot"
          /\ StartTasks([o \in Orders |-> "mark"])
          /\ past' = [c \in Chats |->
                        IF \E o \in placed : ChatOf[o] = c THEN Len(log[c]) ELSE past[c]]
     ELSE /\ pc' = "idle"
          /\ UNCHANGED << tasks, mode, snap, past >>
  /\ UNCHANGED << site, saved, late, orderEvents, messageEvents, handed >>

(* poll_once: fetch_orders, should_emit_order on each, and a fetch of each *)
(* chat, to emit its messages or only to mark them as seen.                *)
Poll ==
  /\ pc = "idle"
  /\ MayBegin
  /\ pc' = "poll"
  /\ seenOrders' = seenOrders \cup placed
  /\ orderEvents' = placed \ seenOrders
  /\ messageEvents' = << >>
  /\ StartTasks([o \in Orders |->
       IF Set("emit_for_new") \/ o \in seenOrders THEN "emit" ELSE "mark"])
  /\ UNCHANGED << site, store, seenMessages, handed, past, lossy >>

(* A spawned fetch_chat_messages gets the chat as it is now, or fails. *)
FetchChat(o) ==
  /\ o \in tasks /\ snap[o] = NotYet
  /\ \/ /\ snap' = [snap EXCEPT ![o] = Len(log[ChatOf[o]])]
        /\ UNCHANGED << tasks, past, lossy >>
     \/ /\ "fetch" \in Faults
        /\ tasks' = tasks \ {o}
        /\ past' = IF pc = "boot" THEN [past EXCEPT ![ChatOf[o]] = 0] ELSE past
        /\ lossy' = TRUE
        /\ UNCHANGED snap
  /\ UNCHANGED << site, store, pc, stream, mode, orderEvents, messageEvents, handed >>

(* Mutants: the last message is not skipped; only the newest one is told.  *)
Emitted_Again(c, n) ==
  {i \in 1..n : i >= seenMessages[c] /\ ~(Set("ignore_own") /\ log[c][i] = "own")}

Emitted_Newest(c, n) ==
  {i \in {n} \ {0} : i > seenMessages[c] /\ ~(Set("ignore_own") /\ log[c][i] = "own")}

(* should_emit_message over the n messages of a fetch, oldest first. *)
Emitted(c, n) ==
  {i \in 1..n : i > seenMessages[c] /\ ~(Set("ignore_own") /\ log[c][i] = "own")}

(* The ids of a set, the oldest first. *)
Ascending(ids) ==
  CHOOSE q \in [1..Cardinality(ids) -> ids] : \A i, j \in DOMAIN q : i < j => q[i] < q[j]

(* join_next: results are taken in the order the fetches end. *)
JoinEmit(o) ==
  LET c == ChatOf[o]
      ids == Emitted(c, snap[o])
  IN /\ mode[o] = "emit"
     /\ messageEvents' =
          messageEvents \o [k \in 1..Cardinality(ids) |-> << c, Ascending(ids)[k] >>]
     /\ seenMessages' = [seenMessages EXCEPT ![c] = Max(ids \cup {@})]

(* Mutants: a chat without new messages to tell is not marked either; the  *)
(* mark is the id that the next message will have.                         *)
JoinMark_Forgets(o) ==
  /\ mode[o] = "mark"
  /\ UNCHANGED << seenMessages, messageEvents >>

JoinMark_Next(o) ==
  /\ mode[o] = "mark"
  /\ seenMessages' = [seenMessages EXCEPT ![ChatOf[o]] = snap[o] + 1]
  /\ UNCHANGED messageEvents

JoinMark(o) ==
  /\ mode[o] = "mark"
  /\ seenMessages' = IF snap[o] > 0 THEN [seenMessages EXCEPT ![ChatOf[o]] = snap[o]]
                     ELSE seenMessages
  /\ UNCHANGED messageEvents

Join(o) ==
  /\ o \in tasks /\ snap[o] # NotYet
  /\ JoinEmit(o) \/ JoinMark(o)
  /\ tasks' = tasks \ {o}
  /\ UNCHANGED << site, store, pc, seenOrders, mode, snap, orderEvents, handed, past, lossy >>

(* A save puts what the bot has seen in the store, or what the write of a  *)
(* dropped save has put into the JSON store's temporary meanwhile.         *)
Written ==
  /\ \/ saved' = [orders |-> seenOrders, messages |-> seenMessages] /\ UNCHANGED late
     \/ \E w \in late : saved' = w.to /\ late' = late \ {w}
  /\ UNCHANGED lapsed

(* It fails; a dropped rename that comes before its own has put its        *)
(* temporary in place and takes it away.                                   *)
WriteFails ==
  /\ StoreKind # "memory" /\ ("save" \in Faults \/ lapsed)
  /\ UNCHANGED store \/ (late # {} /\ Written)

(* Mutants: a failed save is only logged; a save takes the events with it. *)
Save_Logged ==
  /\ pc \in {"boot", "poll"} /\ tasks = {}
  /\ Written \/ WriteFails
  /\ pc' = IF pc = "boot" THEN "idle" ELSE "emit"
  /\ UNCHANGED << site, stream, cycle, handed, past, lossy >>

Save_DropsEvents ==
  /\ pc \in {"boot", "poll"} /\ tasks = {}
  /\ Written
  /\ pc' = IF pc = "boot" THEN "idle" ELSE "emit"
  /\ NoEvents
  /\ UNCHANGED << site, stream, tasks, mode, snap, handed, past, lossy >>

(* save_state ends bootstrap and poll_once.  When it fails, bootstrap's    *)
(* caller gives up, and poll_once returns the error and drops its events.  *)
Save ==
  /\ pc \in {"boot", "poll"} /\ tasks = {}
  /\ \/ /\ Written
        /\ pc' = IF pc = "boot" THEN "idle" ELSE "emit"
        /\ UNCHANGED << orderEvents, messageEvents, past, lossy >>
     \/ /\ WriteFails
        /\ pc' = IF pc = "boot" THEN "off" ELSE "idle"
        /\ past' = IF pc = "boot" THEN NoMessages ELSE past
        /\ lossy' = TRUE
        /\ NoEvents
  /\ UNCHANGED << site, stream, tasks, mode, snap, handed >>

(* Mutant: a handler's error leaves the bot unusable. *)
HandlerReturns_Fails(rest) ==
  \/ rest /\ UNCHANGED << pc, lossy >>
  \/ "handler" \in Faults /\ pc' = "failed" /\ lossy' = TRUE /\ NoEvents

(* After its handler: the next event, or run returns the handler's error   *)
(* and the rest of the events with it; run may be called again.            *)
HandlerReturns(rest) ==
  \/ rest /\ UNCHANGED << pc, lossy >>
  \/ "handler" \in Faults /\ pc' = "idle" /\ lossy' = TRUE /\ NoEvents

(* The order events come first, each with its welcome message; a failed    *)
(* welcome is only logged.                                                 *)
HandleOrder(o) ==
  /\ pc = "emit" /\ o \in orderEvents
  /\ handedOrders' = [handedOrders EXCEPT ![o] = @ + 1]
  /\ \/ UNCHANGED log
     \/ Set("welcome") /\ Len(log[ChatOf[o]]) < MaxMessages
          /\ log' = [log EXCEPT ![ChatOf[o]] = Append(@, "own")]
  /\ HandlerReturns(orderEvents' = orderEvents \ {o} /\ UNCHANGED messageEvents)
  /\ UNCHANGED << placed, store, stream, tasks, mode, snap, handedMessages, past >>

HandleMessage ==
  /\ pc = "emit" /\ orderEvents = {} /\ messageEvents # << >>
  /\ handedMessages' = [handedMessages EXCEPT ![Head(messageEvents)[1]] =
                          Append(@, Head(messageEvents)[2])]
  /\ HandlerReturns(messageEvents' = Tail(messageEvents) /\ UNCHANGED orderEvents)
  /\ UNCHANGED << site, store, stream, tasks, mode, snap, handedOrders, past >>

EndCycle ==
  /\ pc = "emit" /\ orderEvents = {} /\ messageEvents = << >>
  /\ pc' = "idle"
  /\ UNCHANGED << site, store, stream, cycle, handed, past, lossy >>

(* What bootstrap, poll_once or run was doing ends where it waits. *)
Ended ==
  /\ pc # "off"
  /\ tasks' = {} /\ NoEvents
  /\ past' = IF pc = "boot" THEN NoMessages ELSE past
  /\ lossy' = TRUE
  /\ UNCHANGED << site, stream, mode, snap, handed >>

(* A shutdown or the caller drops it.  A write under way that has its      *)
(* effect before anything else is Save followed by this; but the drop      *)
(* frees the JSON store's mutex while fs::write or fs::rename still runs,  *)
(* and others may begin before that has ended.                             *)
Drop ==
  /\ "drop" \in Faults
  /\ Ended
  /\ pc' \in {"off", "idle"}
  /\ \/ UNCHANGED << late, lapsed >>
     \/ /\ StoreKind = "json" /\ pc \in {"boot", "poll"} /\ tasks = {}
        /\ late' = late \cup {[from |-> saved,
              to |-> [orders |-> seenOrders, messages |-> seenMessages]]}
        /\ lapsed' = TRUE
  /\ UNCHANGED saved

(* That file call ends; a rename puts its state in the file, if no other   *)
(* save has written the temporary since.                                   *)
LateWrite ==
  /\ \E w \in late :
       /\ late' = late \ {w}
       /\ saved' \in {saved} \cup (IF w.from = saved THEN {w.to} ELSE {})
  /\ UNCHANGED << site, lapsed, pc, stream, cycle, handed, past, lossy >>

(* The process ends; what only memory holds is lost.                       *)
Stop ==
  /\ "stop" \in Faults
  /\ Ended
  /\ pc' = "off"
  /\ saved' \in IF StoreKind = "memory" THEN {DefaultState}
               ELSE {saved} \cup {w.to : w \in {v \in late : v.from = saved}}
  /\ late' = {}
  /\ lapsed' = (lapsed \/ saved' # saved)

(* What the runtime drives on its own, and what waits for the site or for  *)
(* the handler, which may ask the site too.                                *)
OwnStep == Save \/ EndCycle \/ \E o \in Orders : Join(o)
Answered == Poll \/ HandleMessage \/ \E o \in Orders : FetchChat(o) \/ HandleOrder(o)

Next ==
  \/ \E o \in Orders : PlaceOrder(o)
  \/ \E c \in Chats, a \in {"own", "buyer"} : Post(c, a)
  \/ \E b \in BOOLEAN : Start(b)
  \/ OwnStep \/ Answered
  \/ Drop \/ LateWrite \/ Stop

(* Nothing makes the site answer: the HTTP client has no timeout. *)
Spec == Init /\ [][Next]_vars /\ WF_vars(OwnStep)
-----------------------------------------------------------------------------
(* What the handler gets, or has got, is already saved in a store that     *)
(* keeps what it was told: poll_once saves before it returns events, so no *)
(* restart forgets one.                                                    *)
SavedBeforeHanded == ~lapsed =>
  /\ pc = "emit" => /\ orderEvents \subseteq saved.orders
                    /\ \A e \in ToSet(messageEvents) : e[2] <= saved.messages[e[1]]
  /\ \A o \in Orders : handedOrders[o] > 0 => o \in saved.orders
  /\ \A c \in Chats : \A i \in ToSet(handedMessages[c]) : i <= saved.messages[c]

(* As long as the store keeps what it was told (the in-memory one does not *)
(* over a restart), the handler gets each order once at most, over all     *)
(* cycles, failed saves, handler errors, shutdowns and restarts.           *)
OrderHandedOnce == ~lapsed => \A o \in Orders : handedOrders[o] <= 1

(* event.rs:48 "Tracks already-seen orders and messages to avoid duplicate *)
(* events": per chat the handler gets increasing message ids, so none      *)
(* twice, as long as the store keeps what it was told.                     *)
MessagesHandedInOrder == ~lapsed =>
  \A c \in Chats : \A i, j \in DOMAIN handedMessages[c] :
    i < j => handedMessages[c][i] < handedMessages[c][j]

(* bot.rs:192 "Pre-populates seen orders and messages so that past events  *)
(* are not re-emitted": no message that a chat had when the last bootstrap *)
(* began reaches the handler after it, over later failures too, and over   *)
(* restarts of a store that keeps what it was told, unless the bootstrap   *)
(* failed or skipped the chat.                                             *)
PastIsNotEmitted ==
  [][~lapsed => \A c \in Chats : handedMessages'[c] # handedMessages[c] =>
       Last(handedMessages'[c]) > past[c]]_vars

(* bot.rs:173 of load_state: "Loads previously persisted state (seen       *)
(* orders and messages) from the store": a bot that has begun with it      *)
(* knows every order the handler ever got.                                 *)
HandedIsKnown ==
  pc # "off" => \A o \in Orders : handedOrders[o] > 0 => o \in seenOrders

(* Only what has appeared is ever taken for seen, by the running bot or by *)
(* the state it would start with, whatever overlapping or lost saves leave *)
(* in the store: no order and no message is skipped before it is there.    *)
SeenIsThere ==
  /\ saved.orders \cup seenOrders \subseteq placed
  /\ \A c \in Chats : saved.messages[c] <= Len(log[c]) /\ seenMessages[c] <= Len(log[c])

EveryOrderHanded ==
  \A o \in Orders :
    [](pc = "idle" /\ o \notin placed =>
         [](o \in placed => <>(handedOrders[o] = 1 \/ lossy)))

EveryMessageHanded ==
  \A o \in Orders : LET c == ChatOf[o] IN \A i \in 1..MaxMessages :
    [](pc = "idle" /\ Len(log[c]) < i =>
         [](o \in placed /\ Len(log[c]) >= i /\ log[c][i] = "buyer" =>
              <>(i \in ToSet(handedMessages[c]) \/ lossy)))

(* An order that appears, or a message somebody else writes in an order's  *)
(* chat, after the bot has started reaches the handler, unless something   *)
(* fails, if the site and the handler answer.                              *)
EverythingHanded == WF_vars(Answered) => EveryOrderHanded /\ EveryMessageHanded
=============================================================================
