------------------------------- MODULE Orders -------------------------------
(***************************************************************************)
(* What a program learns of the seller's orders: the list of the trade     *)
(* page (parse_orders), an order's own page (parse_order_page), both of    *)
(* src/src/parser.rs, and the filters and statistics over the list         *)
(* (src/src/models.rs, src/src/client.rs).  The orders move on between two *)
(* reads, and the session may end.                                         *)
(***************************************************************************)
EXTENDS DocumentOrder, SequencesExt

CONSTANTS
  Ids,        \* orders, numbered in the order in which the trade page shows them
  Buyer,      \* order -> its buyer: [id, name]; id is a number or Unreadable
  Quantity,   \* order -> how many pieces were bought
  Described,  \* the orders whose description says so, with a unit
  Labels,     \* order -> the label of the amount on its page: [script, capital]
  Marked,     \* the orders on whose pages other texts contain a status class
  Seller,     \* the account's id
  MaxInt,     \* bound: the largest i32
  Options     \* the FetchOrderOptions in use

Unreadable == {}                      \* a number that cannot be parsed
ParseInt(n) == {n} \cap (0..MaxInt)   \* str::parse::<i32> of digits

ASSUME OrdersAssumption ==
  /\ Ids \subseteq Nat /\ Seller \in Nat /\ MaxInt \in Nat
  /\ \A o \in Ids : /\ DOMAIN Buyer[o] = {"id", "name"}
                    /\ Quantity[o] \in Nat
                    /\ Labels[o] \in [script : {"latin", "cyrillic"}, capital : BOOLEAN]
  /\ Described \subseteq Ids /\ Marked \subseteq Ids
  /\ \A f \in Options : DOMAIN f = {"status", "min", "max", "buyer"}

VARIABLES
  status,     \* order -> its status on the site, or Absent
  loggedIn,
  list,       \* what the last fetch_orders returned: {} for an error
  page,       \* what the last fetch_order_page returned: {} for an error
  then        \* the orders of the site when the list was read, and whether
              \* the page was read later (history)

vars == << status, loggedIn, list, page, then >>

Statuses == {"Paid", "Closed", "Refunded"}
Absent == "absent"
Unauthorized == {}      \* a Result is the set of its value, or empty

Placed == {o \in Ids : status[o] # Absent}
-----------------------------------------------------------------------------
(* The site's pages.  A row is coloured by its status; the page of a       *)
(* refunded or closed order has a text of the class that goes with it.     *)
TradePage ==
  [user |-> loggedIn,
   rows |-> IF loggedIn
            THEN [i \in 1..Cardinality(Placed) |->
                   LET o == InOrder(Placed)[i] IN
                   [classes |-> IF status[o] = "Refunded" THEN {"warning"}
                                ELSE IF status[o] = "Paid" THEN {"info"} ELSE {},
                    id |-> {o}, buyer |-> Buyer[o],
                    described |-> IF o \in Described THEN {Quantity[o]} ELSE {}]]
            ELSE << >>]

PageOf(o) ==
  [user  |-> loggedIn, buyer |-> Buyer[o],
   words |-> (IF status[o] = "Refunded" THEN {"text-warning"}
              ELSE IF status[o] = "Closed" THEN {"text-success"} ELSE {})
             \cup (IF o \in Marked THEN {"text-warning"} ELSE {}),
   params |-> << [label |-> Labels[o], value |-> Quantity[o]] >>]
-----------------------------------------------------------------------------
OrZero(option) == IF option = {} THEN 0 ELSE CHOOSE n \in option : TRUE

(* Mutant: what is not closed is paid. *)
RowStatus_TwoKinds(classes) == IF "info" \in classes THEN "Paid" ELSE "Closed"

RowStatus(classes) ==
  IF "warning" \in classes THEN "Refunded"
  ELSE IF "info" \in classes THEN "Paid" ELSE "Closed"

ChatId(a, b) == IF a < b THEN << a, b >> ELSE << b, a >>

(* A description without an amount, or with too large a one, counts as 1. *)
RowAmount(described) ==
  LET read == UNION {ParseInt(n) : n \in described} IN
  IF read = {} THEN 1 ELSE CHOOSE n \in read : TRUE

OrderInfo(row) ==
  [id |-> CHOOSE o \in row.id : TRUE, status |-> RowStatus(row.classes),
   buyerId |-> OrZero(row.buyer.id), buyerName |-> row.buyer.name,
   chat |-> ChatId(Seller, OrZero(row.buyer.id)), amount |-> RowAmount(row.described)]

(* A row without an id is skipped. *)
ReadableRows(trade) ==
  Selection(trade.rows, {i \in DOMAIN trade.rows : trade.rows[i].id # {}})

(* Mutant: a page without a user is read like any other. *)
ParseOrders_Anyone(trade) ==
  LET rows == ReadableRows(trade) IN {[i \in DOMAIN rows |-> OrderInfo(rows[i])]}

ParseOrders(trade) ==
  LET rows == ReadableRows(trade) IN
  IF ~trade.user THEN Unauthorized ELSE {[i \in DOMAIN rows |-> OrderInfo(rows[i])]}

(* to_ascii_lowercase leaves other letters alone, so that a capitalised    *)
(* Cyrillic label is none of the known ones.                               *)
Known(label) == label.script = "latin" \/ ~label.capital

(* The last of the amounts on the page. *)
PageAmount(params) ==
  LET known == {i \in DOMAIN params : Known(params[i].label)} IN
  IF known = {} THEN 0 ELSE OrZero(ParseInt(params[Max(known)].value))

(* The status by a class name anywhere in the text of the page. *)
PageStatus(words) ==
  IF "text-warning" \in words THEN "Refunded"
  ELSE IF "text-success" \in words THEN "Closed" ELSE "Paid"

ParseOrderPage(html, o) ==
  IF ~html.user THEN Unauthorized
  ELSE {[id |-> o, status |-> PageStatus(html.words), buyerId |-> OrZero(html.buyer.id),
         buyerName |-> html.buyer.name, amount |-> PageAmount(html.params)]}
-----------------------------------------------------------------------------
(* FetchOrderOptions: each filter is an Option.  A search text stands for  *)
(* the set of the names it occurs in, whatever their ASCII case.           *)
InStatus(order, wanted) == \A s \in wanted : order.status = s

(* Mutant: the upper bound is exclusive. *)
AmountWithin_Below(order, min, max) ==
  (\A n \in min : order.amount >= n) /\ (\A n \in max : order.amount < n)

AmountWithin(order, min, max) ==
  (\A n \in min : order.amount >= n) /\ (\A n \in max : order.amount <= n)

Matches(order, f) ==
  /\ InStatus(order, f.status)
  /\ AmountWithin(order, f.min, f.max)
  /\ \A names \in f.buyer : order.buyerName \in names

Filtered(orders, f) ==
  Selection(orders, {i \in DOMAIN orders : Matches(orders[i], f)})

FetchPaidOrders(orders) ==
  Selection(orders, {i \in DOMAIN orders : orders[i].status = "Paid"})

Volume(orders) ==
  LET sum[n \in 0..Len(orders)] == IF n = 0 THEN 0 ELSE sum[n - 1] + orders[n].amount
  IN sum[Len(orders)]

(* calculate_statistics.  Buyers whose id is unreadable are all buyer 0. *)
Statistics(orders, f) ==
  LET some == Filtered(orders, f) IN
  [volume |-> Volume(some),
   orders |-> Len(some),
   buyers |-> Cardinality({some[i].buyerId : i \in DOMAIN some})]
-----------------------------------------------------------------------------
Init ==
  /\ status = [o \in Ids |-> Absent]
  /\ loggedIn = TRUE
  /\ list = {} /\ page = {}
  /\ then = [orders |-> {}, later |-> FALSE]

(* The buyers, the seller and the site. *)
Move(o) ==
  /\ \/ status[o] = Absent /\ status' = [status EXCEPT ![o] = "Paid"]
     \/ status[o] = "Paid" /\ status' = [status EXCEPT ![o] = "Closed"]
     \/ status[o] \in {"Paid", "Closed"} /\ status' = [status EXCEPT ![o] = "Refunded"]
  /\ UNCHANGED << loggedIn, list, page, then >>

Expire ==
  /\ loggedIn /\ loggedIn' = FALSE
  /\ UNCHANGED << status, list, page, then >>

FetchOrders ==
  /\ list' = ParseOrders(TradePage)
  /\ then' = [orders |-> Placed, later |-> FALSE]
  /\ UNCHANGED << status, loggedIn, page >>

FetchOrderPage(o) ==
  /\ status[o] # Absent
  /\ page' = ParseOrderPage(PageOf(o), o)
  /\ then' = [then EXCEPT !.later = TRUE]
  /\ UNCHANGED << status, loggedIn, list >>

Next == \/ \E o \in Ids : Move(o) \/ FetchOrderPage(o)
        \/ FetchOrders
        \/ Expire

Spec == Init /\ [][Next]_vars
-----------------------------------------------------------------------------
(* A list that is no error has just the orders that the site had: an ended *)
(* session never reads as a shop without orders.                           *)
ListIsComplete ==
  \A l \in list : {l[i].id : i \in DOMAIN l} = then.orders /\ Len(l) = Cardinality(then.orders)

Rank(s) == IF s = "Paid" THEN 1 ELSE IF s = "Closed" THEN 2 ELSE 3

(* The list and the page of an order tell the same: the same buyer, the    *)
(* same amount if the description states it and the page's label is known, *)
(* and a page read later never an earlier status, nor an earlier page a    *)
(* later one, unless another text on the page contains a status class.     *)
ReadsAgree ==
  \A l \in list, p \in page : \A i \in DOMAIN l : l[i].id = p.id =>
    /\ l[i].buyerId = p.buyerId
    /\ p.id \in Described /\ Known(Labels[p.id]) /\ Quantity[p.id] <= MaxInt =>
         l[i].amount = p.amount
    /\ p.id \notin Marked =>
         IF then.later THEN Rank(l[i].status) <= Rank(p.status)
         ELSE Rank(p.status) <= Rank(l[i].status)

(* However the orders are split, by status or at an amount, the statistics *)
(* of the parts add up to those of the whole.                              *)
StatisticsAddUp ==
  \A l \in list, f \in Options :
    LET all == Statistics(l, f)
        Having(s) == Statistics(l, [f EXCEPT !.status = {s}])
    IN /\ f.status = {} =>
            /\ all.orders = Having("Paid").orders + Having("Closed").orders
                              + Having("Refunded").orders
            /\ Len(FetchPaidOrders(Filtered(l, f))) = Having("Paid").orders
       /\ f.min = {} /\ f.max = {} => \A n \in 1..MaxInt :
            LET low  == Statistics(l, [f EXCEPT !.max = {n - 1}])
                high == Statistics(l, [f EXCEPT !.min = {n}])
            IN /\ all.volume = low.volume + high.volume
               /\ all.orders = low.orders + high.orders
               /\ all.buyers <= low.buyers + high.buyers
=============================================================================
