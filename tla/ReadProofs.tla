----------------------------- MODULE ReadProofs -----------------------------
(***************************************************************************)
(* Theorems about what a program reads: the orders, for every site and     *)
(* every way in which they move on, and the category tree, for every home  *)
(* page of any size.                                                       *)
(***************************************************************************)
EXTENDS Orders, CategoryTree, FiniteSetTheorems, WellFoundedInduction, TLAPS

-----------------------------------------------------------------------------
(* Induction over numbers, for sets of them.                               *)
Smaller == {ss \in Nat \X Nat : ss[1] < ss[2]}

(* A set of numbers has a least one. *)
LEMMA HasSmallest ==
  ASSUME NEW T, T \subseteq Nat, T # {}
  PROVE  \E x \in T : \A y \in T : x <= y
<1>1. IsWellFoundedOn(Smaller, Nat)
  BY NatLessThanWellFounded DEF OpToRel, Smaller
<1>2. PICK x \in T : \A y \in T : ~ (<< y, x >> \in Smaller)
  BY <1>1, WFMin
<1>3. \A y \in T : y \in Nat /\ x \in Nat /\ ~ (y < x)
  BY <1>2 DEF Smaller
<1>4. \A y \in T : x <= y
  BY <1>3
<1>5. QED
  BY <1>4

(* The least number of a set is what Min returns. *)
LEMMA MinIsLeast ==
  ASSUME NEW T, T \subseteq Nat, T # {}
  PROVE  Min(T) \in T /\ \A y \in T : Min(T) <= y
BY HasSmallest DEF Min

(* A set that has a number whenever it has the smaller ones has them all. *)
LEMMA FromTheSmaller ==
  ASSUME NEW T, \A n \in Nat : (\A m \in Nat : m < n => m \in T) => n \in T
  PROVE  \A n \in Nat : n \in T
<1> DEFINE Out == {n \in Nat : n \notin T}
<1> SUFFICES ASSUME Out # {} PROVE FALSE
  OBVIOUS
<1>1. PICK x \in Out : \A y \in Out : x <= y
  BY HasSmallest
<1>2. \A m \in Nat : m < x => m \in T
  BY <1>1
<1>3. QED
  BY <1>1, <1>2

(* A set that has 0 and with each number the next one has them all. *)
LEMMA OneByOne ==
  ASSUME NEW T, 0 \in T, \A n \in Nat : n \in T => n + 1 \in T
  PROVE  \A n \in Nat : n \in T
<1>1. ASSUME NEW n \in Nat, \A m \in Nat : m < n => m \in T
      PROVE  n \in T
  <2>1. CASE n = 0
    BY <2>1
  <2>2. CASE n # 0
    <3>1. n - 1 \in Nat /\ n - 1 < n /\ n - 1 + 1 = n
      BY <2>2
    <3>2. QED
      BY <1>1, <3>1
  <2>3. QED
    BY <2>1, <2>2
<1>2. QED
  BY <1>1, FromTheSmaller
-----------------------------------------------------------------------------
(* Order and selection.                                                    *)
Preceding(S, n) == {m \in S : m < n}

(* A number has fewer others below it than a greater one. *)
LEMMA PrecedingGrows ==
  ASSUME NEW S, S \subseteq Nat, IsFiniteSet(S)
  PROVE  /\ Cardinality(S) \in Nat
         /\ \A n \in S : Cardinality(Preceding(S, n)) \in 0..(Cardinality(S) - 1)
         /\ \A m, n \in S :
              m < n => Cardinality(Preceding(S, m)) < Cardinality(Preceding(S, n))
<1>1. Cardinality(S) \in Nat
  BY FS_CardinalityType
<1>2. ASSUME NEW n \in S
      PROVE  /\ IsFiniteSet(Preceding(S, n))
             /\ Cardinality(Preceding(S, n)) \in Nat
             /\ Cardinality(Preceding(S, n)) < Cardinality(S)
  <2>1. Preceding(S, n) \in SUBSET S /\ n \in S \ Preceding(S, n)
    BY DEF Preceding
  <2>2. /\ IsFiniteSet(Preceding(S, n))
        /\ Cardinality(Preceding(S, n)) <= Cardinality(S)
        /\ Cardinality(Preceding(S, n)) # Cardinality(S)
    BY <2>1, FS_Subset
  <2>3. Cardinality(Preceding(S, n)) \in Nat
    BY <2>2, FS_CardinalityType
  <2>4. QED
    BY <1>1, <2>2, <2>3
<1>3. ASSUME NEW m \in S, NEW n \in S, m < n
      PROVE  Cardinality(Preceding(S, m)) < Cardinality(Preceding(S, n))
  <2>1. Preceding(S, m) \in SUBSET Preceding(S, n)
    <3>1. ASSUME NEW k \in S, k < m PROVE k < n
      <4>1. k \in Nat /\ m \in Nat /\ n \in Nat
        OBVIOUS
      <4>2. QED
        BY <1>3, <3>1, <4>1
    <3>2. QED
      BY <3>1 DEF Preceding
  <2>2. m \in Preceding(S, n) \ Preceding(S, m)
    BY <1>3 DEF Preceding
  <2>3. /\ Cardinality(Preceding(S, m)) <= Cardinality(Preceding(S, n))
        /\ Cardinality(Preceding(S, m)) # Cardinality(Preceding(S, n))
    BY <1>2, <2>1, <2>2, FS_Subset
  <2>4. QED
    BY <1>2, <2>3
<1>4. QED
  BY <1>1, <1>2, <1>3

(* InOrder numbers a set from its smallest element on, without leaving one *)
(* out: the i-th has i - 1 of the others below it.                         *)
LEMMA InOrderIsOrder ==
  ASSUME NEW S, S \subseteq Nat, IsFiniteSet(S)
  PROVE  /\ InOrder(S) \in [1..Cardinality(S) -> S]
         /\ \A n \in S : /\ Cardinality(Preceding(S, n)) + 1 \in 1..Cardinality(S)
                         /\ InOrder(S)[Cardinality(Preceding(S, n)) + 1] = n
         /\ \A i, j \in 1..Cardinality(S) : i < j => InOrder(S)[i] < InOrder(S)[j]
<1> DEFINE c == Cardinality(S)
           before(n) == Cardinality(Preceding(S, n))
           place == [n \in S |-> before(n) + 1]
<1>1. c \in Nat /\ (\A n \in S : before(n) \in 0..(c - 1))
      /\ \A m, n \in S : m < n => before(m) < before(n)
  BY PrecedingGrows
<1> HIDE DEF c, before
<1>2. place \in [S -> 1..c]
  <2>1. \A n \in S : before(n) + 1 \in 1..c
    BY <1>1
  <2>2. QED
    BY <2>1
<1>3. \A m, n \in S : place[m] = place[n] => m = n
  BY <1>1
<1>4. place \in Injection(S, 1..c)
  BY <1>2, <1>3 DEF Injection, IsInjective
<1>5. IsFiniteSet(1..c) /\ Cardinality(1..c) = c
  BY <1>1, FS_Interval
<1>6. place \in Surjection(S, 1..c)
  <2>1. Cardinality(S) = Cardinality(1..c)
    BY <1>5 DEF c
  <2> HIDE DEF place
  <2>2. QED
    BY <1>4, <1>5, <2>1, FS_Injection
<1>7. \A i \in 1..c : \E n \in S : before(n) = i - 1
  <2> SUFFICES ASSUME NEW i \in 1..c PROVE \E n \in S : before(n) = i - 1
    OBVIOUS
  <2>1. PICK n \in S : place[n] = i
    BY <1>6 DEF Surjection
  <2>2. before(n) = i - 1
    BY <1>1, <2>1
  <2>3. QED
    BY <2>2
<1>8. InOrder(S) = [i \in 1..c |-> CHOOSE n \in S : before(n) = i - 1]
  BY DEF InOrder, Preceding, before, c
<1>9. \A i \in 1..c : InOrder(S)[i] \in S /\ before(InOrder(S)[i]) = i - 1
  BY <1>7, <1>8
<1>10. InOrder(S) \in [1..c -> S]
  BY <1>8, <1>9
<1>11. \A m, n \in S : before(m) = before(n) => m = n
  BY <1>1
<1>12. ASSUME NEW n \in S PROVE before(n) + 1 \in 1..c /\ InOrder(S)[before(n) + 1] = n
  <2>1. before(n) + 1 \in 1..c /\ before(n) \in Nat
    BY <1>1
  <2>2. InOrder(S)[before(n) + 1] \in S /\ before(InOrder(S)[before(n) + 1]) = before(n)
    BY <1>9, <2>1
  <2>3. QED
    BY <1>11, <2>1, <2>2
<1>13. ASSUME NEW i \in 1..c, NEW j \in 1..c, i < j PROVE InOrder(S)[i] < InOrder(S)[j]
  <2>1. /\ InOrder(S)[i] \in S /\ before(InOrder(S)[i]) = i - 1
        /\ InOrder(S)[j] \in S /\ before(InOrder(S)[j]) = j - 1
    BY <1>9
  <2>2. PICK m \in S, n \in S : m = InOrder(S)[i] /\ n = InOrder(S)[j]
    BY <2>1
  <2>3. before(m) < before(n) /\ m \in Nat /\ n \in Nat
    BY <1>1, <1>13, <2>1, <2>2
  <2>4. ~ (n < m) /\ n # m
    BY <1>1, <2>3
  <2>5. m < n
    BY <2>3, <2>4
  <2>6. QED
    BY <2>2, <2>5
<1>14. QED
  BY <1>10, <1>12, <1>13 DEF c, before

(* A sequence given position by position is one. *)
LEMMA ListIsSequence ==
  ASSUME NEW n \in Nat, NEW X, NEW s \in [1..n -> X]
  PROVE  s \in Seq(X) /\ Len(s) = n /\ DOMAIN s = 1..n
OBVIOUS

(* A selection has the elements at the selected positions and no others, as *)
(* many as there are positions.                                            *)
LEMMA SelectionIsExact ==
  ASSUME NEW X, NEW l \in Seq(X), NEW P, P \subseteq DOMAIN l
  PROVE  /\ IsFiniteSet(P) /\ Cardinality(P) \in Nat /\ P \subseteq Nat
         /\ InOrder(P) \in [1..Cardinality(P) -> P]
         /\ Selection(l, P) = [i \in 1..Cardinality(P) |-> l[InOrder(P)[i]]]
         /\ Selection(l, P) \in Seq(X) /\ Len(Selection(l, P)) = Cardinality(P)
         /\ DOMAIN Selection(l, P) = 1..Cardinality(P)
         /\ \A j \in P : \E i \in 1..Cardinality(P) : InOrder(P)[i] = j
<1>1. DOMAIN l = 1..Len(l) /\ Len(l) \in Nat
  OBVIOUS
<1>2. P \subseteq Nat /\ IsFiniteSet(P) /\ Cardinality(P) \in Nat
  <2>1. P \subseteq 1..Len(l)
    BY <1>1
  <2>2. IsFiniteSet(1..Len(l))
    BY <1>1, FS_Interval
  <2>3. IsFiniteSet(P)
    BY <2>1, <2>2, FS_Subset
  <2>4. Cardinality(P) \in Nat
    BY <2>3, FS_CardinalityType
  <2>5. QED
    BY <2>1, <2>3, <2>4
<1>3. /\ InOrder(P) \in [1..Cardinality(P) -> P]
      /\ \A n \in P : /\ Cardinality(Preceding(P, n)) + 1 \in 1..Cardinality(P)
                      /\ InOrder(P)[Cardinality(Preceding(P, n)) + 1] = n
  BY <1>2, InOrderIsOrder
<1>4. Selection(l, P) = [i \in 1..Cardinality(P) |-> l[InOrder(P)[i]]]
  BY <1>3 DEF Selection
<1>5. \A i \in 1..Cardinality(P) : l[InOrder(P)[i]] \in X
  BY <1>1, <1>3
<1>6. Selection(l, P) \in [1..Cardinality(P) -> X]
  BY <1>4, <1>5
<1>7. /\ Selection(l, P) \in Seq(X) /\ Len(Selection(l, P)) = Cardinality(P)
      /\ DOMAIN Selection(l, P) = 1..Cardinality(P)
  BY <1>2, <1>6, ListIsSequence
<1>8. QED
  BY <1>2, <1>3, <1>4, <1>7
-----------------------------------------------------------------------------
(* Rows.                                                                   *)
RowOf(o, s) ==
  [classes |-> IF s = "Refunded" THEN {"warning"} ELSE IF s = "Paid" THEN {"info"} ELSE {},
   id |-> {o}, buyer |-> Buyer[o],
   described |-> IF o \in Described THEN {Quantity[o]} ELSE {}]

InfoOf(o, s) == OrderInfo(RowOf(o, s))
Infos == {InfoOf(o, s) : o \in Ids, s \in Statuses}

(* A number that is read is the number that was written, and no larger     *)
(* than the largest.                                                       *)
LEMMA ReadIsWritten ==
  ASSUME NEW n \in Nat
  PROVE  /\ ParseInt(n) = IF n <= MaxInt THEN {n} ELSE {}
         /\ OrZero(ParseInt(n)) \in Nat
         /\ n <= MaxInt => OrZero(ParseInt(n)) = n
<1>1. MaxInt \in Nat
  BY OrdersAssumption
<1>2. ParseInt(n) = IF n <= MaxInt THEN {n} ELSE {}
  BY <1>1 DEF ParseInt
<1>3. OrZero({}) = 0 /\ OrZero({n}) = n
  BY DEF OrZero
<1>4. QED
  BY <1>2, <1>3

(* What a row tells is true: the order, its status at that time, its buyer *)
(* and, if it can be read, its amount.                                     *)
LEMMA RowTells ==
  ASSUME NEW o \in Ids, NEW s \in Statuses
  PROVE  /\ InfoOf(o, s).id = o /\ InfoOf(o, s).status = s
         /\ InfoOf(o, s).buyerId = OrZero(Buyer[o].id)
         /\ InfoOf(o, s).amount \in Nat
         /\ o \in Described /\ Quantity[o] <= MaxInt => InfoOf(o, s).amount = Quantity[o]
<1> DEFINE row == RowOf(o, s)
<1>1. /\ row.id = {o} /\ row.buyer = Buyer[o]
      /\ row.classes = IF s = "Refunded" THEN {"warning"} ELSE IF s = "Paid" THEN {"info"} ELSE {}
      /\ row.described = IF o \in Described THEN {Quantity[o]} ELSE {}
  BY DEF RowOf
<1> HIDE DEF row
<1>2. (CHOOSE x \in row.id : TRUE) = o
  BY <1>1
<1>3. RowStatus(row.classes) = s
  BY <1>1 DEF RowStatus, Statuses
<1>4. /\ InfoOf(o, s).id = (CHOOSE x \in row.id : TRUE)
      /\ InfoOf(o, s).status = RowStatus(row.classes)
      /\ InfoOf(o, s).buyerId = OrZero(row.buyer.id)
      /\ InfoOf(o, s).amount = RowAmount(row.described)
  BY DEF InfoOf, OrderInfo, row
<1>5. Quantity[o] \in Nat
  BY OrdersAssumption
<1>6. /\ RowAmount(row.described) \in Nat
      /\ o \in Described /\ Quantity[o] <= MaxInt => RowAmount(row.described) = Quantity[o]
  <2>1. CASE o \in Described /\ Quantity[o] <= MaxInt
    <3>1. UNION {ParseInt(n) : n \in row.described} = {Quantity[o]}
      BY <1>1, <1>5, <2>1, ReadIsWritten
    <3>2. RowAmount(row.described) = Quantity[o]
      BY <3>1 DEF RowAmount
    <3>3. QED
      BY <1>5, <3>2
  <2>2. CASE ~ (o \in Described /\ Quantity[o] <= MaxInt)
    <3>1. UNION {ParseInt(n) : n \in row.described} = {}
      BY <1>1, <1>5, <2>2, ReadIsWritten
    <3>2. RowAmount(row.described) = 1
      BY <3>1 DEF RowAmount
    <3>3. QED
      BY <2>2, <3>2
  <2>3. QED
    BY <2>1, <2>2
<1>7. QED
  BY <1>1, <1>2, <1>3, <1>4, <1>6

(* What is known of every list. *)
LEMMA InfoIsTyped ==
  ASSUME NEW info \in Infos
  PROVE  /\ info.id \in Ids /\ info.status \in Statuses
         /\ info.buyerId = OrZero(Buyer[info.id].id) /\ info.amount \in Nat
         /\ info.id \in Described /\ Quantity[info.id] <= MaxInt =>
              info.amount = Quantity[info.id]
<1>1. PICK o \in Ids, s \in Statuses : info = InfoOf(o, s)
  BY DEF Infos
<1>2. QED
  BY <1>1, RowTells

(* The list of a page that a user is named on: one entry for each row, and *)
(* each placed order's among them, with its status.                        *)
LEMMA ListTells ==
  ASSUME status \in [Ids -> Statuses \cup {Absent}], IsFiniteSet(Placed),
         NEW l \in ParseOrders(TradePage)
  PROVE  /\ l \in Seq(Infos) /\ Len(l) = Cardinality(Placed)
         /\ \A i \in DOMAIN l : \E o \in Placed : l[i] = InfoOf(o, status[o])
         /\ \A o \in Placed : \E i \in DOMAIN l : l[i] = InfoOf(o, status[o])
<1> DEFINE c == Cardinality(Placed)
           order == InOrder(Placed)
           rows == [i \in 1..c |-> RowOf(order[i], status[order[i]])]
<1>1. /\ Placed \subseteq Ids /\ Placed \subseteq Nat
      /\ \A o \in Placed : status[o] \in Statuses
  BY OrdersAssumption DEF Placed
<1>2. /\ order \in [1..c -> Placed] /\ c \in Nat
      /\ \A o \in Placed : \E i \in 1..c : order[i] = o
  <2>1. c \in Nat
    BY FS_CardinalityType
  <2>2. /\ order \in [1..c -> Placed]
        /\ \A n \in Placed : /\ Cardinality(Preceding(Placed, n)) + 1 \in 1..c
                             /\ order[Cardinality(Preceding(Placed, n)) + 1] = n
    BY <1>1, InOrderIsOrder
  <2>3. QED
    BY <2>1, <2>2
<1>3. loggedIn /\ TradePage.user
  BY DEF ParseOrders, Unauthorized, TradePage
<1>4. TradePage.rows = rows
  BY <1>3 DEF TradePage, RowOf
<1> HIDE DEF c, order
<1> DEFINE Rows == {RowOf(o, s) : o \in Ids, s \in Statuses}
<1>5. rows \in [1..c -> Rows]
  BY <1>1, <1>2
<1>6. rows \in Seq(Rows) /\ DOMAIN rows = 1..c
  BY <1>2, <1>5, ListIsSequence
<1>7. {i \in DOMAIN rows : rows[i].id # {}} = 1..c
  <2>1. \A i \in 1..c : rows[i].id = {order[i]}
    BY <1>2 DEF RowOf
  <2>2. QED
    BY <1>6, <2>1
<1> HIDE DEF rows, Rows
<1>8. Cardinality(1..c) = c
  BY <1>2, FS_Interval
<1> DEFINE at == InOrder(1..c)
           read == ReadableRows(TradePage)
<1>9. /\ at \in [1..c -> 1..c] /\ read = [i \in 1..c |-> rows[at[i]]]
      /\ \A j \in 1..c : \E i \in 1..c : at[i] = j
  <2>1. read = Selection(rows, 1..c)
    BY <1>4, <1>7 DEF ReadableRows
  <2>2. 1..c \subseteq DOMAIN rows
    BY <1>6
  <2>3. \A P : P \subseteq DOMAIN rows =>
          /\ InOrder(P) \in [1..Cardinality(P) -> P]
          /\ Selection(rows, P) = [i \in 1..Cardinality(P) |-> rows[InOrder(P)[i]]]
          /\ \A j \in P : \E i \in 1..Cardinality(P) : InOrder(P)[i] = j
    <3>1. rows \in Seq(Rows)
      BY <1>6
    <3>2. ASSUME NEW P, P \subseteq DOMAIN rows
          PROVE  /\ InOrder(P) \in [1..Cardinality(P) -> P]
                 /\ Selection(rows, P) = [i \in 1..Cardinality(P) |-> rows[InOrder(P)[i]]]
                 /\ \A j \in P : \E i \in 1..Cardinality(P) : InOrder(P)[i] = j
      BY ONLY <3>1, <3>2, SelectionIsExact
    <3>3. QED
      BY <3>2
  <2>4. QED
    BY <1>8, <2>1, <2>2, <2>3
<1>10. l = [i \in 1..c |-> OrderInfo(rows[at[i]])]
  <2>1. l = [i \in DOMAIN read |-> OrderInfo(read[i])]
    BY <1>3 DEF ParseOrders
  <2> HIDE DEF read, at
  <2>2. DOMAIN read = 1..c /\ \A i \in 1..c : read[i] = rows[at[i]]
    BY ONLY <1>9
  <2>3. QED
    BY <2>1, <2>2
<1> HIDE DEF at, read
<1>11. \A i \in 1..c : /\ order[at[i]] \in Placed
                       /\ l[i] = InfoOf(order[at[i]], status[order[at[i]]])
  <2>1. \A i \in 1..c : rows[i] = RowOf(order[i], status[order[i]])
    BY DEF rows
  <2>2. QED
    BY <1>2, <1>9, <1>10, <2>1 DEF InfoOf
<1>12. l \in [1..c -> Infos]
  <2>1. ASSUME NEW i \in 1..c PROVE l[i] \in Infos
    <3>1. PICK o \in Placed : l[i] = InfoOf(o, status[o])
      BY <1>11
    <3>2. o \in Ids /\ status[o] \in Statuses
      BY <1>1
    <3>3. QED
      BY <3>1, <3>2 DEF Infos
  <2>2. QED
    BY <1>10, <2>1
<1>13. l \in Seq(Infos) /\ Len(l) = c /\ DOMAIN l = 1..c
  BY <1>2, <1>12, ListIsSequence
<1>14. \A o \in Placed : \E i \in 1..c : l[i] = InfoOf(o, status[o])
  <2> SUFFICES ASSUME NEW o \in Placed PROVE \E i \in 1..c : l[i] = InfoOf(o, status[o])
    OBVIOUS
  <2>1. PICK j \in 1..c : order[j] = o
    BY <1>2
  <2>2. PICK i \in 1..c : at[i] = j
    BY <1>9
  <2>3. QED
    BY <1>11, <2>1, <2>2
<1>15. QED
  BY <1>11, <1>13, <1>14 DEF c
-----------------------------------------------------------------------------
(* The list and the page.                                                  *)

(* What was read of an order is what its status was or an earlier one.     *)
NotAhead(o, s) == status[o] # Absent /\ s \in Statuses /\ Rank(s) <= Rank(status[o])

ListTrue ==
  \A l \in list :
    /\ l \in Seq(Infos)
    /\ {l[i].id : i \in DOMAIN l} = then.orders /\ Len(l) = Cardinality(then.orders)
    /\ \A i \in DOMAIN l : NotAhead(l[i].id, l[i].status)

PageTrue ==
  \A p \in page :
    /\ p.id \in Ids /\ p.buyerId = OrZero(Buyer[p.id].id)
    /\ Known(Labels[p.id]) /\ Quantity[p.id] <= MaxInt => p.amount = Quantity[p.id]
    /\ p.id \notin Marked => NotAhead(p.id, p.status)

(* Which of the two was read later decides which status is the later one.  *)
LaterTellsMore ==
  \A l \in list, p \in page : \A i \in DOMAIN l : l[i].id = p.id /\ p.id \notin Marked =>
    IF then.later THEN Rank(l[i].status) <= Rank(p.status)
    ELSE Rank(p.status) <= Rank(l[i].status)

OrdersInv ==
  /\ status \in [Ids -> Statuses \cup {Absent}]
  /\ IsFiniteSet(Placed)
  /\ then \in [orders : SUBSET Ids, later : BOOLEAN]
  /\ ListTrue /\ PageTrue /\ LaterTellsMore

(* At first nothing is placed and nothing read. *)
LEMMA InitReads == Init => OrdersInv
<1> SUFFICES ASSUME Init PROVE OrdersInv
  OBVIOUS
<1>1. status \in [Ids -> Statuses \cup {Absent}]
  BY DEF Init
<1>2. Placed = {}
  BY DEF Init, Placed
<1>3. IsFiniteSet(Placed)
  BY <1>2, FS_EmptySet
<1>4. then \in [orders : SUBSET Ids, later : BOOLEAN]
  BY DEF Init
<1>5. ListTrue /\ PageTrue /\ LaterTellsMore
  BY DEF Init, ListTrue, PageTrue, LaterTellsMore
<1>6. QED
  BY <1>1, <1>3, <1>4, <1>5 DEF OrdersInv

(* An order moves on to a status of a higher rank only, so that what was   *)
(* read of it stays behind.                                                *)
LEMMA MoveKeepsReads == ASSUME OrdersInv, NEW o \in Ids, Move(o) PROVE OrdersInv'
<1>1. status \in [Ids -> Statuses \cup {Absent}] /\ IsFiniteSet(Placed)
  BY DEF OrdersInv
<1>2. PICK s \in Statuses : /\ status' = [status EXCEPT ![o] = s]
                            /\ status[o] = Absent \/ Rank(status[o]) <= Rank(s)
  BY DEF Move, Rank, Absent, Statuses
<1>3. status' \in [Ids -> Statuses \cup {Absent}]
  BY <1>1, <1>2
<1>4. \A x \in Ids : /\ status'[x] = IF x = o THEN s ELSE status[x]
                     /\ s # Absent
  BY <1>1, <1>2 DEF Statuses, Absent
<1>5. Placed' = Placed \cup {o}
  BY <1>4 DEF Placed
<1>6. IsFiniteSet(Placed')
  BY <1>1, <1>5, FS_AddElement
<1>7. ASSUME NEW x \in Ids, NEW r, NotAhead(x, r) PROVE NotAhead(x, r)'
  <2>1. CASE x = o
    <3>1. Rank(r) <= Rank(status[o]) /\ Rank(status[o]) <= Rank(s) /\ r \in Statuses
      BY <1>2, <1>7, <2>1 DEF NotAhead
    <3>2. Rank(r) <= Rank(s)
      BY <3>1 DEF Rank
    <3>3. QED
      BY <1>4, <2>1, <3>1, <3>2 DEF NotAhead
  <2>2. CASE x # o
    BY <1>4, <1>7, <2>2 DEF NotAhead
  <2>3. QED
    BY <2>1, <2>2
<1>8. /\ list' = list /\ page' = page /\ then' = then
      /\ then \in [orders : SUBSET Ids, later : BOOLEAN]
      /\ ListTrue /\ PageTrue /\ LaterTellsMore
  BY DEF Move, OrdersInv
<1>9. ListTrue'
  <2> SUFFICES ASSUME NEW l \in list
               PROVE  /\ l \in Seq(Infos)
                      /\ {l[i].id : i \in DOMAIN l} = then.orders
                      /\ Len(l) = Cardinality(then.orders)
                      /\ \A i \in DOMAIN l : NotAhead(l[i].id, l[i].status)'
    BY <1>8 DEF ListTrue
  <2>1. /\ l \in Seq(Infos)
        /\ {l[i].id : i \in DOMAIN l} = then.orders /\ Len(l) = Cardinality(then.orders)
        /\ \A i \in DOMAIN l : NotAhead(l[i].id, l[i].status)
    BY <1>8 DEF ListTrue
  <2>2. \A i \in DOMAIN l : l[i].id \in Ids
    BY <2>1, InfoIsTyped
  <2>3. QED
    BY <1>7, <2>1, <2>2
<1>10. PageTrue'
  BY <1>7, <1>8 DEF PageTrue
<1>11. LaterTellsMore'
  BY <1>8 DEF LaterTellsMore
<1>12. QED
  BY <1>3, <1>6, <1>8, <1>9, <1>10, <1>11 DEF OrdersInv

(* A list tells of each order the status that it has.                      *)
LEMMA FetchOrdersKeepsReads == ASSUME OrdersInv, FetchOrders PROVE OrdersInv'
<1>1. /\ status \in [Ids -> Statuses \cup {Absent}] /\ IsFiniteSet(Placed)
      /\ PageTrue
  BY DEF OrdersInv
<1>2. /\ status' = status /\ page' = page /\ list' = ParseOrders(TradePage)
      /\ then' = [orders |-> Placed, later |-> FALSE]
  BY DEF FetchOrders
<1>3. Placed' = Placed /\ Placed \subseteq Ids
  BY <1>2 DEF Placed
<1>4. then' \in [orders : SUBSET Ids, later : BOOLEAN]
      /\ then'.orders = Placed /\ then'.later = FALSE
  BY <1>2, <1>3
<1>5. ASSUME NEW l \in list'
      PROVE  /\ l \in Seq(Infos) /\ Len(l) = Cardinality(Placed)
             /\ {l[i].id : i \in DOMAIN l} = Placed
             /\ \A i \in DOMAIN l : l[i].id \in Placed /\ l[i].status = status[l[i].id]
  <2>1. /\ l \in Seq(Infos) /\ Len(l) = Cardinality(Placed)
        /\ \A i \in DOMAIN l : \E o \in Placed : l[i] = InfoOf(o, status[o])
        /\ \A o \in Placed : \E i \in DOMAIN l : l[i] = InfoOf(o, status[o])
    BY <1>1, <1>2, ListTells
  <2>2. \A o \in Placed : /\ InfoOf(o, status[o]).id = o
                          /\ InfoOf(o, status[o]).status = status[o]
    <3>1. \A o \in Placed : o \in Ids /\ status[o] \in Statuses
      BY <1>1 DEF Placed
    <3>2. QED
      BY <3>1, RowTells
  <2>3. \A i \in DOMAIN l : l[i].id \in Placed /\ l[i].status = status[l[i].id]
    BY <2>1, <2>2
  <2>4. \A o \in Placed : \E i \in DOMAIN l : l[i].id = o
    BY <2>1, <2>2
  <2>5. QED
    BY <2>1, <2>3, <2>4
<1>6. \A o \in Placed : status[o] \in Statuses /\ status[o] # Absent
  BY <1>1 DEF Placed
<1>7. ListTrue'
  <2>1. ASSUME NEW l \in list', NEW i \in DOMAIN l PROVE NotAhead(l[i].id, l[i].status)'
    BY <1>2, <1>5, <1>6 DEF NotAhead, Rank
  <2>2. QED
    BY <1>4, <1>5, <2>1 DEF ListTrue
<1>8. PageTrue'
  BY <1>1, <1>2 DEF PageTrue, NotAhead
<1>9. LaterTellsMore'
  <2>1. ASSUME NEW l \in list', NEW p \in page', NEW i \in DOMAIN l,
               l[i].id = p.id, p.id \notin Marked
        PROVE  Rank(p.status) <= Rank(l[i].status)
    <3>1. l[i].status = status[p.id]
      BY <1>5, <2>1
    <3>2. Rank(p.status) <= Rank(status[p.id])
      BY <1>1, <1>2, <2>1 DEF PageTrue, NotAhead
    <3>3. QED
      BY <3>1, <3>2
  <2>2. QED
    BY <1>4, <2>1 DEF LaterTellsMore
<1>10. QED
  BY <1>1, <1>2, <1>3, <1>4, <1>7, <1>8, <1>9 DEF OrdersInv

(* What a page states as its amount is what was bought, if its label is    *)
(* known and the number not too large.                                     *)
LEMMA PageTells ==
  ASSUME NEW o \in Ids, NEW p \in ParseOrderPage(PageOf(o), o)
  PROVE  /\ p.id = o /\ p.buyerId = OrZero(Buyer[o].id)
         /\ p.status = PageStatus(PageOf(o).words)
         /\ Known(Labels[o]) /\ Quantity[o] <= MaxInt => p.amount = Quantity[o]
<1> DEFINE html == PageOf(o)
<1>1. /\ html.user = loggedIn /\ html.buyer = Buyer[o]
      /\ html.params = << [label |-> Labels[o], value |-> Quantity[o]] >>
  BY DEF PageOf
<1>2. p = [id |-> o, status |-> PageStatus(html.words), buyerId |-> OrZero(html.buyer.id),
           buyerName |-> html.buyer.name, amount |-> PageAmount(html.params)]
  BY DEF ParseOrderPage, Unauthorized
<1> HIDE DEF html
<1>3. ASSUME Known(Labels[o]), Quantity[o] <= MaxInt PROVE p.amount = Quantity[o]
  <2> DEFINE params == << [label |-> Labels[o], value |-> Quantity[o]] >>
             known == {i \in DOMAIN params : Known(params[i].label)}
  <2>1. DOMAIN params = {1} /\ params[1].label = Labels[o] /\ params[1].value = Quantity[o]
    OBVIOUS
  <2>2. known = {1}
    BY <1>3, <2>1
  <2>3. Max({1}) = 1
    BY DEF Max
  <2>4. PageAmount(params) = OrZero(ParseInt(params[Max(known)].value))
    BY <2>2 DEF PageAmount
  <2>5. PageAmount(params) = OrZero(ParseInt(Quantity[o]))
    BY <2>1, <2>2, <2>3, <2>4
  <2>6. Quantity[o] \in Nat
    BY OrdersAssumption
  <2>7. p.amount = PageAmount(params)
    BY <1>1, <1>2
  <2>8. QED
    BY <1>3, <2>5, <2>6, <2>7, ReadIsWritten
<1>4. QED
  BY <1>1, <1>2, <1>3 DEF html

(* A page that contains no other text of a status class tells the status   *)
(* of its order, and so no earlier one than any list read before.          *)
LEMMA FetchOrderPageKeepsReads ==
  ASSUME OrdersInv, NEW o \in Ids, FetchOrderPage(o)
  PROVE  OrdersInv'
<1>1. /\ status \in [Ids -> Statuses \cup {Absent}] /\ IsFiniteSet(Placed)
      /\ then \in [orders : SUBSET Ids, later : BOOLEAN] /\ ListTrue
  BY DEF OrdersInv
<1>2. /\ status' = status /\ list' = list /\ page' = ParseOrderPage(PageOf(o), o)
      /\ then' = [then EXCEPT !.later = TRUE] /\ status[o] \in Statuses
      /\ status[o] # Absent
  BY <1>1 DEF FetchOrderPage
<1>3. /\ then' \in [orders : SUBSET Ids, later : BOOLEAN]
      /\ then'.orders = then.orders /\ then'.later = TRUE
  BY <1>1, <1>2
<1>4. Placed' = Placed
  BY <1>2 DEF Placed
<1>5. ListTrue'
  BY <1>1, <1>2, <1>3 DEF ListTrue, NotAhead
<1>6. o \notin Marked => PageStatus(PageOf(o).words) = status[o]
  <2>1. PageOf(o).words = (IF status[o] = "Refunded" THEN {"text-warning"}
                           ELSE IF status[o] = "Closed" THEN {"text-success"} ELSE {})
                          \cup (IF o \in Marked THEN {"text-warning"} ELSE {})
    BY DEF PageOf
  <2>2. QED
    BY <1>2, <2>1 DEF PageStatus, Statuses
<1>7. ASSUME NEW p \in page'
      PROVE  /\ p.id = o /\ p.buyerId = OrZero(Buyer[o].id)
             /\ Known(Labels[o]) /\ Quantity[o] <= MaxInt => p.amount = Quantity[o]
             /\ o \notin Marked => p.status = status[o]
  BY <1>2, <1>6, <1>7, PageTells
<1>8. PageTrue'
  <2>1. \A p \in page' : p.id \notin Marked => NotAhead(p.id, p.status)'
    BY <1>2, <1>7 DEF NotAhead, Rank
  <2>2. QED
    BY <1>7, <2>1 DEF PageTrue
<1>9. LaterTellsMore'
  <2>1. ASSUME NEW l \in list', NEW p \in page', NEW i \in DOMAIN l,
               l[i].id = p.id, p.id \notin Marked
        PROVE  Rank(l[i].status) <= Rank(p.status)
    <3>1. p.status = status[o] /\ p.id = o
      BY <1>7, <2>1
    <3>2. NotAhead(l[i].id, l[i].status)
      BY <1>1, <1>2 DEF ListTrue
    <3>3. QED
      BY <2>1, <3>1, <3>2 DEF NotAhead
  <2>2. QED
    BY <1>3, <2>1 DEF LaterTellsMore
<1>10. QED
  BY <1>1, <1>2, <1>3, <1>4, <1>5, <1>8, <1>9 DEF OrdersInv

(* A step that changes none of it. *)
LEMMA IdleKeepsReads ==
  ASSUME OrdersInv, UNCHANGED << status, list, page, then >>
  PROVE  OrdersInv'
BY DEF OrdersInv, Placed, ListTrue, PageTrue, LaterTellsMore, NotAhead

(* Every step keeps the relation between the site and what was read of it. *)
LEMMA NextKeepsReads == ASSUME OrdersInv, [Next]_vars PROVE OrdersInv'
<1>1. ASSUME NEW o \in Ids, Move(o) PROVE OrdersInv'
  BY <1>1, MoveKeepsReads
<1>2. ASSUME NEW o \in Ids, FetchOrderPage(o) PROVE OrdersInv'
  BY <1>2, FetchOrderPageKeepsReads
<1>3. CASE FetchOrders
  BY <1>3, FetchOrdersKeepsReads
<1>4. CASE Expire
  BY <1>4, IdleKeepsReads DEF Expire
<1>5. CASE UNCHANGED vars
  BY <1>5, IdleKeepsReads DEF vars
<1>6. QED
  BY <1>1, <1>2, <1>3, <1>4, <1>5 DEF Next

(* What was read stays true of the site, in every state. *)
LEMMA ReadsStayTrue == Spec => []OrdersInv
<1>1. Init => OrdersInv
  BY InitReads
<1>2. OrdersInv /\ [Next]_vars => OrdersInv'
  BY NextKeepsReads
<1>3. QED
  BY <1>1, <1>2, PTL DEF Spec

(* A list that is no error is the list of just the orders that the site    *)
(* had then: fetch_orders never returns a shorter one.                     *)
THEOREM ListsAreComplete == Spec => []ListIsComplete
<1>1. OrdersInv => ListIsComplete
  BY DEF OrdersInv, ListTrue, ListIsComplete
<1>2. QED
  BY <1>1, ReadsStayTrue, PTL

(* The list and the page of an order tell the same, in whatever order the  *)
(* two were read while the order moved on.                                 *)
THEOREM ListAndPageAgree == Spec => []ReadsAgree
<1>1. ASSUME OrdersInv PROVE ReadsAgree
  <2> SUFFICES ASSUME NEW l \in list, NEW p \in page, NEW i \in DOMAIN l, l[i].id = p.id
               PROVE  /\ l[i].buyerId = p.buyerId
                      /\ p.id \in Described /\ Known(Labels[p.id])
                         /\ Quantity[p.id] <= MaxInt => l[i].amount = p.amount
                      /\ p.id \notin Marked =>
                           IF then.later THEN Rank(l[i].status) <= Rank(p.status)
                           ELSE Rank(p.status) <= Rank(l[i].status)
    BY DEF ReadsAgree
  <2>1. l \in Seq(Infos) /\ ListTrue /\ PageTrue /\ LaterTellsMore
    BY <1>1 DEF OrdersInv, ListTrue
  <2>2. /\ l[i].buyerId = OrZero(Buyer[p.id].id)
        /\ p.id \in Described /\ Quantity[p.id] <= MaxInt => l[i].amount = Quantity[p.id]
    BY <2>1, InfoIsTyped
  <2>3. /\ p.buyerId = OrZero(Buyer[p.id].id)
        /\ Known(Labels[p.id]) /\ Quantity[p.id] <= MaxInt => p.amount = Quantity[p.id]
    BY <2>1 DEF PageTrue
  <2>4. p.id \notin Marked =>
          IF then.later THEN Rank(l[i].status) <= Rank(p.status)
          ELSE Rank(p.status) <= Rank(l[i].status)
    BY <2>1 DEF LaterTellsMore
  <2>5. QED
    BY <2>2, <2>3, <2>4
<1>2. QED
  BY <1>1, ReadsStayTrue, PTL
-----------------------------------------------------------------------------
(* Statistics.                                                             *)
SumsUp(s, l) ==
  /\ s \in [0..Len(l) -> Nat] /\ s[0] = 0
  /\ \A n \in 1..Len(l) : s[n] = s[n - 1] + l[n].amount

(* Every list has the sums of its first entries. *)
LEMMA SumsExist == ASSUME NEW l \in Seq(Infos) PROVE \E s : SumsUp(s, l)
<1> DEFINE L == Len(l)
           Begun(k, u) == /\ u \in [0..k -> Nat] /\ u[0] = 0
                         /\ \A n \in 1..k : u[n] = u[n - 1] + l[n].amount
           T == {k \in Nat : k <= L => \E u : Begun(k, u)}
<1>1. L \in Nat /\ \A n \in 1..L : l[n].amount \in Nat
  BY InfoIsTyped
<1> HIDE DEF L
<1>2. 0 \in T
  <2>1. Begun(0, [n \in 0..0 |-> 0])
    OBVIOUS
  <2> HIDE DEF Begun
  <2>2. QED
    BY <2>1
<1>3. ASSUME NEW k \in Nat, k \in T PROVE k + 1 \in T
  <2> SUFFICES ASSUME k + 1 <= L PROVE \E v : Begun(k + 1, v)
    OBVIOUS
  <2>1. PICK u : Begun(k, u)
    BY <1>1, <1>3
  <2> DEFINE v == [n \in 0..(k + 1) |-> IF n = k + 1 THEN u[k] + l[k + 1].amount ELSE u[n]]
  <2>2. l[k + 1].amount \in Nat /\ u[k] \in Nat
    BY <1>1, <2>1
  <2>3. \A n \in 0..(k + 1) : n # k + 1 => n \in 0..k
    OBVIOUS
  <2>4. v \in [0..(k + 1) -> Nat] /\ v[0] = 0
    BY <2>1, <2>2, <2>3
  <2>5. ASSUME NEW n \in 1..(k + 1) PROVE v[n] = v[n - 1] + l[n].amount
    <3>1. n - 1 \in 0..(k + 1) /\ n - 1 # k + 1 /\ n \in 0..(k + 1)
      OBVIOUS
    <3>2. v[n - 1] = u[n - 1]
      BY <3>1
    <3>3. CASE n = k + 1
      BY <3>2, <3>3
    <3>4. CASE n # k + 1
      <4>1. n \in 1..k /\ v[n] = u[n]
        BY <3>1, <3>4
      <4>2. QED
        BY <2>1, <3>2, <4>1
    <3>5. QED
      BY <3>3, <3>4
  <2>6. Begun(k + 1, v)
    BY <2>4, <2>5
  <2> HIDE DEF v, Begun
  <2>7. QED
    BY <2>6
<1> HIDE DEF T
<1>4. L \in T
  BY <1>1, <1>2, <1>3, OneByOne
<1>5. QED
  BY <1>1, <1>4 DEF T, SumsUp, L

(* The volume is the last of these sums. *)
LEMMA VolumeIsSum ==
  ASSUME NEW l \in Seq(Infos)
  PROVE  \E s : SumsUp(s, l) /\ Volume(l) = s[Len(l)]
<1> DEFINE L == Len(l)
           Sums(s) == s = [n \in 0..L |-> IF n = 0 THEN 0 ELSE s[n - 1] + l[n].amount]
<1>1. L \in Nat /\ \A n \in 1..L : l[n].amount \in Nat
  BY InfoIsTyped
<1>2. \E s : Sums(s)
  <2>1. PICK s : SumsUp(s, l)
    BY SumsExist
  <2>2. \A n \in 0..L : n # 0 => n \in 1..L
    BY <1>1
  <2>3. \A n \in 0..L : s[n] = IF n = 0 THEN 0 ELSE s[n - 1] + l[n].amount
    BY <2>1, <2>2 DEF SumsUp
  <2>4. s = [n \in 0..L |-> s[n]]
    BY <2>1 DEF SumsUp
  <2>5. QED
    BY <2>3, <2>4
<1>3. PICK s : Sums(s) /\ Volume(l) = s[L]
  <2>1. Volume(l) = (CHOOSE s : Sums(s))[L]
    BY DEF Volume
  <2>2. QED
    BY <1>2, <2>1
<1> HIDE DEF L
<1>4. DOMAIN s = 0..L /\ s = [n \in 0..L |-> s[n]]
  BY <1>3
<1>5. s[0] = 0 /\ \A n \in 1..L : s[n] = s[n - 1] + l[n].amount
  BY <1>1, <1>3
<1>6. \A n \in Nat : n <= L => s[n] \in Nat
  <2> DEFINE T == {n \in Nat : n <= L => s[n] \in Nat}
  <2>1. 0 \in T
    BY <1>5
  <2>2. ASSUME NEW n \in Nat, n \in T PROVE n + 1 \in T
    <3> SUFFICES ASSUME n + 1 <= L PROVE s[n + 1] \in Nat
      OBVIOUS
    <3>1. n + 1 \in 1..L /\ n + 1 - 1 = n /\ s[n] \in Nat
      BY <1>1, <2>2
    <3>2. QED
      BY <1>1, <1>5, <3>1
  <2> HIDE DEF T
  <2>3. \A n \in Nat : n \in T
    BY <2>1, <2>2, OneByOne
  <2>4. QED
    BY <2>3 DEF T
<1>7. s \in [0..L -> Nat]
  BY <1>1, <1>4, <1>6
<1>8. QED
  BY <1>3, <1>5, <1>7 DEF SumsUp, L

(* How many of the positions are among the first n. *)
Upto(X, n) == Cardinality(X \cap 1..n)

(* As the positions go by, the selection goes on by an entry where one is  *)
(* selected, and nowhere else.                                             *)
LEMMA SelectionGoesOn ==
  ASSUME NEW l \in Seq(Infos), NEW X, X \subseteq DOMAIN l,
         NEW s, SumsUp(s, Selection(l, X))
  PROVE  /\ Upto(X, 0) = 0 /\ Upto(X, Len(l)) = Cardinality(X)
         /\ \A n \in 0..Len(l) : Upto(X, n) \in Nat /\ s[Upto(X, n)] \in Nat
         /\ \A n \in 1..Len(l) : n \notin X => Upto(X, n) = Upto(X, n - 1)
         /\ \A n \in 1..Len(l) : n \in X =>
              s[Upto(X, n)] = s[Upto(X, n - 1)] + l[n].amount
<1> DEFINE sel == Selection(l, X)
<1>1. DOMAIN l = 1..Len(l) /\ Len(l) \in Nat
  OBVIOUS
<1>2. /\ IsFiniteSet(X) /\ X \subseteq Nat /\ Cardinality(X) \in Nat
      /\ sel = [i \in 1..Cardinality(X) |-> l[InOrder(X)[i]]]
      /\ Len(sel) = Cardinality(X)
  BY SelectionIsExact
<1>3. Upto(X, 0) = 0
  <2>1. X \cap 1..0 = {}
    OBVIOUS
  <2>2. QED
    BY <2>1, FS_EmptySet DEF Upto
<1>4. Upto(X, Len(l)) = Cardinality(X)
  <2>1. X \cap 1..Len(l) = X
    BY <1>1
  <2>2. QED
    BY <2>1 DEF Upto
<1>5. ASSUME NEW n \in Nat
      PROVE  /\ IsFiniteSet(X \cap 1..n) /\ Upto(X, n) \in Nat
             /\ Upto(X, n) <= Cardinality(X)
  <2>1. IsFiniteSet(X \cap 1..n) /\ Cardinality(X \cap 1..n) <= Cardinality(X)
    BY <1>2, FS_Intersection
  <2>2. Cardinality(X \cap 1..n) \in Nat
    BY <2>1, FS_CardinalityType
  <2>3. QED
    BY <2>1, <2>2 DEF Upto
<1>6. \A n \in 0..Len(l) : Upto(X, n) \in Nat /\ s[Upto(X, n)] \in Nat
  <2> SUFFICES ASSUME NEW n \in 0..Len(l)
               PROVE  Upto(X, n) \in Nat /\ s[Upto(X, n)] \in Nat
    OBVIOUS
  <2>1. n \in Nat
    BY <1>1
  <2>2. Upto(X, n) \in 0..Cardinality(X)
    <3>1. Upto(X, n) \in Nat /\ Upto(X, n) <= Cardinality(X)
      BY <1>5, <2>1
    <3>2. QED
      BY <1>2, <3>1
  <2>3. s \in [0..Cardinality(X) -> Nat]
    BY <1>2 DEF SumsUp
  <2>4. QED
    BY <2>2, <2>3
<1>7. ASSUME NEW n \in 1..Len(l), n \notin X PROVE Upto(X, n) = Upto(X, n - 1)
  <2>1. \A k \in X : k \in 1..n <=> k \in 1..(n - 1)
    BY <1>2, <1>7
  <2>2. X \cap 1..n = X \cap 1..(n - 1)
    BY <2>1
  <2>3. QED
    BY <2>2 DEF Upto
<1>8. ASSUME NEW n \in 1..Len(l), n \in X
      PROVE  s[Upto(X, n)] = s[Upto(X, n - 1)] + l[n].amount
  <2>1. n - 1 \in Nat /\ n \in Nat
    BY <1>1
  <2>2. Preceding(X, n) = X \cap 1..(n - 1)
    <3>1. \A k \in X : k \in Nat /\ (k < n <=> k \in 1..(n - 1))
      BY <1>1, <1>2, <2>1
    <3>2. QED
      BY <3>1 DEF Preceding
  <2>3. X \cap 1..n = (X \cap 1..(n - 1)) \cup {n}
    <3>1. \A k \in X : k \in 1..n <=> k \in 1..(n - 1) \/ k = n
      BY <1>2, <2>1
    <3>2. QED
      BY <1>8, <3>1
  <2>4. n \notin X \cap 1..(n - 1)
    BY <2>1
  <2>5. Upto(X, n) = Upto(X, n - 1) + 1
    BY <1>5, <2>1, <2>3, <2>4, FS_AddElement DEF Upto
  <2>6. Upto(X, n) \in 1..Cardinality(X) /\ InOrder(X)[Upto(X, n)] = n
    <3>1. /\ Cardinality(Preceding(X, n)) + 1 \in 1..Cardinality(X)
          /\ InOrder(X)[Cardinality(Preceding(X, n)) + 1] = n
      BY <1>2, <1>8, InOrderIsOrder
    <3>2. Cardinality(Preceding(X, n)) + 1 = Upto(X, n)
      BY <2>2, <2>5 DEF Upto
    <3>3. QED
      BY <3>1, <3>2
  <2>7. sel[Upto(X, n)] = l[n]
    BY <1>2, <2>6
  <2>8. s[Upto(X, n)] = s[Upto(X, n) - 1] + sel[Upto(X, n)].amount
    BY <1>2, <2>6 DEF SumsUp
  <2>9. Upto(X, n) - 1 = Upto(X, n - 1)
    <3>1. Upto(X, n - 1) \in Nat
      BY <1>5, <2>1
    <3>2. QED
      BY <2>5, <3>1
  <2>10. QED
    BY <2>7, <2>8, <2>9
<1>9. QED
  BY <1>3, <1>4, <1>6, <1>7, <1>8

(* The volumes of two parts add up. *)
LEMMA VolumesAddUp ==
  ASSUME NEW l \in Seq(Infos), NEW Q, NEW R, Q \cup R \subseteq DOMAIN l, Q \cap R = {}
  PROVE  Volume(Selection(l, Q \cup R)) = Volume(Selection(l, Q)) + Volume(Selection(l, R))
<1> DEFINE P == Q \cup R
           L == Len(l)
<1>1. L \in Nat /\ \A n \in 1..L : l[n].amount \in Nat
  BY InfoIsTyped
<1>2. \A X : X \subseteq DOMAIN l =>
        \E s : /\ SumsUp(s, Selection(l, X))
               /\ Volume(Selection(l, X)) = s[Cardinality(X)]
  <2>1. ASSUME NEW X, X \subseteq DOMAIN l
        PROVE  \E s : /\ SumsUp(s, Selection(l, X))
                      /\ Volume(Selection(l, X)) = s[Cardinality(X)]
    <3>1. Selection(l, X) \in Seq(Infos) /\ Len(Selection(l, X)) = Cardinality(X)
      BY <2>1, SelectionIsExact
    <3>2. PICK s : /\ SumsUp(s, Selection(l, X))
                   /\ Volume(Selection(l, X)) = s[Len(Selection(l, X))]
      BY <3>1, VolumeIsSum
    <3>3. QED
      BY <3>1, <3>2
  <2>2. QED
    BY <2>1
<1>3. P \subseteq DOMAIN l /\ Q \subseteq DOMAIN l /\ R \subseteq DOMAIN l
  OBVIOUS
<1>4. PICK p : /\ SumsUp(p, Selection(l, P))
               /\ Volume(Selection(l, P)) = p[Cardinality(P)]
  BY <1>2, <1>3
<1>5. PICK q : /\ SumsUp(q, Selection(l, Q))
               /\ Volume(Selection(l, Q)) = q[Cardinality(Q)]
  BY <1>2, <1>3
<1>6. PICK r : /\ SumsUp(r, Selection(l, R))
               /\ Volume(Selection(l, R)) = r[Cardinality(R)]
  BY <1>2, <1>3
<1>7. \A n \in 1..L : (n \in P <=> n \in Q \/ n \in R) /\ ~ (n \in Q /\ n \in R)
  OBVIOUS
<1> HIDE DEF P, L
<1>8. /\ Upto(P, 0) = 0 /\ Upto(P, L) = Cardinality(P)
      /\ \A n \in 0..L : p[Upto(P, n)] \in Nat
      /\ \A n \in 1..L : n \notin P => Upto(P, n) = Upto(P, n - 1)
      /\ \A n \in 1..L : n \in P => p[Upto(P, n)] = p[Upto(P, n - 1)] + l[n].amount
  BY <1>3, <1>4, SelectionGoesOn DEF L
<1>9. /\ Upto(Q, 0) = 0 /\ Upto(Q, L) = Cardinality(Q)
      /\ \A n \in 0..L : q[Upto(Q, n)] \in Nat
      /\ \A n \in 1..L : n \notin Q => Upto(Q, n) = Upto(Q, n - 1)
      /\ \A n \in 1..L : n \in Q => q[Upto(Q, n)] = q[Upto(Q, n - 1)] + l[n].amount
  BY <1>3, <1>5, SelectionGoesOn DEF L
<1>10. /\ Upto(R, 0) = 0 /\ Upto(R, L) = Cardinality(R)
       /\ \A n \in 0..L : r[Upto(R, n)] \in Nat
       /\ \A n \in 1..L : n \notin R => Upto(R, n) = Upto(R, n - 1)
       /\ \A n \in 1..L : n \in R => r[Upto(R, n)] = r[Upto(R, n - 1)] + l[n].amount
  BY <1>3, <1>6, SelectionGoesOn DEF L
<1> DEFINE Even(n) == p[Upto(P, n)] = q[Upto(Q, n)] + r[Upto(R, n)]
           T == {n \in Nat : n <= L => Even(n)}
<1>11. 0 \in T
  <2>1. p[0] = 0 /\ q[0] = 0 /\ r[0] = 0
    BY <1>4, <1>5, <1>6 DEF SumsUp
  <2>2. QED
    BY <1>8, <1>9, <1>10, <2>1
<1>12. ASSUME NEW n \in Nat, n \in T PROVE n + 1 \in T
  <2> SUFFICES ASSUME n + 1 <= L PROVE Even(n + 1)
    OBVIOUS
  <2>1. n + 1 \in 1..L /\ n + 1 - 1 = n /\ n \in 0..L
    BY <1>1
  <2>2. PICK pn \in Nat, qn \in Nat, rn \in Nat :
          pn = p[Upto(P, n)] /\ qn = q[Upto(Q, n)] /\ rn = r[Upto(R, n)]
    BY <1>8, <1>9, <1>10, <2>1
  <2>3. pn = qn + rn
    BY <1>1, <1>12, <2>1, <2>2
  <2>4. PICK a \in Nat : a = l[n + 1].amount
    BY <1>1, <2>1
  <2>5. p[Upto(P, n + 1)] = IF n + 1 \in P THEN pn + a ELSE pn
    BY <1>8, <2>1, <2>2, <2>4
  <2>6. q[Upto(Q, n + 1)] = IF n + 1 \in Q THEN qn + a ELSE qn
    BY <1>9, <2>1, <2>2, <2>4
  <2>7. r[Upto(R, n + 1)] = IF n + 1 \in R THEN rn + a ELSE rn
    BY <1>10, <2>1, <2>2, <2>4
  <2>8. QED
    BY <1>7, <2>1, <2>3, <2>5, <2>6, <2>7
<1> HIDE DEF T, Even
<1>13. L \in T
  BY <1>1, <1>11, <1>12, OneByOne
<1>14. Even(L)
  BY <1>1, <1>13 DEF T
<1>15. QED
  BY <1>4, <1>5, <1>6, <1>8, <1>9, <1>10, <1>14 DEF Even, P

(* The buyers of a selection are those of its positions, finitely many. *)
BuyersAt(l, X) == {l[j].buyerId : j \in X}

LEMMA BuyersOfSelection ==
  ASSUME NEW l \in Seq(Infos), NEW X, X \subseteq DOMAIN l
  PROVE  /\ {Selection(l, X)[i].buyerId : i \in DOMAIN Selection(l, X)} = BuyersAt(l, X)
         /\ IsFiniteSet(BuyersAt(l, X)) /\ Cardinality(BuyersAt(l, X)) \in Nat
<1>1. /\ IsFiniteSet(X) /\ InOrder(X) \in [1..Cardinality(X) -> X]
      /\ Selection(l, X) = [i \in 1..Cardinality(X) |-> l[InOrder(X)[i]]]
      /\ \A j \in X : \E i \in 1..Cardinality(X) : InOrder(X)[i] = j
  BY SelectionIsExact
<1>2. {Selection(l, X)[i].buyerId : i \in DOMAIN Selection(l, X)} = BuyersAt(l, X)
  BY <1>1 DEF BuyersAt
<1> DEFINE b == [j \in X |-> l[j].buyerId]
<1>3. b \in Surjection(X, BuyersAt(l, X))
  <2>1. b \in [X -> BuyersAt(l, X)] /\ \A t \in BuyersAt(l, X) : \E j \in X : b[j] = t
    BY DEF BuyersAt
  <2>2. QED
    BY <2>1 DEF Surjection
<1>4. IsFiniteSet(BuyersAt(l, X))
  BY <1>1, <1>3, FS_Surjection
<1>5. QED
  BY <1>2, <1>4, FS_CardinalityType

TotalsOf(orders) ==
  [volume |-> Volume(orders), orders |-> Len(orders),
   buyers |-> Cardinality({orders[i].buyerId : i \in DOMAIN orders})]

(* The totals of two parts add up; a buyer in both counts twice. *)
LEMMA TotalsAddUp ==
  ASSUME NEW l \in Seq(Infos), NEW Q, NEW R, Q \cup R \subseteq DOMAIN l, Q \cap R = {}
  PROVE  LET all == TotalsOf(Selection(l, Q \cup R))
             one == TotalsOf(Selection(l, Q))
             two == TotalsOf(Selection(l, R))
         IN /\ all.volume = one.volume + two.volume
            /\ all.orders = one.orders + two.orders
            /\ all.buyers <= one.buyers + two.buyers
            /\ one.orders \in Nat /\ two.orders \in Nat
<1>1. Volume(Selection(l, Q \cup R)) = Volume(Selection(l, Q)) + Volume(Selection(l, R))
  BY VolumesAddUp
<1>2. /\ IsFiniteSet(Q) /\ Len(Selection(l, Q)) = Cardinality(Q) /\ Cardinality(Q) \in Nat
      /\ IsFiniteSet(R) /\ Len(Selection(l, R)) = Cardinality(R) /\ Cardinality(R) \in Nat
      /\ Len(Selection(l, Q \cup R)) = Cardinality(Q \cup R)
  BY SelectionIsExact
<1>3. Cardinality(Q \cup R) = Cardinality(Q) + Cardinality(R)
  <2>1. Cardinality(Q \cap R) = 0
    BY FS_EmptySet
  <2>2. Cardinality(Q \cup R) = Cardinality(Q) + Cardinality(R) - Cardinality(Q \cap R)
    BY <1>2, FS_Union
  <2>3. PICK a \in Nat, b \in Nat : a = Cardinality(Q) /\ b = Cardinality(R)
    BY <1>2
  <2>4. a + b - 0 = a + b
    OBVIOUS
  <2>5. QED
    BY <2>1, <2>2, <2>3, <2>4
<1>4. ASSUME NEW X, X \subseteq DOMAIN l
      PROVE  /\ TotalsOf(Selection(l, X)).buyers = Cardinality(BuyersAt(l, X))
             /\ IsFiniteSet(BuyersAt(l, X)) /\ Cardinality(BuyersAt(l, X)) \in Nat
  <2>1. TotalsOf(Selection(l, X)).buyers =
          Cardinality({Selection(l, X)[i].buyerId : i \in DOMAIN Selection(l, X)})
    BY DEF TotalsOf
  <2>2. QED
    BY <1>4, <2>1, BuyersOfSelection
<1>5. Cardinality(BuyersAt(l, Q \cup R)) <=
        Cardinality(BuyersAt(l, Q)) + Cardinality(BuyersAt(l, R))
  <2>1. /\ IsFiniteSet(BuyersAt(l, Q)) /\ Cardinality(BuyersAt(l, Q)) \in Nat
        /\ IsFiniteSet(BuyersAt(l, R)) /\ Cardinality(BuyersAt(l, R)) \in Nat
    BY <1>4
  <2>2. BuyersAt(l, Q \cup R) = BuyersAt(l, Q) \cup BuyersAt(l, R)
    BY DEF BuyersAt
  <2>3. IsFiniteSet(BuyersAt(l, Q) \cap BuyersAt(l, R))
    BY <2>1, FS_Intersection
  <2>4. Cardinality(BuyersAt(l, Q) \cap BuyersAt(l, R)) \in Nat
    BY <2>3, FS_CardinalityType
  <2>5. Cardinality(BuyersAt(l, Q) \cup BuyersAt(l, R)) =
          Cardinality(BuyersAt(l, Q)) + Cardinality(BuyersAt(l, R))
            - Cardinality(BuyersAt(l, Q) \cap BuyersAt(l, R))
    BY <2>1, FS_Union
  <2>6. PICK a \in Nat, b \in Nat, c \in Nat :
          /\ a = Cardinality(BuyersAt(l, Q)) /\ b = Cardinality(BuyersAt(l, R))
          /\ c = Cardinality(BuyersAt(l, Q) \cap BuyersAt(l, R))
    BY <2>1, <2>4
  <2>7. a + b - c <= a + b
    OBVIOUS
  <2>8. QED
    BY <2>2, <2>5, <2>6, <2>7
<1>6. /\ TotalsOf(Selection(l, Q \cup R)).buyers = Cardinality(BuyersAt(l, Q \cup R))
      /\ TotalsOf(Selection(l, Q)).buyers = Cardinality(BuyersAt(l, Q))
      /\ TotalsOf(Selection(l, R)).buyers = Cardinality(BuyersAt(l, R))
  BY <1>4
<1>7. \A s : TotalsOf(s).volume = Volume(s) /\ TotalsOf(s).orders = Len(s)
  BY DEF TotalsOf
<1>8. QED
  BY <1>1, <1>2, <1>3, <1>5, <1>6, <1>7

(* The positions of the orders that a filter keeps. *)
Kept(l, f) == {i \in DOMAIN l : Matches(l[i], f)}

(* The statistics are the totals of what the filter keeps. *)
LEMMA StatisticsAreTotals ==
  ASSUME NEW l, NEW f
  PROVE  Statistics(l, f) = TotalsOf(Selection(l, Kept(l, f)))
BY DEF Statistics, Filtered, Kept, TotalsOf

(* A filter with one more condition on it. *)
LEMMA NarrowedFilter ==
  ASSUME NEW f \in Options, NEW v
  PROVE  /\ LET g == [f EXCEPT !.status = v] IN
              g.status = v /\ g.min = f.min /\ g.max = f.max /\ g.buyer = f.buyer
         /\ LET g == [f EXCEPT !.min = v] IN
              g.status = f.status /\ g.min = v /\ g.max = f.max /\ g.buyer = f.buyer
         /\ LET g == [f EXCEPT !.max = v] IN
              g.status = f.status /\ g.min = f.min /\ g.max = v /\ g.buyer = f.buyer
<1>1. DOMAIN f = {"status", "min", "max", "buyer"}
  BY OrdersAssumption
<1>2. QED
  BY <1>1

(* The orders of a list that are paid are those that a filter for paid     *)
(* orders keeps.                                                           *)
LEMMA PaidAmongKept ==
  ASSUME NEW l \in Seq(Infos), NEW f \in Options, f.status = {}
  PROVE  Len(FetchPaidOrders(Filtered(l, f))) =
           Cardinality({i \in Kept(l, f) : l[i].status = "Paid"})
<1> DEFINE P == Kept(l, f)
           sel == Filtered(l, f)
           A == {i \in DOMAIN sel : sel[i].status = "Paid"}
           B == {i \in P : l[i].status = "Paid"}
           at == InOrder(P)
<1>1. P \subseteq DOMAIN l /\ sel = Selection(l, P)
  BY DEF Kept, Filtered
<1> HIDE DEF P, sel
<1>2. /\ IsFiniteSet(P) /\ Cardinality(P) \in Nat /\ P \subseteq Nat
      /\ at \in [1..Cardinality(P) -> P]
      /\ sel = [i \in 1..Cardinality(P) |-> l[at[i]]]
      /\ sel \in Seq(Infos) /\ DOMAIN sel = 1..Cardinality(P)
      /\ \A j \in P : \E i \in 1..Cardinality(P) : at[i] = j
  BY <1>1, SelectionIsExact
<1>3. \A i, j \in 1..Cardinality(P) : i < j => at[i] < at[j]
  BY <1>2, InOrderIsOrder
<1> HIDE DEF at
<1>4. Len(FetchPaidOrders(sel)) = Cardinality(A)
  BY <1>2, SelectionIsExact DEF FetchPaidOrders
<1>5. A \subseteq 1..Cardinality(P) /\ \A i \in A : at[i] \in B
  BY <1>2
<1> DEFINE m == [i \in A |-> at[i]]
<1>6. m \in [A -> B]
  BY <1>5
<1>7. \A i, j \in A : m[i] = m[j] => i = j
  <2> SUFFICES ASSUME NEW i \in A, NEW j \in A, m[i] = m[j] PROVE i = j
    OBVIOUS
  <2>1. /\ i \in 1..Cardinality(P) /\ j \in 1..Cardinality(P) /\ at[i] = at[j]
        /\ at[i] \in Nat
    BY <1>2, <1>5
  <2>2. ~ (i < j) /\ ~ (j < i)
    BY <1>3, <2>1
  <2>3. QED
    BY <2>1, <2>2
<1>8. \A j \in B : \E i \in A : m[i] = j
  <2> SUFFICES ASSUME NEW j \in B PROVE \E i \in A : m[i] = j
    OBVIOUS
  <2>1. PICK i \in 1..Cardinality(P) : at[i] = j
    BY <1>2
  <2>2. i \in A
    BY <1>2, <2>1
  <2>3. QED
    BY <2>1, <2>2
<1> HIDE DEF m
<1>9. m \in Bijection(A, B)
  BY <1>6, <1>7, <1>8 DEF Bijection, Injection, Surjection, IsInjective
<1>10. IsFiniteSet(A)
  <2>1. IsFiniteSet(1..Cardinality(P))
    BY <1>2, FS_Interval
  <2>2. QED
    BY <1>5, <2>1, FS_Subset
<1> HIDE DEF A, B
<1>11. Cardinality(B) = Cardinality(A)
  BY <1>9, <1>10, FS_Bijection DEF ExistsBijection
<1>12. QED
  BY <1>4, <1>11 DEF B, P, sel

(* The statistics of the paid, the closed and the refunded orders add up.  *)
LEMMA StatusesAddUp ==
  ASSUME NEW l \in Seq(Infos), NEW f \in Options, f.status = {}
  PROVE  LET Having(s) == Statistics(l, [f EXCEPT !.status = {s}]) IN
         /\ Statistics(l, f).orders = Having("Paid").orders + Having("Closed").orders
                                        + Having("Refunded").orders
         /\ Len(FetchPaidOrders(Filtered(l, f))) = Having("Paid").orders
<1> DEFINE Those(s) == {i \in Kept(l, f) : l[i].status = s}
           Part(s) == TotalsOf(Selection(l, Those(s)))
<1>1. ASSUME NEW s
      PROVE  Statistics(l, [f EXCEPT !.status = {s}]) = Part(s)
  <2>1. PICK g : g = [f EXCEPT !.status = {s}]
    OBVIOUS
  <2>2. Statistics(l, g) = TotalsOf(Selection(l, Kept(l, g)))
    BY StatisticsAreTotals
  <2>3. Kept(l, g) = Those(s)
    <3>1. g.status = {s} /\ g.min = f.min /\ g.max = f.max /\ g.buyer = f.buyer
      BY <2>1, NarrowedFilter
    <3>2. \A i : i \in Kept(l, g) <=> i \in Kept(l, f) /\ l[i].status = s
      <4>1. \A order : Matches(order, g) <=> Matches(order, f) /\ order.status = s
        BY <3>1 DEF Matches, InStatus, AmountWithin
      <4>2. QED
        BY <4>1 DEF Kept
    <3>3. QED
      BY <3>2
  <2> HIDE DEF Those
  <2>4. QED
    BY <2>1, <2>2, <2>3
<1>2. Kept(l, f) \subseteq DOMAIN l /\ \A s : Those(s) \subseteq DOMAIN l
  <2>1. Kept(l, f) \subseteq DOMAIN l
    BY DEF Kept
  <2>2. \A s : Those(s) \subseteq Kept(l, f)
    OBVIOUS
  <2> HIDE DEF Those
  <2>3. QED
    BY <2>1, <2>2
<1>3. \A i \in DOMAIN l : l[i].status \in {"Paid", "Closed", "Refunded"}
  BY InfoIsTyped DEF Statuses
<1>4. Kept(l, f) = Those("Paid") \cup (Those("Closed") \cup Those("Refunded"))
  BY <1>2, <1>3
<1>5. /\ Those("Paid") \cap (Those("Closed") \cup Those("Refunded")) = {}
      /\ Those("Closed") \cap Those("Refunded") = {}
  OBVIOUS
<1>6. Statistics(l, f) = TotalsOf(Selection(l, Kept(l, f)))
  BY StatisticsAreTotals
<1>7. Len(FetchPaidOrders(Filtered(l, f))) = Part("Paid").orders
  <2>1. Len(FetchPaidOrders(Filtered(l, f))) = Cardinality(Those("Paid"))
    BY PaidAmongKept
  <2>2. Len(Selection(l, Those("Paid"))) = Cardinality(Those("Paid"))
    BY <1>2, SelectionIsExact
  <2>3. QED
    BY <2>1, <2>2 DEF TotalsOf
<1> HIDE DEF Those
<1>8. PICK a, b, c : a = Those("Paid") /\ b = Those("Closed") /\ c = Those("Refunded")
  OBVIOUS
<1>9. /\ a \cup (b \cup c) \subseteq DOMAIN l /\ b \cup c \subseteq DOMAIN l
      /\ a \cap (b \cup c) = {} /\ b \cap c = {}
      /\ Kept(l, f) = a \cup (b \cup c)
  BY <1>2, <1>4, <1>5, <1>8
<1>10. /\ TotalsOf(Selection(l, a \cup (b \cup c))).orders =
            TotalsOf(Selection(l, a)).orders + TotalsOf(Selection(l, b \cup c)).orders
       /\ TotalsOf(Selection(l, a)).orders \in Nat
  BY <1>9, TotalsAddUp
<1>11. /\ TotalsOf(Selection(l, b \cup c)).orders =
            TotalsOf(Selection(l, b)).orders + TotalsOf(Selection(l, c)).orders
       /\ TotalsOf(Selection(l, b)).orders \in Nat /\ TotalsOf(Selection(l, c)).orders \in Nat
  BY <1>9, TotalsAddUp
<1>12. Statistics(l, f).orders =
         Part("Paid").orders + Part("Closed").orders + Part("Refunded").orders
  BY <1>6, <1>8, <1>9, <1>10, <1>11
<1>13. QED
  BY <1>1, <1>7, <1>12

(* The statistics below a number and from it on add up. *)
LEMMA AmountsAddUp ==
  ASSUME NEW l \in Seq(Infos), NEW f \in Options, f.min = {}, f.max = {}, NEW n \in 1..MaxInt
  PROVE  LET all  == Statistics(l, f)
             low  == Statistics(l, [f EXCEPT !.max = {n - 1}])
             high == Statistics(l, [f EXCEPT !.min = {n}])
         IN /\ all.volume = low.volume + high.volume
            /\ all.orders = low.orders + high.orders
            /\ all.buyers <= low.buyers + high.buyers
<1> DEFINE g == [f EXCEPT !.max = {n - 1}]
           h == [f EXCEPT !.min = {n}]
<1>1. n \in Nat
  BY OrdersAssumption
<1>2. /\ g.status = f.status /\ g.min = {} /\ g.max = {n - 1} /\ g.buyer = f.buyer
      /\ h.status = f.status /\ h.min = {n} /\ h.max = {} /\ h.buyer = f.buyer
  BY NarrowedFilter
<1> HIDE DEF g, h
<1>3. ASSUME NEW i \in DOMAIN l
      PROVE  /\ Matches(l[i], g) <=> Matches(l[i], f) /\ l[i].amount <= n - 1
             /\ Matches(l[i], h) <=> Matches(l[i], f) /\ l[i].amount >= n
             /\ l[i].amount <= n - 1 <=> ~ (l[i].amount >= n)
  <2>1. l[i].amount \in Nat
    BY InfoIsTyped
  <2>2. l[i].amount <= n - 1 <=> ~ (l[i].amount >= n)
    BY <1>1, <2>1
  <2>3. Matches(l[i], g) <=> Matches(l[i], f) /\ l[i].amount <= n - 1
    BY <1>2 DEF Matches, InStatus, AmountWithin
  <2>4. Matches(l[i], h) <=> Matches(l[i], f) /\ l[i].amount >= n
    BY <1>2 DEF Matches, InStatus, AmountWithin
  <2>5. QED
    BY <2>2, <2>3, <2>4
<1>4. /\ Kept(l, f) = Kept(l, g) \cup Kept(l, h) /\ Kept(l, g) \cap Kept(l, h) = {}
      /\ Kept(l, f) \subseteq DOMAIN l
  BY <1>3 DEF Kept
<1>5. /\ Statistics(l, f) = TotalsOf(Selection(l, Kept(l, g) \cup Kept(l, h)))
      /\ Statistics(l, g) = TotalsOf(Selection(l, Kept(l, g)))
      /\ Statistics(l, h) = TotalsOf(Selection(l, Kept(l, h)))
  BY <1>4, StatisticsAreTotals
<1>6. /\ Statistics(l, f).volume = Statistics(l, g).volume + Statistics(l, h).volume
      /\ Statistics(l, f).orders = Statistics(l, g).orders + Statistics(l, h).orders
      /\ Statistics(l, f).buyers <= Statistics(l, g).buyers + Statistics(l, h).buyers
  <2>1. PICK q, r : q = Kept(l, g) /\ r = Kept(l, h)
    OBVIOUS
  <2>2. q \cup r \subseteq DOMAIN l /\ q \cap r = {}
    BY <1>4, <2>1
  <2>3. /\ TotalsOf(Selection(l, q \cup r)).volume =
             TotalsOf(Selection(l, q)).volume + TotalsOf(Selection(l, r)).volume
        /\ TotalsOf(Selection(l, q \cup r)).orders =
             TotalsOf(Selection(l, q)).orders + TotalsOf(Selection(l, r)).orders
        /\ TotalsOf(Selection(l, q \cup r)).buyers <=
             TotalsOf(Selection(l, q)).buyers + TotalsOf(Selection(l, r)).buyers
        /\ TotalsOf(Selection(l, q)).orders \in Nat
        /\ TotalsOf(Selection(l, r)).orders \in Nat
    <3>1. l \in Seq(Infos)
      OBVIOUS
    <3>2. QED
      BY ONLY <3>1, <2>2, TotalsAddUp
  <2>4. /\ Statistics(l, f) = TotalsOf(Selection(l, q \cup r))
        /\ Statistics(l, g) = TotalsOf(Selection(l, q))
        /\ Statistics(l, h) = TotalsOf(Selection(l, r))
    BY ONLY <1>5, <2>1
  <2>5. QED
    BY ONLY <2>3, <2>4
<1>7. QED
  BY <1>6 DEF g, h

(* calculate_statistics counts nothing twice and leaves nothing out: for   *)
(* every list and every filter, what it says of the parts into which a     *)
(* status or an amount splits the list adds up to what it says of all.     *)
THEOREM PartsMakeTheWhole == Spec => []StatisticsAddUp
<1>1. ASSUME OrdersInv PROVE StatisticsAddUp
  <2>1. \A l \in list : l \in Seq(Infos)
    BY <1>1 DEF OrdersInv, ListTrue
  <2>2. QED
    BY <2>1, StatusesAddUp, AmountsAddUp DEF StatisticsAddUp
<1>2. QED
  BY <1>1, ReadsStayTrue, PTL
-----------------------------------------------------------------------------
(* The category tree.                                                      *)

(* The nodes of a home page: the body first, every other below an earlier  *)
(* one that may hold it.                                                   *)
DocInv ==
  /\ doc \in Seq([kind : DOMAIN Holds, parent : Nat]) /\ doc # << >>
  /\ doc[1] = [kind |-> "body", parent |-> 0]
  /\ \A n \in DOMAIN doc : n # 1 =>
       /\ doc[n].parent \in 1..(n - 1)
       /\ doc[n].kind \in Holds[doc[doc[n].parent].kind]

(* Every page that the site builds is such a one. *)
LEMMA PagesAreNested == TreeSpec => []DocInv
<1>1. TreeInit => DocInv
  <2> SUFFICES ASSUME TreeInit PROVE DocInv
    OBVIOUS
  <2>1. doc = << [kind |-> "body", parent |-> 0] >>
    BY DEF TreeInit, Page
  <2>2. [kind |-> "body", parent |-> 0] \in [kind : DOMAIN Holds, parent : Nat]
    BY DEF Holds
  <2>3. QED
    BY <2>1, <2>2 DEF DocInv
<1>2. ASSUME DocInv, [TreeNext]_doc PROVE DocInv'
  <2>1. CASE UNCHANGED doc
    BY <1>2, <2>1 DEF DocInv
  <2>2. ASSUME NEW kind \in DOMAIN Holds, NEW parent \in DOMAIN doc, Grow(kind, parent)
        PROVE  DocInv'
    <3> DEFINE node == [kind |-> kind, parent |-> parent]
    <3>1. /\ doc \in Seq([kind : DOMAIN Holds, parent : Nat]) /\ doc # << >>
          /\ doc[1] = [kind |-> "body", parent |-> 0]
          /\ \A n \in DOMAIN doc : n # 1 =>
               /\ doc[n].parent \in 1..(n - 1)
               /\ doc[n].kind \in Holds[doc[doc[n].parent].kind]
      BY <1>2 DEF DocInv
    <3>2. doc' = Append(doc, node) /\ kind \in Holds[doc[parent].kind]
      BY <2>2 DEF Grow
    <3>3. parent \in 1..Len(doc) /\ Len(doc) \in Nat /\ DOMAIN doc = 1..Len(doc)
      BY <3>1
    <3>4. node \in [kind : DOMAIN Holds, parent : Nat]
      BY <3>3
    <3>5. doc' \in Seq([kind : DOMAIN Holds, parent : Nat]) /\ DOMAIN doc' = 1..(Len(doc) + 1)
      BY <3>1, <3>2, <3>4
    <3>6. /\ \A n \in 1..Len(doc) : doc'[n] = doc[n]
          /\ doc'[Len(doc) + 1].kind = kind /\ doc'[Len(doc) + 1].parent = parent
      BY <3>1, <3>2, <3>4
    <3>7. Len(doc) >= 1 /\ doc'[1] = [kind |-> "body", parent |-> 0] /\ doc' # << >>
      BY <3>1, <3>3, <3>5, <3>6
    <3>8. ASSUME NEW n \in 1..(Len(doc) + 1), n # 1
          PROVE  /\ doc'[n].parent \in 1..(n - 1)
                 /\ doc'[n].kind \in Holds[doc'[doc'[n].parent].kind]
      <4>1. CASE n = Len(doc) + 1
        BY <3>2, <3>3, <3>6, <4>1
      <4>2. CASE n # Len(doc) + 1
        <5>1. n \in 1..Len(doc) /\ doc'[n] = doc[n]
          BY <3>3, <3>6, <4>2
        <5>2. doc[n].parent \in 1..(n - 1) /\ doc[n].kind \in Holds[doc[doc[n].parent].kind]
          BY <3>1, <3>3, <3>8, <5>1
        <5>3. doc[n].parent \in 1..Len(doc)
          BY <3>3, <5>1, <5>2
        <5>4. doc'[doc[n].parent] = doc[doc[n].parent]
          BY <3>6, <5>3
        <5>5. QED
          BY <5>1, <5>2, <5>4
      <4>3. QED
        BY <4>1, <4>2
    <3>9. QED
      BY <3>5, <3>7, <3>8 DEF DocInv
  <2>3. QED
    BY <1>2, <2>1, <2>2 DEF TreeNext
<1>3. QED
  BY <1>1, <1>2, PTL DEF TreeSpec

(* The nodes above a node: the one it is in, and those above that. *)
LEMMA AboveIsChain ==
  ASSUME DocInv
  PROVE  \A n \in DOMAIN doc :
           Above[n] = IF doc[n].parent = 0 THEN {} ELSE {doc[n].parent} \cup Above[doc[n].parent]
<1> DEFINE L == Len(doc)
           Step(u, n) == IF doc[n].parent = 0 THEN {} ELSE {doc[n].parent} \cup u[doc[n].parent]
           Chains(k, u) == DOMAIN u = 1..k /\ \A n \in 1..k : u[n] = Step(u, n)
           T == {k \in Nat : k <= L => \E u : Chains(k, u)}
<1>1. L \in Nat /\ DOMAIN doc = 1..L /\ \A n \in 1..L : doc[n].parent \in 0..(n - 1)
  <2>1. L \in Nat /\ DOMAIN doc = 1..L /\ doc[1].parent = 0
    BY DEF DocInv
  <2>2. \A n \in 1..L : n # 1 => doc[n].parent \in 1..(n - 1)
    BY <2>1 DEF DocInv
  <2>3. QED
    BY <2>1, <2>2
<1> HIDE DEF L, Step, Chains
<1>2. 0 \in T
  <2>1. Chains(0, [n \in 1..0 |-> {}])
    BY DEF Chains
  <2>2. QED
    BY <2>1
<1>3. ASSUME NEW k \in Nat, k \in T PROVE k + 1 \in T
  <2> SUFFICES ASSUME k + 1 <= L PROVE \E v : Chains(k + 1, v)
    OBVIOUS
  <2>1. PICK u : Chains(k, u)
    BY <1>1, <1>3
  <2> DEFINE v == [n \in 1..(k + 1) |-> IF n = k + 1 THEN Step(u, k + 1) ELSE u[n]]
  <2>2. ASSUME NEW n \in 1..(k + 1) PROVE v[n] = Step(v, n)
    <3>1. n \in 1..L /\ doc[n].parent \in 0..(n - 1)
      BY <1>1
    <3>2. doc[n].parent # 0 => v[doc[n].parent] = u[doc[n].parent]
      BY <3>1
    <3>3. Step(v, n) = Step(u, n)
      BY <3>2 DEF Step
    <3>4. v[n] = Step(u, n)
      <4>1. CASE n = k + 1
        BY <4>1
      <4>2. CASE n # k + 1
        <5>1. n \in 1..k /\ v[n] = u[n]
          BY <4>2
        <5>2. QED
          BY <2>1, <5>1 DEF Chains
      <4>3. QED
        BY <4>1, <4>2
    <3>5. QED
      BY <3>3, <3>4
  <2>3. Chains(k + 1, v)
    BY <2>2 DEF Chains
  <2> HIDE DEF v
  <2>4. QED
    BY <2>3
<1> HIDE DEF T
<1>4. L \in T
  BY <1>1, <1>2, <1>3, OneByOne
<1> DEFINE Fixed(u) == u = [n \in DOMAIN doc |-> Step(u, n)]
<1>5. \E u : Fixed(u)
  <2>1. PICK u : DOMAIN u = 1..L /\ \A n \in 1..L : u[n] = Step(u, n)
    BY <1>1, <1>4 DEF T, Chains
  <2>2. Fixed([n \in DOMAIN doc |-> u[n]])
    <3> DEFINE w == [n \in DOMAIN doc |-> u[n]]
    <3>1. \A n \in DOMAIN doc : doc[n].parent # 0 => doc[n].parent \in DOMAIN doc
      BY <1>1
    <3>2. \A n \in DOMAIN doc : Step(w, n) = Step(u, n)
      BY <3>1 DEF Step
    <3>3. \A n \in DOMAIN doc : u[n] = Step(w, n)
      BY <1>1, <2>1, <3>2
    <3>4. QED
      BY <3>3
  <2> HIDE DEF Fixed
  <2>3. QED
    BY <2>2
<1>6. Fixed(Above)
  <2>1. Above = CHOOSE u : Fixed(u)
    BY DEF Above, Step
  <2> HIDE DEF Fixed
  <2>2. QED
    BY <1>5, <2>1
<1>7. QED
  BY <1>6 DEF Step

(* Nodes and their parents. *)
LEMMA ParentsAreNodes ==
  ASSUME DocInv
  PROVE  /\ DOMAIN doc \subseteq Nat \ {0} /\ IsFiniteSet(DOMAIN doc) /\ 1 \in DOMAIN doc
         /\ \A n \in DOMAIN doc : doc[n].kind \in DOMAIN Holds
         /\ doc[1].kind = "body" /\ doc[1].parent = 0
         /\ \A n \in DOMAIN doc : n # 1 =>
              /\ doc[n].parent \in DOMAIN doc /\ doc[n].parent < n
              /\ doc[n].kind \in Holds[doc[doc[n].parent].kind]
<1> DEFINE L == Len(doc)
<1>1. L \in Nat /\ L >= 1 /\ DOMAIN doc = 1..L
  BY DEF DocInv
<1>2. IsFiniteSet(DOMAIN doc)
  BY <1>1, FS_Interval
<1>3. \A n \in DOMAIN doc : doc[n].kind \in DOMAIN Holds
  <2>1. PICK R : R = [kind : DOMAIN Holds, parent : Nat]
    OBVIOUS
  <2>2. doc \in Seq(R)
    BY <2>1 DEF DocInv
  <2>3. \A n \in DOMAIN doc : doc[n] \in R
    BY <2>2
  <2>4. QED
    BY <2>1, <2>3
<1>4. doc[1].kind = "body" /\ doc[1].parent = 0
  BY DEF DocInv
<1>5. ASSUME NEW n \in DOMAIN doc, n # 1
      PROVE  /\ doc[n].parent \in DOMAIN doc /\ doc[n].parent < n
             /\ doc[n].kind \in Holds[doc[doc[n].parent].kind]
  <2>1. doc[n].parent \in 1..(n - 1) /\ doc[n].kind \in Holds[doc[doc[n].parent].kind]
    BY <1>5 DEF DocInv
  <2> HIDE DEF L
  <2>2. QED
    BY <1>1, <2>1
<1>6. QED
  BY <1>1, <1>2, <1>3, <1>4, <1>5

(* What holds of a node when it holds of its parent holds of all. *)
LEMMA OverNodes ==
  ASSUME DocInv, NEW T, \A n \in DOMAIN doc : (n # 1 => doc[n].parent \in T) => n \in T
  PROVE  \A n \in DOMAIN doc : n \in T
<1> DEFINE S == {n \in Nat : n \in DOMAIN doc => n \in T}
<1>1. ASSUME NEW n \in Nat, \A m \in Nat : m < n => m \in S PROVE n \in S
  <2> SUFFICES ASSUME n \in DOMAIN doc PROVE n \in T
    OBVIOUS
  <2>1. n # 1 => doc[n].parent \in DOMAIN doc /\ doc[n].parent < n /\ doc[n].parent \in Nat
    BY ParentsAreNodes
  <2>2. n # 1 => doc[n].parent \in T
    BY <1>1, <2>1
  <2>3. QED
    BY <2>2
<1> HIDE DEF S
<1>2. \A n \in Nat : n \in S
  BY <1>1, FromTheSmaller
<1>3. QED
  BY <1>2, ParentsAreNodes DEF S

(* Above the body is nothing; above another node is its parent and what is *)
(* above that.                                                             *)
LEMMA AboveIs ==
  ASSUME DocInv
  PROVE  /\ Above[1] = {}
         /\ \A n \in DOMAIN doc : n # 1 =>
              Above[n] = {doc[n].parent} \cup Above[doc[n].parent]
<1>1. /\ 1 \in DOMAIN doc /\ doc[1].parent = 0
      /\ \A n \in DOMAIN doc : n # 1 => doc[n].parent # 0
  BY ParentsAreNodes
<1>2. QED
  BY <1>1, AboveIsChain

(* The nodes above a node come before it. *)
LEMMA AboveIsBefore ==
  ASSUME DocInv
  PROVE  \A n \in DOMAIN doc : \A m \in Above[n] : m \in DOMAIN doc /\ m < n
<1> DEFINE T == {n \in DOMAIN doc : \A m \in Above[n] : m \in DOMAIN doc /\ m < n}
<1>1. ASSUME NEW n \in DOMAIN doc, n # 1 => doc[n].parent \in T PROVE n \in T
  <2>1. CASE n = 1
    BY <2>1, AboveIs
  <2>2. CASE n # 1
    <3>1. PICK p \in DOMAIN doc : p = doc[n].parent /\ p < n /\ p \in T
      BY <1>1, <2>2, ParentsAreNodes
    <3>2. Above[n] = {p} \cup Above[p]
      BY <2>2, <3>1, AboveIs
    <3>3. DOMAIN doc \subseteq Nat
      BY ParentsAreNodes
    <3>4. ASSUME NEW m \in Above[p] PROVE m \in DOMAIN doc /\ m < n
      <4>1. m \in DOMAIN doc /\ m < p
        BY <3>1
      <4>2. m \in Nat /\ p \in Nat /\ n \in Nat
        BY <3>3, <4>1
      <4>3. QED
        BY <3>1, <4>1, <4>2
    <3>5. QED
      BY <3>1, <3>2, <3>4
  <2>3. QED
    BY <2>1, <2>2
<1> HIDE DEF T
<1>2. \A n \in DOMAIN doc : n \in T
  BY <1>1, OverNodes
<1>3. QED
  BY <1>2 DEF T

(* What is above a node above a node is above it. *)
LEMMA AboveIsTransitive ==
  ASSUME DocInv
  PROVE  \A n \in DOMAIN doc : \A m \in Above[n] : Above[m] \subseteq Above[n]
<1> DEFINE T == {n \in DOMAIN doc : \A m \in Above[n] : Above[m] \subseteq Above[n]}
<1>1. ASSUME NEW n \in DOMAIN doc, n # 1 => doc[n].parent \in T PROVE n \in T
  <2>1. CASE n = 1
    BY <2>1, AboveIs
  <2>2. CASE n # 1
    <3>1. Above[n] = {doc[n].parent} \cup Above[doc[n].parent] /\ doc[n].parent \in T
      BY <1>1, <2>2, AboveIs
    <3>2. QED
      BY <3>1
  <2>3. QED
    BY <2>1, <2>2
<1> HIDE DEF T
<1>2. \A n \in DOMAIN doc : n \in T
  BY <1>1, OverNodes
<1>3. QED
  BY <1>2 DEF T

(* Of two nodes above a node the later one is below the earlier. *)
LEMMA AboveIsLine ==
  ASSUME DocInv
  PROVE  \A n \in DOMAIN doc : \A x, y \in Above[n] : x < y => x \in Above[y]
<1> DEFINE T == {n \in DOMAIN doc : \A x, y \in Above[n] : x < y => x \in Above[y]}
<1>1. ASSUME NEW n \in DOMAIN doc, n # 1 => doc[n].parent \in T PROVE n \in T
  <2>1. CASE n = 1
    BY <2>1, AboveIs
  <2>2. CASE n # 1
    <3>1. PICK p \in DOMAIN doc : p = doc[n].parent /\ p \in T
      BY <1>1, <2>2, ParentsAreNodes
    <3>2. Above[n] = {p} \cup Above[p]
      BY <2>2, <3>1, AboveIs
    <3>3. ASSUME NEW x \in Above[n], NEW y \in Above[n], x < y PROVE x \in Above[y]
      <4>1. CASE y \in Above[p] /\ x = p
        <5>1. y < p /\ y \in Nat /\ p \in Nat
          BY <4>1, AboveIsBefore, ParentsAreNodes
        <5>2. QED
          BY <3>3, <4>1, <5>1
      <4>2. CASE x \in Above[p] /\ y \in Above[p]
        BY <3>1, <3>3, <4>2
      <4>3. CASE y = p /\ x = p
        <5>1. p \in Nat
          BY ParentsAreNodes
        <5>2. QED
          BY <3>3, <4>3, <5>1
      <4>4. CASE y = p /\ x \in Above[p]
        BY <4>4
      <4>5. QED
        BY <3>2, <4>1, <4>2, <4>3, <4>4
    <3>4. QED
      BY <3>3
  <2>3. QED
    BY <2>1, <2>2
<1> HIDE DEF T
<1>2. \A n \in DOMAIN doc : n \in T
  BY <1>1, OverNodes
<1>3. QED
  BY <1>2 DEF T

(* Between a node and one above it is a child of the latter, or the node   *)
(* is that child.                                                          *)
LEMMA WayDown ==
  ASSUME DocInv
  PROVE  \A n \in DOMAIN doc : \A m \in Above[n] :
           \E x \in DOMAIN doc : x # 1 /\ doc[x].parent = m /\ (x = n \/ x \in Above[n])
<1> DEFINE Child(n, m) ==
      \E x \in DOMAIN doc : x # 1 /\ doc[x].parent = m /\ (x = n \/ x \in Above[n])
           T == {n \in DOMAIN doc : \A m \in Above[n] : Child(n, m)}
<1>1. ASSUME NEW n \in DOMAIN doc, n # 1 => doc[n].parent \in T PROVE n \in T
  <2>1. CASE n = 1
    BY <2>1, AboveIs
  <2>2. CASE n # 1
    <3>1. PICK p \in DOMAIN doc : p = doc[n].parent /\ p \in T
      BY <1>1, <2>2, ParentsAreNodes
    <3>2. Above[n] = {p} \cup Above[p]
      BY <2>2, <3>1, AboveIs
    <3>3. ASSUME NEW m \in Above[n] PROVE Child(n, m)
      <4>1. CASE m = p
        BY <2>2, <3>1, <4>1
      <4>2. CASE m \in Above[p]
        <5>1. PICK x \in DOMAIN doc : x # 1 /\ doc[x].parent = m /\ (x = p \/ x \in Above[p])
          BY <3>1, <4>2
        <5>2. QED
          BY <3>2, <5>1
      <4>3. QED
        BY <3>2, <4>1, <4>2
    <3>4. QED
      BY <3>3
  <2>3. QED
    BY <2>1, <2>2
<1> HIDE DEF T
<1>2. \A n \in DOMAIN doc : n \in T
  BY <1>1, OverNodes
<1>3. QED
  BY <1>2 DEF T

(* The nodes below a node come after it, finitely many. *)
LEMMA BelowIs ==
  ASSUME DocInv, NEW n \in DOMAIN doc
  PROVE  /\ Below(n) \subseteq DOMAIN doc /\ Below(n) \subseteq Nat /\ IsFiniteSet(Below(n))
         /\ \A m \in Below(n) : n < m /\ m # 1 /\ (doc[m].parent = n \/ doc[m].parent \in Below(n))
<1>1. Below(n) \in SUBSET (DOMAIN doc)
  BY DEF Below
<1>2. IsFiniteSet(Below(n)) /\ Below(n) \subseteq Nat
  BY <1>1, ParentsAreNodes, FS_Subset
<1>3. ASSUME NEW m \in Below(n)
      PROVE  n < m /\ m # 1 /\ (doc[m].parent = n \/ doc[m].parent \in Below(n))
  <2>1. m \in DOMAIN doc /\ n \in Above[m]
    BY DEF Below
  <2>2. m # 1
    BY <2>1, AboveIs
  <2>3. n = doc[m].parent \/ n \in Above[doc[m].parent]
    BY <2>1, <2>2, AboveIs
  <2>4. doc[m].parent \in DOMAIN doc
    BY <2>1, <2>2, ParentsAreNodes
  <2>5. QED
    BY <2>1, <2>2, <2>3, <2>4, AboveIsBefore DEF Below
<1>4. QED
  BY <1>1, <1>2, <1>3

(* What is below a node below a node is below it. *)
LEMMA BelowIsTransitive ==
  ASSUME DocInv, NEW n \in DOMAIN doc, NEW m \in Below(n)
  PROVE  Below(m) \subseteq Below(n)
BY AboveIsTransitive DEF Below

(* The lists that hang below the parent of a link.                         *)
Inner(link) == Below(ItemOf(link)) \cap Of(Lists)

LinksIn(box) == Below(box) \cap Of(Links)

(* They are below the link's parent, and so below every container that the *)
(* link is in.                                                             *)
LEMMA InnerIsInside ==
  ASSUME DocInv, NEW box \in DOMAIN doc, NEW link \in LinksIn(box)
  PROVE  /\ link \in DOMAIN doc /\ link # 1 /\ ItemOf(link) \in DOMAIN doc
         /\ Below(ItemOf(link)) \subseteq Below(box)
         /\ Inner(link) # {} => /\ Min(Inner(link)) \in Inner(link)
                                /\ \A y \in Inner(link) : Min(Inner(link)) <= y
<1>1. /\ link \in DOMAIN doc /\ link # 1
      /\ doc[link].parent = box \/ doc[link].parent \in Below(box)
  BY BelowIs DEF LinksIn, Of
<1>2. ItemOf(link) \in DOMAIN doc
  BY <1>1, ParentsAreNodes DEF ItemOf
<1>3. Below(ItemOf(link)) \subseteq Below(box)
  BY <1>1, BelowIsTransitive DEF ItemOf
<1>4. Inner(link) \subseteq Nat
  BY <1>2, BelowIs DEF Inner
<1>5. QED
  BY <1>1, <1>2, <1>3, <1>4, MinIsLeast

NodeOf(told, link) ==
  [id |-> link, children |-> IF Inner(link) = {} THEN << >> ELSE told[Min(Inner(link))]]

NodesOf(told, box) ==
  [i \in 1..Cardinality(LinksIn(box)) |-> NodeOf(told, InOrder(LinksIn(box))[i])]

(* The links in a container, in order. *)
LEMMA LinksAreInOrder ==
  ASSUME DocInv, NEW box \in DOMAIN doc
  PROVE  /\ LinksIn(box) \subseteq Nat /\ IsFiniteSet(LinksIn(box))
         /\ Cardinality(LinksIn(box)) \in Nat
         /\ InOrder(LinksIn(box)) \in [1..Cardinality(LinksIn(box)) -> LinksIn(box)]
         /\ \A n \in LinksIn(box) :
              \E i \in 1..Cardinality(LinksIn(box)) : InOrder(LinksIn(box))[i] = n
<1>1. LinksIn(box) \in SUBSET Below(box)
  BY DEF LinksIn
<1>2. LinksIn(box) \subseteq Nat /\ IsFiniteSet(LinksIn(box))
  BY <1>1, BelowIs, FS_Subset
<1>3. QED
  BY <1>2, InOrderIsOrder, FS_CardinalityType

(* A set in order has none of its elements twice. *)
LEMMA InOrderOnce ==
  ASSUME NEW S, S \subseteq Nat, IsFiniteSet(S),
         NEW i \in 1..Cardinality(S), NEW j \in 1..Cardinality(S),
         InOrder(S)[i] = InOrder(S)[j]
  PROVE  i = j
<1>1. PICK order : order = InOrder(S)
  OBVIOUS
<1>2. order[i] \in Nat /\ order[j] \in Nat
  BY <1>1, InOrderIsOrder
<1>3. \A k, m \in 1..Cardinality(S) : k < m => order[k] < order[m]
  BY <1>1, InOrderIsOrder
<1>4. i \in Int /\ j \in Int
  OBVIOUS
<1>5. ~ (i < j)
  BY <1>1, <1>2, <1>3
<1>6. ~ (j < i)
  BY <1>1, <1>2, <1>3
<1>7. QED
  BY <1>4, <1>5, <1>6

(* A container's nodes depend on what is told of those below it only. *)
LEMMA NodesDependBelow ==
  ASSUME DocInv, NEW box \in DOMAIN doc, NEW g, NEW h, \A x \in Below(box) : g[x] = h[x]
  PROVE  NodesOf(g, box) = NodesOf(h, box)
<1>1. ASSUME NEW link \in LinksIn(box) PROVE NodeOf(g, link) = NodeOf(h, link)
  <2>1. Inner(link) # {} => Min(Inner(link)) \in Below(box)
    BY InnerIsInside DEF Inner
  <2>2. QED
    BY <2>1 DEF NodeOf
<1>2. QED
  BY <1>1, LinksAreInOrder DEF NodesOf

(* parse_children tells of every container what its definition says: it is *)
(* called for containers further down the page only, and so it ends.       *)
LEMMA ChildrenAreNodes ==
  ASSUME DocInv
  PROVE  \A box \in DOMAIN doc : ParseChildren[box] = NodesOf(ParseChildren, box)
<1> DEFINE L == Len(doc)
           Settled(k, g) == /\ DOMAIN g = DOMAIN doc
                          /\ \A b \in DOMAIN doc : b > L - k => g[b] = NodesOf(g, b)
           T == {k \in Nat : k <= L => \E g : Settled(k, g)}
<1>1. L \in Nat /\ DOMAIN doc = 1..L
  BY DEF DocInv
<1> HIDE DEF L, Settled
<1>2. 0 \in T
  <2>1. Settled(0, [b \in DOMAIN doc |-> b])
    <3>1. \A b \in DOMAIN doc : ~ (b > L - 0)
      BY <1>1
    <3>2. QED
      BY <3>1 DEF Settled
  <2>2. QED
    BY <2>1
<1>3. ASSUME NEW k \in Nat, k \in T PROVE k + 1 \in T
  <2> SUFFICES ASSUME k + 1 <= L PROVE \E v : Settled(k + 1, v)
    OBVIOUS
  <2>1. PICK g : Settled(k, g)
    BY <1>1, <1>3
  <2> DEFINE v == [b \in DOMAIN doc |-> IF b = L - k THEN NodesOf(g, b) ELSE g[b]]
  <2>2. ASSUME NEW b \in DOMAIN doc, b > L - (k + 1) PROVE v[b] = NodesOf(v, b)
    <3>1. b \in Nat /\ b >= L - k
      BY <1>1, <2>2
    <3>2. ASSUME NEW x \in Below(b) PROVE v[x] = g[x]
      <4>1. x \in DOMAIN doc /\ x \in Nat /\ b < x
        BY BelowIs
      <4>2. x # L - k
        BY <1>1, <3>1, <4>1
      <4>3. QED
        BY <4>1, <4>2
    <3> HIDE DEF v
    <3>3. NodesOf(v, b) = NodesOf(g, b)
      BY <3>2, NodesDependBelow
    <3>4. v[b] = NodesOf(g, b)
      <4>1. CASE b = L - k
        BY <4>1 DEF v
      <4>2. CASE b # L - k
        <5>1. b > L - k
          BY <1>1, <3>1, <4>2
        <5>2. g[b] = NodesOf(g, b)
          BY <2>1, <5>1 DEF Settled
        <5>3. QED
          BY <4>2, <5>2 DEF v
      <4>3. QED
        BY <4>1, <4>2
    <3>5. QED
      BY <3>3, <3>4
  <2>3. Settled(k + 1, v)
    BY <2>2 DEF Settled
  <2> HIDE DEF v
  <2>4. QED
    BY <2>3
<1> HIDE DEF T
<1>4. L \in T
  BY <1>1, <1>2, <1>3, OneByOne
<1>5. PICK g : Settled(L, g)
  BY <1>1, <1>4 DEF T
<1> DEFINE Fixed(u) == u = [b \in DOMAIN doc |-> NodesOf(u, b)]
<1>6. \E u : Fixed(u)
  <2> DEFINE w == [b \in DOMAIN doc |-> g[b]]
  <2>1. \A b \in DOMAIN doc : b > L - L
    BY <1>1
  <2>2. \A b \in DOMAIN doc : g[b] = NodesOf(g, b)
    BY <1>5, <2>1 DEF Settled
  <2>3. ASSUME NEW b \in DOMAIN doc PROVE NodesOf(w, b) = NodesOf(g, b)
    <3>1. \A x \in Below(b) : w[x] = g[x]
      BY BelowIs
    <3> HIDE DEF w
    <3>2. QED
      BY <3>1, NodesDependBelow
  <2>4. \A b \in DOMAIN doc : g[b] = NodesOf(w, b)
    BY <2>2, <2>3
  <2>5. Fixed(w)
    BY <2>4
  <2> HIDE DEF w, Fixed
  <2>6. QED
    BY <2>5
<1> DEFINE AsTold(u, links) ==
             [i \in DOMAIN links |->
               [id |-> links[i],
                children |-> IF Below(ItemOf(links[i])) \cap Of(Lists) = {} THEN << >>
                             ELSE u[Min(Below(ItemOf(links[i])) \cap Of(Lists))]]]
           Defined(u) == u = [b \in DOMAIN doc |-> AsTold(u, InOrder(Below(b) \cap Of(Links)))]
<1>7. ParseChildren = CHOOSE u : Defined(u)
  BY DEF ParseChildren
<1>8. ASSUME NEW u, NEW b \in DOMAIN doc
      PROVE  AsTold(u, InOrder(Below(b) \cap Of(Links))) = NodesOf(u, b)
  BY LinksAreInOrder DEF NodesOf, NodeOf, Inner, LinksIn
<1> HIDE DEF AsTold
<1>9. \A u : Fixed(u) <=> Defined(u)
  BY <1>8
<1> HIDE DEF Fixed, Defined
<1>10. Fixed(ParseChildren)
  BY <1>6, <1>7, <1>9
<1>11. QED
  BY <1>10 DEF Fixed

(* The levels of an answer: its nodes, their children, and so on. *)
LEMMA ToldInLevels ==
  ASSUME NEW nodes
  PROVE  \E level : /\ level[0] = ToSet(nodes)
                    /\ \A k \in 1..MaxNodes :
                         level[k] = UNION {ToSet(n.children) : n \in level[k - 1]}
                    /\ Told(nodes) = UNION {level[k] : k \in 0..MaxNodes}
<1> DEFINE Deeper(S) == UNION {ToSet(n.children) : n \in S}
           Fixed(u) == u = [k \in 0..MaxNodes |-> IF k = 0 THEN ToSet(nodes) ELSE Deeper(u[k - 1])]
           Levels(k, u) == /\ DOMAIN u = 0..k /\ u[0] = ToSet(nodes)
                           /\ \A j \in 1..k : u[j] = Deeper(u[j - 1])
           T == {k \in Nat : \E u : Levels(k, u)}
<1>1. MaxNodes \in Nat
  BY TreeAssumption
<1>2. Told(nodes) = UNION {(CHOOSE u : Fixed(u))[k] : k \in 0..MaxNodes}
  BY DEF Told
<1> HIDE DEF Deeper
<1>3. 0 \in T
  <2>1. Levels(0, [k \in 0..0 |-> ToSet(nodes)])
    OBVIOUS
  <2> HIDE DEF Levels
  <2>2. QED
    BY <2>1
<1>4. ASSUME NEW k \in Nat, k \in T PROVE k + 1 \in T
  <2>1. PICK u : Levels(k, u)
    BY <1>4
  <2> DEFINE v == [j \in 0..(k + 1) |-> IF j = k + 1 THEN Deeper(u[k]) ELSE u[j]]
  <2>2. v[0] = ToSet(nodes)
    BY <2>1
  <2>3. ASSUME NEW j \in 1..(k + 1) PROVE v[j] = Deeper(v[j - 1])
    <3>1. j - 1 \in 0..k /\ j \in 0..(k + 1) /\ v[j - 1] = u[j - 1]
      OBVIOUS
    <3>2. CASE j = k + 1
      BY <3>1, <3>2
    <3>3. CASE j # k + 1
      <4>1. j \in 1..k /\ v[j] = u[j]
        BY <3>1, <3>3
      <4>2. QED
        BY <2>1, <3>1, <4>1
    <3>4. QED
      BY <3>2, <3>3
  <2>4. Levels(k + 1, v)
    BY <2>2, <2>3
  <2> HIDE DEF v, Levels
  <2>5. QED
    BY <2>4
<1> HIDE DEF T
<1>5. MaxNodes \in T
  BY <1>1, <1>3, <1>4, OneByOne
<1>6. \E u : Fixed(u)
  <2>1. PICK u : Levels(MaxNodes, u)
    BY <1>5 DEF T
  <2> DEFINE w == [k \in 0..MaxNodes |-> u[k]]
  <2>2. ASSUME NEW k \in 0..MaxNodes
        PROVE  u[k] = IF k = 0 THEN ToSet(nodes) ELSE Deeper(w[k - 1])
    <3>1. CASE k = 0
      BY <2>1, <3>1
    <3>2. CASE k # 0
      <4>1. k \in 1..MaxNodes /\ k - 1 \in 0..MaxNodes
        BY <1>1, <3>2
      <4>2. QED
        BY <2>1, <3>2, <4>1
    <3>3. QED
      BY <3>1, <3>2
  <2>3. Fixed(w)
    BY <2>2
  <2> HIDE DEF w, Fixed
  <2>4. QED
    BY <2>3
<1>7. PICK level : Fixed(level) /\ Told(nodes) = UNION {level[k] : k \in 0..MaxNodes}
  <2> HIDE DEF Fixed
  <2>1. QED
    BY <1>2, <1>6
<1>8. level[0] = ToSet(nodes)
  BY <1>1, <1>7
<1>9. \A k \in 1..MaxNodes : level[k] = Deeper(level[k - 1])
  BY <1>1, <1>7
<1>10. \A k \in 1..MaxNodes :
         level[k] = UNION {ToSet(n.children) : n \in level[k - 1]}
  BY <1>9 DEF Deeper
<1> HIDE DEF Fixed
<1>11. QED
  BY <1>7, <1>8, <1>10

(* What has the answer's nodes and the children of what it has, has all    *)
(* that is told.                                                           *)
LEMMA ToldIsWithin ==
  ASSUME NEW nodes, NEW G, ToSet(nodes) \subseteq G,
         \A n \in G : ToSet(n.children) \subseteq G
  PROVE  Told(nodes) \subseteq G
<1>1. PICK level : /\ level[0] = ToSet(nodes)
                   /\ \A k \in 1..MaxNodes :
                        level[k] = UNION {ToSet(n.children) : n \in level[k - 1]}
                   /\ Told(nodes) = UNION {level[k] : k \in 0..MaxNodes}
  BY ToldInLevels
<1> DEFINE T == {k \in Nat : k <= MaxNodes => level[k] \subseteq G}
<1>2. MaxNodes \in Nat
  BY TreeAssumption
<1>3. 0 \in T
  BY <1>1
<1>4. ASSUME NEW k \in Nat, k \in T PROVE k + 1 \in T
  <2> SUFFICES ASSUME k + 1 <= MaxNodes PROVE level[k + 1] \subseteq G
    OBVIOUS
  <2>1. k + 1 \in 1..MaxNodes /\ k + 1 - 1 = k /\ level[k] \subseteq G
    BY <1>2, <1>4
  <2>2. level[k + 1] = UNION {ToSet(n.children) : n \in level[k]}
    BY <1>1, <2>1
  <2>3. QED
    BY <2>1, <2>2
<1> HIDE DEF T
<1>5. \A k \in Nat : k \in T
  BY <1>3, <1>4, OneByOne
<1>6. \A k \in 0..MaxNodes : level[k] \subseteq G
  BY <1>2, <1>5 DEF T
<1>7. QED
  BY <1>1, <1>6

(* The answer's nodes are told, and so are their children. *)
LEMMA ToldHas ==
  ASSUME NEW nodes
  PROVE  /\ ToSet(nodes) \subseteq Told(nodes)
         /\ \A n \in ToSet(nodes) : ToSet(n.children) \subseteq Told(nodes)
<1>1. PICK level : /\ level[0] = ToSet(nodes)
                   /\ \A k \in 1..MaxNodes :
                        level[k] = UNION {ToSet(n.children) : n \in level[k - 1]}
                   /\ Told(nodes) = UNION {level[k] : k \in 0..MaxNodes}
  BY ToldInLevels
<1>2. 0 \in 0..MaxNodes /\ 1 \in 0..MaxNodes /\ 1 \in 1..MaxNodes /\ 1 - 1 = 0
  BY TreeAssumption
<1>3. level[0] \subseteq Told(nodes) /\ level[1] \subseteq Told(nodes)
  BY <1>1, <1>2
<1>4. level[1] = UNION {ToSet(n.children) : n \in level[0]}
  BY <1>1, <1>2
<1>5. QED
  BY <1>1, <1>3, <1>4

(* Nothing is told of an empty answer. *)
LEMMA NothingTold == Told(<< >>) = {}
<1>1. ToSet(<< >>) = {}
  BY DEF ToSet
<1>2. Told(<< >>) \subseteq {}
  BY <1>1, ToldIsWithin
<1>3. QED
  BY <1>2

(* The nodes told of a container are of the links in it. *)
LEMMA NodesOfBox ==
  ASSUME DocInv, NEW box \in DOMAIN doc
  PROVE  ToSet(ParseChildren[box]) = {NodeOf(ParseChildren, link) : link \in LinksIn(box)}
<1>1. ParseChildren[box] = NodesOf(ParseChildren, box)
  BY ChildrenAreNodes
<1>2. ToSet(NodesOf(ParseChildren, box)) =
        {NodeOf(ParseChildren, link) : link \in LinksIn(box)}
  BY LinksAreInOrder DEF ToSet, NodesOf
<1>3. QED
  BY <1>1, <1>2

(* No link of a container is told twice in its list. *)
LEMMA BoxOnce ==
  ASSUME DocInv, NEW box \in DOMAIN doc
  PROVE  Once(ParseChildren[box])
<1>1. ParseChildren[box] = NodesOf(ParseChildren, box)
  BY ChildrenAreNodes
<1>2. PICK L : L = LinksIn(box)
  OBVIOUS
<1>3. L \subseteq Nat /\ IsFiniteSet(L)
  BY <1>2, LinksAreInOrder
<1>4. /\ DOMAIN NodesOf(ParseChildren, box) = 1..Cardinality(L)
      /\ \A i \in 1..Cardinality(L) : NodesOf(ParseChildren, box)[i].id = InOrder(L)[i]
  BY <1>2 DEF NodesOf, NodeOf
<1>5. \A i, j \in 1..Cardinality(L) : InOrder(L)[i] = InOrder(L)[j] => i = j
  BY <1>3, InOrderOnce
<1>6. QED
  BY <1>1, <1>4, <1>5 DEF Once

(* All that is told of a container, at any level, is of the links in it,   *)
(* and of each of them something is told.                                  *)
LEMMA ToldOfBox ==
  ASSUME DocInv, NEW box \in DOMAIN doc
  PROVE  /\ {n.id : n \in Told(ParseChildren[box])} = LinksIn(box)
         /\ \A n \in Told(ParseChildren[box]) :
              \E link \in LinksIn(box) : n = NodeOf(ParseChildren, link)
<1> DEFINE G == {NodeOf(ParseChildren, link) : link \in LinksIn(box)}
<1>1. ToSet(ParseChildren[box]) = G
  BY NodesOfBox
<1>2. ASSUME NEW n \in G PROVE ToSet(n.children) \subseteq G
  <2>1. PICK link \in LinksIn(box) : n = NodeOf(ParseChildren, link)
    OBVIOUS
  <2>2. n.children = IF Inner(link) = {} THEN << >> ELSE ParseChildren[Min(Inner(link))]
    BY <2>1 DEF NodeOf
  <2>3. CASE Inner(link) = {}
    BY <2>2, <2>3 DEF ToSet
  <2>4. CASE Inner(link) # {}
    <3> DEFINE first == Min(Inner(link))
    <3>1. first \in Below(box)
      BY <2>4, InnerIsInside DEF Inner
    <3> HIDE DEF first
    <3>2. first \in DOMAIN doc /\ Below(first) \subseteq Below(box)
      BY <3>1, BelowIs, BelowIsTransitive
    <3>3. ToSet(ParseChildren[first]) =
            {NodeOf(ParseChildren, k) : k \in LinksIn(first)}
      BY <3>2, NodesOfBox
    <3>4. LinksIn(first) \subseteq LinksIn(box)
      BY <3>2 DEF LinksIn
    <3>5. ToSet(ParseChildren[first]) \subseteq G
      BY <3>3, <3>4
    <3>6. QED
      BY <2>2, <2>4, <3>5 DEF first
  <2>5. QED
    BY <2>3, <2>4
<1>3. Told(ParseChildren[box]) \subseteq G
  BY <1>1, <1>2, ToldIsWithin
<1>4. G \subseteq Told(ParseChildren[box])
  BY <1>1, ToldHas
<1>5. \A link : NodeOf(ParseChildren, link).id = link
  BY DEF NodeOf
<1>6. {n.id : n \in G} = LinksIn(box)
  BY <1>5
<1>7. Told(ParseChildren[box]) = G
  BY <1>3, <1>4
<1>8. QED
  BY <1>6, <1>7

(* A set of at most one has no two elements. *)
LEMMA NoTwo ==
  ASSUME NEW S, IsFiniteSet(S), Cardinality(S) <= 1, NEW x \in S, NEW y \in S
  PROVE  x = y
<1>1. Cardinality(S) \in Nat /\ Cardinality(S) # 0
  BY FS_CardinalityType, FS_EmptySet
<1>2. Cardinality(S) = 1
  BY <1>1
<1>3. QED
  BY <1>2, FS_Singleton

(* On a page of items: an item holds a link and a list and nothing else,   *)
(* one of each at most, and nothing is below a link.                       *)
LEMMA ItemHolds ==
  ASSUME DocInv, Itemised, NEW item \in DOMAIN doc, doc[item].kind = "item"
  PROVE  /\ \A x \in DOMAIN doc : x # 1 /\ doc[x].parent = item =>
              doc[x].kind \in {"link", "list"}
         /\ \A x, y \in DOMAIN doc :
              x # 1 /\ y # 1 /\ doc[x].parent = item /\ doc[y].parent = item
                /\ doc[x].kind = doc[y].kind => x = y
         /\ \A x \in DOMAIN doc : doc[x].kind = "link" => Below(x) = {}
<1>1. Holds["item"] = {"link", "list"} /\ Holds["link"] = {}
  BY DEF Holds
<1>2. \A x \in DOMAIN doc : x # 1 /\ doc[x].parent = item => doc[x].kind \in {"link", "list"}
  BY <1>1, ParentsAreNodes
<1>3. ASSUME NEW x \in DOMAIN doc, NEW y \in DOMAIN doc, x # 1, y # 1,
             doc[x].parent = item, doc[y].parent = item, doc[x].kind = doc[y].kind
      PROVE  x = y
  <2> DEFINE S == {m \in Of({doc[x].kind}) : doc[m].parent = item}
  <2>1. doc[x].kind \in {"link", "list"}
    BY <1>2, <1>3
  <2>2. x \in S /\ y \in S
    BY <1>3 DEF Of
  <2>3. item \in Of({"item"})
    BY DEF Of
  <2>4. Cardinality(S) <= 1
    BY <2>1, <2>3 DEF Itemised
  <2>5. IsFiniteSet(S)
    <3>1. S \in SUBSET (DOMAIN doc)
      BY DEF Of
    <3>2. QED
      BY <3>1, ParentsAreNodes, FS_Subset
  <2> HIDE DEF S
  <2>6. QED
    BY <2>2, <2>4, <2>5, NoTwo
<1>4. ASSUME NEW x \in DOMAIN doc, doc[x].kind = "link", NEW m \in Below(x) PROVE FALSE
  <2>1. m \in DOMAIN doc /\ x \in Above[m]
    BY DEF Below
  <2>2. PICK y \in DOMAIN doc : y # 1 /\ doc[y].parent = x
    BY <2>1, WayDown
  <2>3. doc[y].kind \in Holds["link"]
    BY <1>4, <2>2, ParentsAreNodes
  <2>4. QED
    BY <1>1, <2>3
<1>5. QED
  BY <1>2, <1>3, <1>4

(* What is below an item, but for its link, is its list and what is below  *)
(* that.                                                                   *)
LEMMA BelowItem ==
  ASSUME DocInv, Itemised, NEW item \in DOMAIN doc, doc[item].kind = "item",
         NEW link \in DOMAIN doc, link # 1, doc[link].parent = item, doc[link].kind = "link",
         NEW m \in Below(item), m # link
  PROVE  \E x \in Below(item) : /\ x # 1 /\ doc[x].parent = item /\ doc[x].kind = "list"
                                /\ m = x \/ m \in Below(x)
<1>1. m \in DOMAIN doc /\ item \in Above[m]
  BY DEF Below
<1>2. PICK x \in DOMAIN doc : x # 1 /\ doc[x].parent = item /\ (x = m \/ x \in Above[m])
  BY <1>1, WayDown
<1>3. m = x \/ m \in Below(x)
  BY <1>1, <1>2 DEF Below
<1>4. x \in Below(item)
  <2>1. item \in Above[x]
    BY <1>2, AboveIs
  <2>2. QED
    BY <1>2, <2>1 DEF Below
<1>5. doc[x].kind = "list"
  <2> SUFFICES ASSUME doc[x].kind # "list" PROVE FALSE
    OBVIOUS
  <2>1. doc[x].kind = "link"
    BY <1>2, ItemHolds
  <2>2. x = link
    BY <1>2, <2>1, ItemHolds
  <2>3. Below(x) = {}
    BY <2>1, ItemHolds
  <2>4. QED
    BY <1>3, <2>2, <2>3
<1>6. QED
  BY <1>2, <1>3, <1>4, <1>5

(* What is told below a link of the older layout: nothing below itself and *)
(* nothing from outside its item, and on a page of items all the links of  *)
(* the item but itself.                                                    *)
LEMMA ToldBelowLink ==
  ASSUME DocInv, NEW box \in DOMAIN doc, NEW link \in LinksIn(box)
  PROVE  LET below == {m.id : m \in Told(NodeOf(ParseChildren, link).children)} IN
         /\ Once(NodeOf(ParseChildren, link).children)
         /\ link \notin below /\ below \subseteq Below(doc[link].parent)
         /\ Itemised => below = (Below(doc[link].parent) \cap Of(Links)) \ {link}
<1> DEFINE item == doc[link].parent
           first == Min(Inner(link))
           below == {m.id : m \in Told(NodeOf(ParseChildren, link).children)}
<1>1. /\ link \in DOMAIN doc /\ link # 1 /\ item \in DOMAIN doc
      /\ Inner(link) = Below(item) \cap Of(Lists)
      /\ Inner(link) # {} => first \in Inner(link) /\ \A y \in Inner(link) : first <= y
  BY InnerIsInside DEF ItemOf, Inner
<1>2. NodeOf(ParseChildren, link).children =
        IF Inner(link) = {} THEN << >> ELSE ParseChildren[first]
  BY DEF NodeOf
<1> HIDE DEF first, item
<1>3. Inner(link) = {} => below = {}
  <2> SUFFICES ASSUME Inner(link) = {} PROVE below = {}
    OBVIOUS
  <2>1. Told(NodeOf(ParseChildren, link).children) = {}
    BY <1>2, NothingTold
  <2>2. QED
    BY <2>1
<1>4. Inner(link) # {} => /\ first \in DOMAIN doc /\ first \in Below(item)
                          /\ below = LinksIn(first) /\ Below(first) \subseteq Below(item)
  <2> SUFFICES ASSUME Inner(link) # {}
               PROVE  /\ first \in DOMAIN doc /\ first \in Below(item)
                      /\ below = LinksIn(first) /\ Below(first) \subseteq Below(item)
    OBVIOUS
  <2>1. first \in Below(item)
    BY <1>1
  <2>2. first \in DOMAIN doc /\ Below(first) \subseteq Below(item)
    BY <1>1, <2>1, BelowIs, BelowIsTransitive
  <2>3. {m.id : m \in Told(ParseChildren[first])} = LinksIn(first)
    BY <2>2, ToldOfBox
  <2>4. QED
    BY <1>2, <2>1, <2>2, <2>3
<1> HIDE DEF below
<1>5. below \subseteq Below(item)
  BY <1>3, <1>4 DEF LinksIn
<1>6. link \notin below
  <2> SUFFICES ASSUME link \in below PROVE FALSE
    OBVIOUS
  <2>1. Inner(link) # {} /\ link \in Below(first)
    BY <1>3, <1>4 DEF LinksIn
  <2>2. item = first \/ item \in Below(first)
    BY <1>4, <2>1, BelowIs DEF item
  <2>3. item < first
    BY <1>1, <1>4, <2>1, BelowIs
  <2>4. item \in Below(first) => first < item
    BY <1>4, <2>1, BelowIs
  <2>5. item \in Nat /\ first \in Nat
    BY <1>1, <1>4, <2>1, ParentsAreNodes
  <2>6. QED
    BY <2>2, <2>3, <2>4, <2>5
<1>7. ASSUME Itemised, NEW m \in (Below(item) \cap Of(Links)) \ {link} PROVE m \in below
  <2>1. link \in Of(Links \cup {"broken"}) /\ doc[link].kind \in Links
    BY DEF LinksIn, Of
  <2>2. doc[item].kind = "item"
    BY <1>7, <2>1 DEF Itemised, item
  <2>3. doc[link].kind = "link"
    <3>1. doc[link].kind \in {"link", "list"}
      BY <1>1, <1>7, <2>2, ItemHolds DEF item
    <3>2. QED
      BY <2>1, <3>1 DEF Links
  <2>4. PICK x \in Below(item) : /\ x # 1 /\ doc[x].parent = item /\ doc[x].kind = "list"
                                 /\ m = x \/ m \in Below(x)
    BY <1>1, <1>7, <2>2, <2>3, BelowItem DEF item
  <2>5. x \in DOMAIN doc /\ x \in Inner(link)
    BY <1>1, <2>4, BelowIs DEF Of, Lists
  <2>6. first = x
    <3>1. first \in Below(item) /\ first <= x /\ first # link
      <4>1. first \in Of(Lists)
        BY <1>1, <2>5
      <4>2. first # link
        BY <2>3, <4>1 DEF Of, Lists
      <4>3. QED
        BY <1>1, <2>5, <4>2
    <3>2. PICK z \in Below(item) : /\ z # 1 /\ doc[z].parent = item /\ doc[z].kind = "list"
                                   /\ first = z \/ first \in Below(z)
      BY <1>1, <1>7, <2>2, <2>3, <3>1, BelowItem DEF item
    <3>3. z \in DOMAIN doc
      BY <1>1, BelowIs
    <3>4. z = x
      BY <1>7, <1>1, <2>2, <2>4, <2>5, <3>2, <3>3, ItemHolds
    <3>5. first \in Below(z) => z < first
      BY <3>3, BelowIs
    <3>6. x \in Nat /\ first \in Nat
      BY <1>1, <1>4, <2>5, ParentsAreNodes
    <3>7. QED
      BY <3>1, <3>2, <3>4, <3>5, <3>6
  <2>7. m # x
    BY <1>7, <2>4 DEF Of, Links
  <2>8. m \in LinksIn(first)
    BY <1>7, <2>4, <2>6, <2>7 DEF LinksIn
  <2>9. QED
    BY <1>4, <2>5, <2>8
<1>8. below \subseteq Of(Links)
  BY <1>3, <1>4 DEF LinksIn
<1>9. Itemised => below = (Below(item) \cap Of(Links)) \ {link}
  BY <1>5, <1>6, <1>7, <1>8
<1>10. Once(NodeOf(ParseChildren, link).children)
  <2>1. CASE Inner(link) = {}
    BY <1>2, <2>1 DEF Once
  <2>2. CASE Inner(link) # {}
    BY <1>2, <1>4, <2>2, BoxOnce
  <2>3. QED
    BY <2>1, <2>2
<1>11. QED
  BY <1>5, <1>6, <1>9, <1>10 DEF below, item

(* The entries of the current layout: those that have a title.             *)
Entitled == {p \in Of({"promo"}) : Titles(p) # {} /\ Min(Titles(p)) \in Of(Links)}

Entry(p) == [id |-> Min(Titles(p)), children |-> PromoChildren(p)]

Rest(p) == (Below(p) \cap Of({"link"})) \ {Min(Titles(p))}

Leaf(n) == [id |-> n, children |-> << >>]

(* An entry's title is in it. *)
LEMMA TitleIsInside ==
  ASSUME DocInv, NEW p \in Entitled
  PROVE  /\ p \in DOMAIN doc /\ doc[p].kind = "promo"
         /\ Min(Titles(p)) \in Below(p) /\ Min(Titles(p)) \in Of(Links)
         /\ doc[doc[Min(Titles(p))].parent].kind = "game"
<1>1. p \in DOMAIN doc /\ doc[p].kind = "promo" /\ Titles(p) # {}
  BY DEF Entitled, Of
<1>2. Titles(p) \subseteq Nat
  BY <1>1, BelowIs DEF Titles
<1>3. Min(Titles(p)) \in Titles(p)
  BY <1>1, <1>2, MinIsLeast
<1>4. QED
  BY <1>1, <1>3 DEF Titles, Entitled

(* No entry is in another, so that a node is in one entry at most. *)
LEMMA OneEntry ==
  ASSUME DocInv, NEW p \in DOMAIN doc, doc[p].kind = "promo",
         NEW q \in DOMAIN doc, doc[q].kind = "promo", NEW n \in Below(p), n \in Below(q)
  PROVE  p = q
<1>1. ASSUME NEW x \in DOMAIN doc, doc[x].kind = "promo" PROVE Above[x] \subseteq {1}
  <2>1. x # 1
    BY <1>1, ParentsAreNodes
  <2>2. /\ doc[x].parent \in DOMAIN doc
        /\ "promo" \in Holds[doc[doc[x].parent].kind]
        /\ doc[doc[x].parent].kind \in DOMAIN Holds
    BY <1>1, <2>1, ParentsAreNodes
  <2>3. doc[doc[x].parent].kind = "body"
    BY <2>2 DEF Holds
  <2>4. doc[x].parent = 1
    <3> SUFFICES ASSUME doc[x].parent # 1 PROVE FALSE
      OBVIOUS
    <3>1. PICK k \in DOMAIN Holds : "body" \in Holds[k]
      BY <2>2, <2>3, ParentsAreNodes
    <3>2. QED
      BY <3>1 DEF Holds
  <2>5. QED
    BY <2>1, <2>4, AboveIs
<1>2. n \in DOMAIN doc /\ p \in Above[n] /\ q \in Above[n]
  BY DEF Below
<1>3. p # 1 /\ q # 1 /\ p \in Nat /\ q \in Nat
  BY ParentsAreNodes
<1>4. ~ (p < q) /\ ~ (q < p)
  BY <1>1, <1>2, <1>3, AboveIsLine
<1>5. QED
  BY <1>3, <1>4

(* What is told below an entry is its links but the title. *)
LEMMA ChildrenOfEntry ==
  ASSUME DocInv, NEW p \in DOMAIN doc
  PROVE  /\ ToSet(PromoChildren(p)) = {Leaf(n) : n \in Rest(p)}
         /\ {m.id : m \in Told(PromoChildren(p))} = Rest(p)
         /\ Once(PromoChildren(p))
<1>1. Rest(p) \in SUBSET Below(p)
  BY DEF Rest
<1>2. Rest(p) \subseteq Nat /\ IsFiniteSet(Rest(p))
  BY <1>1, BelowIs, FS_Subset
<1> DEFINE order == InOrder(Rest(p))
<1>3. /\ DOMAIN order = 1..Cardinality(Rest(p))
      /\ \A i \in DOMAIN order : order[i] \in Rest(p)
      /\ \A n \in Rest(p) : \E i \in DOMAIN order : order[i] = n
  BY <1>2, InOrderIsOrder
<1>o. \A i, j \in DOMAIN order : order[i] = order[j] => i = j
  BY <1>2, <1>3, InOrderOnce
<1>4. PromoChildren(p) = [i \in DOMAIN order |-> Leaf(order[i])]
  BY DEF PromoChildren, Rest, Leaf
<1> HIDE DEF order
<1> DEFINE G == {Leaf(n) : n \in Rest(p)}
<1>5. ToSet(PromoChildren(p)) = G
  BY <1>3, <1>4 DEF ToSet
<1>6. \A n \in G : n.children = << >>
  BY DEF Leaf
<1>7. \A n \in G : ToSet(n.children) \subseteq G
  BY <1>6 DEF ToSet
<1> HIDE DEF G
<1>8. Told(PromoChildren(p)) = G
  <2>1. Told(PromoChildren(p)) \subseteq G
    BY <1>5, <1>7, ToldIsWithin
  <2>2. G \subseteq Told(PromoChildren(p))
    BY <1>5, ToldHas
  <2>3. QED
    BY <2>1, <2>2
<1>9. {m.id : m \in G} = Rest(p)
  <2>1. \A n : Leaf(n).id = n
    BY DEF Leaf
  <2>2. ASSUME NEW m \in G PROVE m.id \in Rest(p)
    <3>1. PICK n \in Rest(p) : m = Leaf(n)
      BY DEF G
    <3>2. QED
      BY <2>1, <3>1
  <2>3. ASSUME NEW n \in Rest(p) PROVE \E m \in G : m.id = n
    <3>1. Leaf(n) \in G
      BY DEF G
    <3>2. QED
      BY <2>1, <3>1
  <2>4. QED
    BY <2>2, <2>3
<1>10. Once(PromoChildren(p))
  BY <1>4, <1>o DEF Once, Leaf
<1>11. QED
  BY <1>5, <1>8, <1>9, <1>10 DEF G

(* The older layout, where the container tells something. *)
LEMMA OlderLayout == ASSUME DocInv, Legacy # << >> PROVE TreeKeepsAncestry
<1> DEFINE box == Min(Of({"tree"}))
<1>1. Of({"tree"}) # {} /\ Legacy = ParseChildren[box] /\ ParseCategoryTree = Legacy
  BY DEF Legacy, ParseCategoryTree
<1>2. box \in DOMAIN doc
  <2>1. Of({"tree"}) \subseteq DOMAIN doc /\ Of({"tree"}) \subseteq Nat
    BY ParentsAreNodes DEF Of
  <2>2. QED
    BY <1>1, <2>1, MinIsLeast
<1>3. /\ {n.id : n \in Told(ParseCategoryTree)} = LinksIn(box)
      /\ \A n \in Told(ParseCategoryTree) :
           \E link \in LinksIn(box) : n = NodeOf(ParseChildren, link)
  BY <1>1, <1>2, ToldOfBox
<1> HIDE DEF box
<1>4. ASSUME NEW n \in Told(ParseCategoryTree)
      PROVE  LET below == {m.id : m \in Told(n.children)} IN
             /\ Once(n.children)
             /\ n.id \notin below /\ below \subseteq Below(doc[n.id].parent)
             /\ Itemised => below = (Below(doc[n.id].parent) \cap Of(Links)) \ {n.id}
  <2>1. PICK link \in LinksIn(box) : n = NodeOf(ParseChildren, link)
    BY <1>3
  <2>2. n.id = link
    BY <2>1 DEF NodeOf
  <2>3. QED
    BY <1>2, <2>1, <2>2, ToldBelowLink
<1>5. Once(ParseCategoryTree)
  BY <1>1, <1>2, BoxOnce
<1>6. {n.id : n \in ToSet(ParseCategoryTree)} = LinksIn(box)
  <2>1. ToSet(ParseCategoryTree) = {NodeOf(ParseChildren, link) : link \in LinksIn(box)}
    BY <1>1, <1>2, NodesOfBox DEF box
  <2>2. \A link : NodeOf(ParseChildren, link).id = link
    BY DEF NodeOf
  <2>3. QED
    BY <2>1, <2>2
<1>7. QED
  BY <1>3, <1>4, <1>5, <1>6 DEF TreeKeepsAncestry, LinksIn, box

(* The current layout, and a page of neither. *)
LEMMA CurrentLayout == ASSUME DocInv, Legacy = << >> PROVE TreeKeepsAncestry
<1>1. Entitled \subseteq Nat /\ IsFiniteSet(Entitled)
  <2>1. Entitled \in SUBSET (DOMAIN doc)
    BY DEF Entitled, Of
  <2>2. QED
    BY <2>1, ParentsAreNodes, FS_Subset
<1>2. /\ \A i \in DOMAIN Promos : Promos[i] \in Entitled
      /\ \A p \in Entitled : \E i \in DOMAIN Promos : Promos[i] = p
  BY <1>1, InOrderIsOrder DEF Promos, Entitled
<1>3. ToSet(ParseCategoryTree) = {Entry(p) : p \in Entitled}
  <2>1. CASE Promos = << >>
    <3>1. ParseCategoryTree = << >> /\ Entitled = {}
      BY <1>2, <2>1 DEF ParseCategoryTree
    <3>2. QED
      BY <3>1 DEF ToSet
  <2>2. CASE Promos # << >>
    <3>1. ParseCategoryTree = [i \in DOMAIN Promos |-> Entry(Promos[i])]
      BY <2>2 DEF ParseCategoryTree, Entry
    <3>2. QED
      BY <1>2, <3>1 DEF ToSet
  <2>3. QED
    BY <2>1, <2>2
<1> DEFINE Leaves == UNION {{Leaf(n) : n \in Rest(p)} : p \in Entitled}
           G == {Entry(p) : p \in Entitled} \cup Leaves
<1>4. \A p \in Entitled : /\ p \in DOMAIN doc
                          /\ ToSet(Entry(p).children) = {Leaf(n) : n \in Rest(p)}
  BY TitleIsInside, ChildrenOfEntry DEF Entry
<1>5. \A n : ToSet(Leaf(n).children) = {}
  BY DEF Leaf, ToSet
<1>6. Told(ParseCategoryTree) = G
  <2>1. ASSUME NEW n \in G PROVE ToSet(n.children) \subseteq G
    <3>1. CASE n \in {Entry(p) : p \in Entitled}
      <4>1. PICK p \in Entitled : n = Entry(p)
        BY <3>1
      <4>2. ToSet(n.children) = {Leaf(m) : m \in Rest(p)}
        BY <1>4, <4>1
      <4>3. {Leaf(m) : m \in Rest(p)} \subseteq Leaves
        OBVIOUS
      <4>4. QED
        BY <4>2, <4>3
    <3>2. CASE n \in Leaves
      <4>1. PICK p \in Entitled : n \in {Leaf(m) : m \in Rest(p)}
        BY <3>2
      <4>2. PICK m \in Rest(p) : n = Leaf(m)
        BY <4>1
      <4>3. QED
        BY <1>5, <4>2
    <3>3. QED
      BY <3>1, <3>2
  <2>2. Told(ParseCategoryTree) \subseteq G
    BY <1>3, <2>1, ToldIsWithin
  <2>3. /\ {Entry(p) : p \in Entitled} \subseteq Told(ParseCategoryTree)
        /\ \A p \in Entitled : {Leaf(n) : n \in Rest(p)} \subseteq Told(ParseCategoryTree)
    BY <1>3, <1>4, ToldHas
  <2>4. QED
    BY <2>2, <2>3
<1>7. {n.id : n \in Told(ParseCategoryTree)} =
        UNION {{Min(Titles(Promos[i]))} \cup (Below(Promos[i]) \cap Of({"link"})) :
                 i \in DOMAIN Promos}
  <2>1. {n.id : n \in G} = UNION {{Min(Titles(p))} \cup Rest(p) : p \in Entitled}
    <3>1. (\A p : Entry(p).id = Min(Titles(p))) /\ (\A n : Leaf(n).id = n)
      BY DEF Entry, Leaf
    <3>2. ASSUME NEW n \in G
          PROVE  \E p \in Entitled : n.id \in {Min(Titles(p))} \cup Rest(p)
      <4>1. CASE n \in {Entry(p) : p \in Entitled}
        <5>1. PICK p \in Entitled : n = Entry(p)
          BY <4>1
        <5>2. QED
          BY <3>1, <5>1
      <4>2. CASE n \in Leaves
        <5>1. PICK p \in Entitled : n \in {Leaf(m) : m \in Rest(p)}
          BY <4>2
        <5>2. PICK m \in Rest(p) : n = Leaf(m)
          BY <5>1
        <5>3. QED
          BY <3>1, <5>2
      <4>3. QED
        BY <4>1, <4>2
    <3>3. ASSUME NEW p \in Entitled, NEW id \in {Min(Titles(p))} \cup Rest(p)
          PROVE  \E n \in G : n.id = id
      <4>1. Entry(p) \in G
        OBVIOUS
      <4>2. id \in Rest(p) => Leaf(id) \in G
        OBVIOUS
      <4>3. QED
        BY <3>1, <4>1, <4>2
    <3> HIDE DEF G, Leaves
    <3>4. {n.id : n \in G} \subseteq UNION {{Min(Titles(p))} \cup Rest(p) : p \in Entitled}
      BY <3>2
    <3>5. UNION {{Min(Titles(p))} \cup Rest(p) : p \in Entitled} \subseteq {n.id : n \in G}
      BY <3>3
    <3>6. QED
      BY <3>4, <3>5
  <2>2. \A p : {Min(Titles(p))} \cup Rest(p) =
                 {Min(Titles(p))} \cup (Below(p) \cap Of({"link"}))
    BY DEF Rest
  <2>3. UNION {{Min(Titles(p))} \cup Rest(p) : p \in Entitled} =
          UNION {{Min(Titles(p))} \cup (Below(p) \cap Of({"link"})) : p \in Entitled}
    BY <2>2
  <2>4. UNION {{Min(Titles(p))} \cup (Below(p) \cap Of({"link"})) : p \in Entitled} =
          UNION {{Min(Titles(Promos[i]))} \cup (Below(Promos[i]) \cap Of({"link"})) :
                   i \in DOMAIN Promos}
    BY <1>2
  <2>5. QED
    BY <1>6, <2>1, <2>3, <2>4
<1> DEFINE home(id) == CHOOSE p \in Of({"promo"}) : id \in Below(p)
<1>8. ASSUME NEW p \in Entitled, NEW n \in Below(p) PROVE home(n) = p
  <2>1. p \in Of({"promo"}) /\ \A q \in Of({"promo"}) : n \in Below(q) => q = p
    BY <1>8, TitleIsInside, OneEntry DEF Of
  <2>2. QED
    BY <2>1
<1>9. Entitled # {} => ~Itemised
  <2> SUFFICES ASSUME NEW p \in Entitled, Itemised PROVE FALSE
    OBVIOUS
  <2>1. /\ Min(Titles(p)) \in Of(Links \cup {"broken"})
        /\ doc[doc[Min(Titles(p))].parent].kind = "game"
    BY TitleIsInside DEF Of
  <2>2. QED
    BY <2>1 DEF Itemised
<1>10. ASSUME NEW n \in Told(ParseCategoryTree)
       PROVE  LET below == {m.id : m \in Told(n.children)} IN
              Once(n.children) /\ n.id \notin below /\ below \subseteq Below(home(n.id)) /\ ~Itemised
  <2>1. CASE n \in {Entry(p) : p \in Entitled}
    <3>1. PICK p \in Entitled : n = Entry(p)
      BY <2>1
    <3>2. n.id = Min(Titles(p)) /\ n.children = PromoChildren(p)
      BY <3>1 DEF Entry
    <3>3. {m.id : m \in Told(n.children)} = Rest(p)
      BY <1>4, <3>2, ChildrenOfEntry
    <3>4. home(n.id) = p
      BY <1>8, <3>2, TitleIsInside
    <3> HIDE DEF home
    <3>5. Once(n.children)
      BY <1>4, <3>2, ChildrenOfEntry
    <3>6. QED
      BY <1>9, <3>2, <3>3, <3>4, <3>5 DEF Rest
  <2>2. CASE n \in Leaves
    <3>1. Entitled # {} /\ n.children = << >>
      BY <2>2 DEF Leaf
    <3>2. {m.id : m \in Told(n.children)} = {}
      BY <3>1, NothingTold
    <3>3. Once(n.children)
      BY <3>1 DEF Once
    <3> HIDE DEF home
    <3>4. QED
      BY <1>9, <3>1, <3>2, <3>3
  <2>3. QED
    BY <1>6, <2>1, <2>2
<1>11. Once(ParseCategoryTree)
  <2>1. CASE Promos = << >>
    BY <2>1 DEF ParseCategoryTree, Once
  <2>2. CASE Promos # << >>
    <3>1. ParseCategoryTree = [i \in DOMAIN Promos |-> Entry(Promos[i])]
      BY <2>2 DEF ParseCategoryTree, Entry
    <3>2. ASSUME NEW i \in DOMAIN Promos, NEW j \in DOMAIN Promos,
                 Min(Titles(Promos[i])) = Min(Titles(Promos[j]))
          PROVE  i = j
      <4>1. Promos[i] \in Entitled /\ Promos[j] \in Entitled
        BY <1>2
      <4>2. Promos[i] = Promos[j]
        BY <3>2, <4>1, TitleIsInside, OneEntry
      <4>3. DOMAIN Promos = 1..Cardinality(Entitled) /\ Promos = InOrder(Entitled)
        BY <1>1, InOrderIsOrder DEF Promos, Entitled
      <4>4. QED
        BY <1>1, <4>2, <4>3, InOrderOnce
    <3>3. \A i \in DOMAIN Promos : ParseCategoryTree[i].id = Min(Titles(Promos[i]))
      BY <3>1 DEF Entry
    <3>4. DOMAIN ParseCategoryTree = DOMAIN Promos
      BY <3>1
    <3>5. QED
      BY <3>2, <3>3, <3>4 DEF Once
  <2>3. QED
    BY <2>1, <2>2
<1>12. {n.id : n \in ToSet(ParseCategoryTree)} = {Min(Titles(Promos[i])) : i \in DOMAIN Promos}
  <2>1. \A p : Entry(p).id = Min(Titles(p))
    BY DEF Entry
  <2>2. {n.id : n \in {Entry(p) : p \in Entitled}} = {Min(Titles(p)) : p \in Entitled}
    BY <2>1
  <2>3. {Min(Titles(p)) : p \in Entitled} = {Min(Titles(Promos[i])) : i \in DOMAIN Promos}
    BY <1>2
  <2>4. QED
    BY <1>3, <2>2, <2>3
<1>13. QED
  BY <1>7, <1>10, <1>11, <1>12 DEF TreeKeepsAncestry

(* Whatever the home page's layout and size, parse_category_tree tells     *)
(* just its readable categories, none below itself, none twice in a list,  *)
(* and below a category what its item or entry holds, on a page of items   *)
(* all of it; at the top level, titles of entries or every link there is.  *)
THEOREM TreeIsTold == TreeSpec => []TreeKeepsAncestry
<1>1. DocInv => TreeKeepsAncestry
  BY OlderLayout, CurrentLayout
<1>2. QED
  BY <1>1, PagesAreNested, PTL
=============================================================================
