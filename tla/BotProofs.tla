------------------------------- MODULE BotProofs -------------------------------
(***************************************************************************)
(* Theorems about Bot for every set of orders and chats, any number of     *)
(* messages, every combination of options and of faults.                   *)
(***************************************************************************)
EXTENDS Bot, FiniteSetTheorems, WellFoundedInduction, TLAPS

USE DEF site, store, stream, cycle, handed
-----------------------------------------------------------------------------
(* Induction over numbers, as the least element of a set of them.          *)
Below == {ss \in Nat \X Nat : ss[1] < ss[2]}

(* There is no endless descent in the numbers. *)
LEMMA BelowWellFounded == IsWellFoundedOn(Below, Nat)
BY NatLessThanWellFounded DEF OpToRel, Below

(* A set of numbers has a least one. *)
LEMMA HasLeast ==
  ASSUME NEW T, T \subseteq Nat, T # {}
  PROVE  \E x \in T : \A y \in T : x <= y
<1>1. PICK x \in T : \A y \in T : ~ (<<y, x>> \in Below)
  BY BelowWellFounded, WFMin
<1>2. \A y \in T : ~ (y < x) /\ y \in Nat /\ x \in Nat
  BY <1>1 DEF Below
<1>3. \A y \in T : x <= y
  BY <1>2
<1>4. QED
  BY <1>3

(* A bounded set of numbers has a greatest one. *)
LEMMA HasGreatest ==
  ASSUME NEW n \in Nat, NEW T, T \subseteq 0..n, T # {}
  PROVE  Max(T) \in T /\ \A y \in T : y <= Max(T)
<1> DEFINE U == {u \in 0..n : \A y \in T : y <= u}
<1>1. n \in U
  OBVIOUS
<1>2. PICK u \in U : \A v \in U : u <= v
  <2>1. U \subseteq Nat /\ U # {}
    BY <1>1
  <2>2. QED
    BY <2>1, HasLeast
<1>3. u \in Nat /\ \A y \in T : y <= u /\ y \in Nat
  BY <1>2
<1>4. u \in T
  <2> SUFFICES ASSUME u \notin T PROVE FALSE
    OBVIOUS
  <2>1. \A y \in T : y < u
    BY <1>3
  <2>2. u > 0
    <3>1. PICK y \in T : TRUE
      OBVIOUS
    <3>2. y \in Nat /\ y < u
      BY <1>3, <2>1
    <3>3. QED
      BY <1>3, <3>2
  <2>3. \A y \in T : y <= u - 1
    BY <1>3, <2>1
  <2>4. u - 1 \in U
    BY <1>2, <2>2, <2>3
  <2>5. QED
    BY <1>2, <1>3, <2>4
<1>5. \E x \in T : \A y \in T : x >= y
  BY <1>3, <1>4
<1>6. Max(T) \in T /\ \A y \in T : Max(T) >= y
  BY <1>5 DEF Max
<1>7. QED
  BY <1>3, <1>6

(* Sets of numbers can be put in order. *)
IsAscending(q) == \A i, j \in DOMAIN q : i < j => q[i] < q[j]

Orderable(S) == \E q \in [1..Cardinality(S) -> S] : IsAscending(q)

(* A greater number goes to the end. *)
LEMMA AddLast ==
  ASSUME NEW n \in Nat, NEW S, S \subseteq 1..n, Orderable(S)
  PROVE  Orderable(S \cup {n + 1})
<1> DEFINE m == Cardinality(S)
           T == S \cup {n + 1}
<1>1. IsFiniteSet(S) /\ m \in Nat
  <2>1. IsFiniteSet(1..n)
    BY FS_Interval
  <2>2. IsFiniteSet(S)
    BY <2>1, FS_Subset
  <2>3. QED
    BY <2>2, FS_CardinalityType
<1>2. n + 1 \notin S
  OBVIOUS
<1>3. Cardinality(T) = m + 1
  BY <1>1, <1>2, FS_AddElement
<1>4. PICK q \in [1..m -> S] : IsAscending(q)
  BY DEF Orderable
<1> HIDE DEF m
<1> DEFINE r == [i \in 1..(m + 1) |-> IF i = m + 1 THEN n + 1 ELSE q[i]]
<1>5. \A i \in 1..(m + 1) : i # m + 1 => i \in 1..m /\ q[i] \in S /\ q[i] < n + 1
  <2>1. \A i \in 1..(m + 1) : i # m + 1 => i \in 1..m
    BY <1>1
  <2>2. \A k \in S : k < n + 1
    OBVIOUS
  <2>3. QED
    BY <1>4, <2>1, <2>2
<1>6. r \in [1..(m + 1) -> T]
  BY <1>5
<1>7. IsAscending(r)
  <2> SUFFICES ASSUME NEW i \in 1..(m + 1), NEW j \in 1..(m + 1), i < j PROVE r[i] < r[j]
    BY DEF IsAscending
  <2>1. i # m + 1 /\ i \in 1..m /\ q[i] < n + 1
    BY <1>1, <1>5
  <2>2. CASE j = m + 1
    BY <2>1, <2>2
  <2>3. CASE j # m + 1
    <3>1. j \in 1..m
      BY <1>5, <2>3
    <3>2. q[i] < q[j]
      BY <1>4, <2>1, <3>1 DEF IsAscending
    <3>3. QED
      BY <2>1, <2>3, <3>2
  <2>4. QED
    BY <2>2, <2>3
<1> HIDE DEF r, T
<1>8. QED
  BY <1>3, <1>6, <1>7 DEF Orderable, T

(* Every finite set of numbers can be put in order, by induction on a      *)
(* bound of it.                                                            *)
LEMMA AllOrderable == ASSUME NEW n \in Nat, NEW S, S \subseteq 1..n PROVE Orderable(S)
<1> DEFINE Bad == {k \in Nat : \E U \in SUBSET (1..k) : ~Orderable(U)}
<1>1. SUFFICES ASSUME Bad # {} PROVE FALSE
  OBVIOUS
<1>2. PICK k \in Bad : \A i \in Bad : k <= i
  BY <1>1, HasLeast
<1>3. PICK U \in SUBSET (1..k) : ~Orderable(U)
  BY <1>2
<1>4. k # 0
  <2> SUFFICES ASSUME k = 0 PROVE FALSE
    OBVIOUS
  <2>1. U = {}
    OBVIOUS
  <2>2. Cardinality(U) = 0
    BY <2>1, FS_EmptySet
  <2>3. << >> \in [1..0 -> U] /\ IsAscending(<< >>)
    BY DEF IsAscending
  <2>4. QED
    BY <1>3, <2>2, <2>3 DEF Orderable
<1>5. k - 1 \in Nat /\ k - 1 \notin Bad /\ k \in Nat
  BY <1>2, <1>4
<1>6. \A W \in SUBSET (1..(k - 1)) : Orderable(W)
  BY <1>5
<1> HIDE DEF Bad
<1>7. U \ {k} \in SUBSET (1..(k - 1))
  BY <1>5
<1>8. Orderable((U \ {k}) \cup {k - 1 + 1})
  BY <1>5, <1>6, <1>7, AddLast
<1>9. k - 1 + 1 = k
  BY <1>5
<1>10. CASE k \in U
  <2>1. (U \ {k}) \cup {k} = U
    BY <1>10
  <2>2. QED
    BY <1>3, <1>8, <1>9, <2>1
<1>11. CASE k \notin U
  <2>1. U \ {k} = U
    BY <1>11
  <2>2. QED
    BY <1>3, <1>6, <1>7, <2>1
<1>12. QED
  BY <1>10, <1>11

(* What Ascending makes of a set of ids. *)
LEMMA AscendingIds ==
  ASSUME NEW n \in Nat, NEW S, S \subseteq 1..n
  PROVE  /\ Cardinality(S) \in Nat
         /\ Ascending(S) \in [1..Cardinality(S) -> S]
         /\ \A i, j \in 1..Cardinality(S) : i < j => Ascending(S)[i] < Ascending(S)[j]
<1>1. Cardinality(S) \in Nat
  <2>1. IsFiniteSet(1..n)
    BY FS_Interval
  <2>2. QED
    BY <2>1, FS_Subset, FS_CardinalityType
<1>2. \E q \in [1..Cardinality(S) -> S] : \A i, j \in DOMAIN q : i < j => q[i] < q[j]
  BY AllOrderable DEF Orderable, IsAscending
<1>3. /\ Ascending(S) \in [1..Cardinality(S) -> S]
      /\ \A i, j \in DOMAIN Ascending(S) : i < j => Ascending(S)[i] < Ascending(S)[j]
  BY <1>2 DEF Ascending
<1>4. QED
  BY <1>1, <1>3
-----------------------------------------------------------------------------
(* The invariant.  What the bot is doing and what it has in hand. *)
Stages ==
  /\ pc \notin {"boot", "poll"} => tasks = {}
  /\ pc \notin {"poll", "emit"} => orderEvents = {} /\ messageEvents = << >>
  /\ pc = "boot" => \A o \in Orders : mode[o] = "mark"

(* What is taken for seen is there; a fetch returns no more than is there, *)
(* and all that was there when the bootstrap began.                        *)
There(s) == s.orders \subseteq placed /\ \A c \in Chats : s.messages[c] <= Len(log[c])

Seen ==
  /\ There(saved) /\ \A w \in late : There(w.to)
  /\ seenOrders \subseteq placed
  /\ \A c \in Chats : seenMessages[c] <= Len(log[c]) /\ past[c] <= Len(log[c])
  /\ \A o \in tasks : snap[o] # NotYet =>
       past[ChatOf[o]] <= snap[o] /\ snap[o] <= Len(log[ChatOf[o]])

(* In a store that keeps what it was told, no file call of a dropped save  *)
(* runs on, and neither a fetch nor what the running bot has seen is       *)
(* behind the save.                                                        *)
Kept ==
  /\ late = {}
  /\ pc # "off" => /\ saved.orders \subseteq seenOrders
                   /\ \A c \in Chats : saved.messages[c] <= seenMessages[c]
  /\ \A o \in tasks : snap[o] # NotYet => saved.messages[ChatOf[o]] <= snap[o]

IndKept == ~lapsed => Kept

(* Before the first step everything is empty. *)
LEMMA InitInvariant == Init => TypeOK /\ Stages /\ Seen /\ IndKept
<1> SUFFICES ASSUME Init PROVE TypeOK /\ Stages /\ Seen /\ IndKept
  OBVIOUS
<1>1. TypeOK
  <2>1. /\ log \in [Chats -> Seq({"own", "buyer"})] /\ messageEvents \in Seq(Chats \X Nat)
        /\ handedMessages \in [Chats -> Seq(Nat)]
    BY DEF Init
  <2>2. /\ saved \in BotStates /\ late = {} /\ lapsed \in BOOLEAN
        /\ seenMessages \in [Chats -> Nat] /\ past \in [Chats -> Nat]
    BY DEF Init, BotStates, DefaultState, NoMessages
  <2>3. /\ mode \in [Orders -> {"emit", "mark"}] /\ snap \in [Orders -> Nat \cup {NotYet}]
        /\ handedOrders \in [Orders -> Nat]
    BY DEF Init
  <2>4. QED
    BY <2>1, <2>2, <2>3 DEF Init, TypeOK
<1>2. Stages
  BY DEF Init, Stages
<1>3. Seen
  <2>1. \A c \in Chats : /\ saved.messages[c] = 0 /\ seenMessages[c] = 0 /\ past[c] = 0
                        /\ Len(log[c]) = 0
    BY DEF Init, DefaultState, NoMessages
  <2>2. tasks = {} /\ late = {} /\ seenOrders = {} /\ saved.orders = {}
    BY DEF Init, DefaultState
  <2>3. QED
    BY <2>1, <2>2 DEF Seen, There
<1>4. IndKept
  BY DEF Init, IndKept, Kept
<1>5. QED
  BY <1>1, <1>2, <1>3, <1>4

(* What a step can do to the store: it holds what it held, what the bot    *)
(* has seen, what a dropped save writes late, or nothing any more.         *)
Now == [orders |-> seenOrders, messages |-> seenMessages]

LEMMA StoreMoves ==
  ASSUME TypeOK, [Next]_vars
  PROVE  /\ \/ saved' \in {saved, Now, DefaultState}
            \/ \E w \in late : saved' = w.to
         /\ \A w \in late' : w \in late \/ (w.to = Now /\ w.from = saved)
         /\ lapsed' \in BOOLEAN /\ (lapsed => lapsed')
<1>a. ASSUME UNCHANGED store PROVE /\ UNCHANGED saved /\ UNCHANGED late
                                    /\ lapsed' \in BOOLEAN /\ (lapsed => lapsed')
  BY <1>a DEF TypeOK
<1>b. ASSUME Written
      PROVE  /\ saved' = Now \/ \E w \in late : saved' = w.to
             /\ late' \subseteq late /\ lapsed' \in BOOLEAN /\ (lapsed => lapsed')
  BY <1>b DEF Written, Now, TypeOK
<1>1. ASSUME NEW b \in BOOLEAN, Start(b)
      PROVE  /\ UNCHANGED saved /\ UNCHANGED late
             /\ lapsed' \in BOOLEAN /\ (lapsed => lapsed')
  BY <1>1 DEF Start, TypeOK
<1>2. CASE Save
  BY <1>2, <1>a, <1>b DEF Save, WriteFails
<1>3. CASE Drop
  <2>1. UNCHANGED saved
    BY <1>3 DEF Drop
  <2>2. CASE UNCHANGED << late, lapsed >>
    BY <2>1, <2>2 DEF TypeOK
  <2>3. CASE /\ late' = late \cup {[from |-> saved, to |-> Now]}
             /\ lapsed' = TRUE
    BY <2>1, <2>3
  <2>4. QED
    BY <1>3, <2>2, <2>3 DEF Drop, Now
<1>4. CASE LateWrite
  BY <1>4 DEF LateWrite, TypeOK
<1>5. CASE Stop
  <2>1. /\ late' = {} /\ lapsed' = (lapsed \/ saved' # saved)
        /\ saved' \in IF StoreKind = "memory" THEN {DefaultState}
                     ELSE {saved} \cup {w.to : w \in {v \in late : v.from = saved}}
    BY <1>5 DEF Stop
  <2>2. saved' \in {saved, DefaultState} \/ \E w \in late : saved' = w.to
    BY <2>1
  <2>3. QED
    BY <2>1, <2>2 DEF TypeOK
<1>6. ASSUME NEW o \in Orders, FetchChat(o) \/ HandleOrder(o) \/ Join(o) \/ PlaceOrder(o)
      PROVE  UNCHANGED store
  BY <1>6 DEF FetchChat, HandleOrder, Join, PlaceOrder
<1>7. ASSUME Poll \/ HandleMessage \/ EndCycle \/ UNCHANGED vars
      PROVE  UNCHANGED store
  BY <1>7 DEF Poll, HandleMessage, EndCycle, vars
<1>8. ASSUME NEW c \in Chats, NEW a \in {"own", "buyer"}, Post(c, a) PROVE UNCHANGED store
  BY <1>8 DEF Post
<1>9. QED
  BY <1>a, <1>1, <1>2, <1>3, <1>4, <1>5, <1>6, <1>7, <1>8 DEF Next, OwnStep, Answered

(* The site's page and its chats only grow. *)
LEMMA PlacedGrows == [Next]_vars => placed \subseteq placed'
BY DEF Next, OwnStep, Answered, PlaceOrder, Post, Start, Poll, FetchChat, Join, Save, HandleOrder,
       HandleMessage, EndCycle, Drop, LateWrite, Stop, Ended, vars

(* Chats only grow. *)
LEMMA LogGrows ==
  ASSUME TypeOK, [Next]_vars
  PROVE  /\ log' \in [Chats -> Seq({"own", "buyer"})]
         /\ \A c \in Chats : Len(log[c]) \in Nat /\ Len(log'[c]) \in Nat
         /\ \A c \in Chats : Len(log[c]) <= Len(log'[c])
<1>1. ASSUME NEW c \in Chats, NEW a \in {"own", "buyer"}, log' = [log EXCEPT ![c] = Append(@, a)]
      PROVE  /\ log' \in [Chats -> Seq({"own", "buyer"})]
             /\ \A d \in Chats : Len(log[d]) <= Len(log'[d])
  <2>1. /\ log[c] \in Seq({"own", "buyer"}) /\ log' = [log EXCEPT ![c] = Append(log[c], a)]
        /\ Append(log[c], a) \in Seq({"own", "buyer"})
        /\ Len(Append(log[c], a)) = Len(log[c]) + 1
    BY <1>1 DEF TypeOK
  <2>2. \A d \in Chats : log[d] \in Seq({"own", "buyer"}) /\ Len(log[d]) \in Nat
    BY DEF TypeOK
  <2>3. \A d \in Chats : log'[d] = IF d = c THEN Append(log[c], a) ELSE log[d]
    BY <2>1 DEF TypeOK
  <2>4. log' \in [Chats -> Seq({"own", "buyer"})]
    BY <2>1 DEF TypeOK
  <2>5. QED
    BY <2>1, <2>2, <2>3, <2>4
<1>2. ASSUME UNCHANGED log
      PROVE  /\ log' \in [Chats -> Seq({"own", "buyer"})]
             /\ \A d \in Chats : Len(log[d]) <= Len(log'[d])
  <2>1. \A d \in Chats : log[d] \in Seq({"own", "buyer"})
    BY DEF TypeOK
  <2>2. \A d \in Chats : Len(log[d]) \in Nat
    BY <2>1
  <2>3. QED
    BY <1>2, <2>2 DEF TypeOK
<1>3. \/ UNCHANGED log
      \/ \E c \in Chats, a \in {"own", "buyer"} : log' = [log EXCEPT ![c] = Append(@, a)]
  <2>1. ASSUME NEW o \in Orders, HandleOrder(o)
        PROVE  \/ UNCHANGED log
               \/ \E c \in Chats : log' = [log EXCEPT ![c] = Append(@, "own")]
    BY <2>1, BotAssumption DEF HandleOrder
  <2>2. QED
    BY <2>1 DEF Next, OwnStep, Answered, PlaceOrder, Post, Start, Poll, FetchChat, Join, Save,
                HandleMessage, EndCycle, Drop, LateWrite, Stop, Ended, vars
<1>4. log' \in [Chats -> Seq({"own", "buyer"})] /\ \A c \in Chats : Len(log[c]) <= Len(log'[c])
  BY <1>1, <1>2, <1>3
<1>5. \A c \in Chats : Len(log[c]) \in Nat /\ Len(log'[c]) \in Nat
  <2>1. \A c \in Chats : log[c] \in Seq({"own", "buyer"}) /\ log'[c] \in Seq({"own", "buyer"})
    BY <1>4 DEF TypeOK
  <2>2. QED
    BY <2>1
<1>6. QED
  BY <1>4, <1>5

(* What a fetch taken to emit its messages adds to the events: ids that    *)
(* have not been seen, in order, and seen from here on.                    *)
Tells(o, new) ==
  LET c == ChatOf[o] IN
  /\ mode[o] = "emit" /\ messageEvents' = messageEvents \o new /\ new \in Seq({c} \X Nat)
  /\ \A k \in DOMAIN new : seenMessages[c] < new[k][2] /\ new[k][2] <= seenMessages'[c]
  /\ \A j, k \in DOMAIN new : j < k => new[j][2] < new[k][2]
  /\ seenMessages[c] <= seenMessages'[c]

(* One taken to mark them only sets what has been seen. *)
Marks(o) ==
  /\ mode[o] = "mark" /\ UNCHANGED messageEvents
  /\ seenMessages'[ChatOf[o]] = IF snap[o] > 0 THEN snap[o] ELSE seenMessages[ChatOf[o]]

(* Taking the result of a fetch is one or the other, about one chat.       *)
LEMMA JoinEffect ==
  ASSUME TypeOK, Seen, NEW o \in Orders, Join(o)
  PROVE  /\ Marks(o) \/ \E new : Tells(o, new)
         /\ seenMessages' \in [Chats -> Nat]
         /\ \A c \in Chats \ {ChatOf[o]} : seenMessages'[c] = seenMessages[c]
         /\ seenMessages'[ChatOf[o]] <= Len(log[ChatOf[o]])
<1> DEFINE c == ChatOf[o]
           ids == Emitted(c, snap[o])
<1>1. /\ c \in Chats /\ o \in tasks /\ snap[o] # NotYet /\ snap[o] \in Nat
      /\ seenMessages[c] \in Nat /\ Len(log[c]) \in Nat
      /\ snap[o] <= Len(log[c]) /\ seenMessages[c] <= Len(log[c])
  <2>1. c \in Chats /\ o \in tasks /\ snap[o] # NotYet
    BY BotAssumption DEF Join
  <2>2. snap[o] \in Nat /\ seenMessages[c] \in Nat /\ log[c] \in Seq({"own", "buyer"})
    BY <2>1 DEF TypeOK
  <2>3. QED
    BY <2>1, <2>2 DEF Seen
<1>2. CASE JoinEmit(o)
  <2> DEFINE new == [k \in 1..Cardinality(ids) |-> << c, Ascending(ids)[k] >>]
  <2>1. /\ mode[o] = "emit" /\ messageEvents' = messageEvents \o new
        /\ seenMessages' = [seenMessages EXCEPT ![c] = Max(ids \cup {seenMessages[c]})]
    BY <1>2 DEF JoinEmit
  <2>2. ids \subseteq 1..snap[o] /\ \A i \in ids : i > seenMessages[c]
    BY DEF Emitted
  <2> HIDE DEF ids
  <2>3. /\ ids \cup {seenMessages[c]} \subseteq 0..Len(log[c])
        /\ ids \cup {seenMessages[c]} # {}
    <3>1. \A i \in 1..snap[o] : i \in 0..Len(log[c])
      BY <1>1
    <3>2. seenMessages[c] \in 0..Len(log[c])
      BY <1>1
    <3>3. QED
      BY <2>2, <3>1, <3>2
  <2>4. /\ Max(ids \cup {seenMessages[c]}) \in ids \cup {seenMessages[c]}
        /\ \A i \in ids \cup {seenMessages[c]} : i <= Max(ids \cup {seenMessages[c]})
    BY <1>1, <2>3, HasGreatest
  <2>5. /\ Cardinality(ids) \in Nat /\ Ascending(ids) \in [1..Cardinality(ids) -> ids]
        /\ \A i, j \in 1..Cardinality(ids) : i < j => Ascending(ids)[i] < Ascending(ids)[j]
    BY <1>1, <2>2, AscendingIds
  <2>a. Max(ids \cup {seenMessages[c]}) \in 0..Len(log[c])
    BY <2>3, <2>4
  <2>b. Max(ids \cup {seenMessages[c]}) \in Nat /\ Max(ids \cup {seenMessages[c]}) <= Len(log[c])
    BY <1>1, <2>a
  <2>6. /\ seenMessages' \in [Chats -> Nat] /\ seenMessages'[c] = Max(ids \cup {seenMessages[c]})
        /\ \A d \in Chats \ {c} : seenMessages'[d] = seenMessages[d]
    BY <1>1, <2>1, <2>b DEF TypeOK
  <2>7. seenMessages'[c] <= Len(log[c]) /\ seenMessages[c] <= seenMessages'[c]
    BY <2>4, <2>6, <2>b
  <2>8. \A k \in 1..Cardinality(ids) :
          /\ new[k] \in {c} \X Nat /\ new[k][2] = Ascending(ids)[k]
          /\ Ascending(ids)[k] \in ids
    <3>1. \A k \in 1..Cardinality(ids) : Ascending(ids)[k] \in ids
      BY <2>5
    <3>2. \A i \in ids : i \in Nat
      BY <1>1, <2>2
    <3>3. QED
      BY <3>1, <3>2
  <2>9. new \in Seq({c} \X Nat) /\ DOMAIN new = 1..Cardinality(ids)
    BY <2>5, <2>8
  <2> HIDE DEF new
  <2>10. \A k \in DOMAIN new : seenMessages[c] < new[k][2] /\ new[k][2] <= seenMessages'[c]
    BY <1>1, <2>2, <2>4, <2>6, <2>8, <2>9
  <2>11. \A j, k \in DOMAIN new : j < k => new[j][2] < new[k][2]
    BY <2>5, <2>8, <2>9
  <2>12. Tells(o, new)
    BY <2>1, <2>7, <2>9, <2>10, <2>11 DEF Tells
  <2>13. QED
    BY <2>6, <2>7, <2>12
<1>3. CASE JoinMark(o)
  <2>1. /\ mode[o] = "mark" /\ UNCHANGED messageEvents
        /\ seenMessages' = IF snap[o] > 0 THEN [seenMessages EXCEPT ![c] = snap[o]]
                           ELSE seenMessages
    BY <1>3 DEF JoinMark
  <2>2. QED
    BY <1>1, <2>1 DEF Marks, TypeOK
<1>4. QED
  BY <1>2, <1>3 DEF Join

(* Every step keeps the types. *)
LEMMA NextType == TypeOK /\ Seen /\ [Next]_vars => TypeOK'
<1> SUFFICES ASSUME TypeOK, Seen, [Next]_vars PROVE TypeOK'
  OBVIOUS
<1>a. /\ log' \in [Chats -> Seq({"own", "buyer"})] /\ lapsed' \in BOOLEAN
      /\ saved' \in BotStates /\ \A w \in late' : w.from \in BotStates /\ w.to \in BotStates
  <2>1. Now \in BotStates /\ DefaultState \in BotStates /\ saved \in BotStates
    BY DEF TypeOK, BotStates, Now, DefaultState, NoMessages
  <2>2. \A w \in late : w.from \in BotStates /\ w.to \in BotStates
    BY DEF TypeOK
  <2>3. QED
    BY <2>1, <2>2, LogGrows, StoreMoves
<1>b. \A o \in Orders : ChatOf[o] \in Chats /\ log[ChatOf[o]] \in Seq({"own", "buyer"})
  BY BotAssumption DEF TypeOK
<1>1. ASSUME NEW o \in Orders, PlaceOrder(o) PROVE TypeOK'
  BY <1>a, <1>1 DEF TypeOK, PlaceOrder
<1>2. ASSUME NEW c \in Chats, NEW a \in {"own", "buyer"}, Post(c, a) PROVE TypeOK'
  BY <1>a, <1>2 DEF TypeOK, Post
<1>3. ASSUME NEW b \in BOOLEAN, Start(b) PROVE TypeOK'
  <2>1. \A c \in Chats : Len(log[c]) \in Nat
    BY LogGrows
  <2>a. \/ past' = [c \in Chats |->
                      IF \E o \in placed : ChatOf[o] = c THEN Len(log[c]) ELSE past[c]]
        \/ UNCHANGED past
    BY <1>3 DEF Start
  <2>2. past' \in [Chats -> Nat]
    <3>1. past \in [Chats -> Nat]
      BY DEF TypeOK
    <3>2. \A c \in Chats :
            (IF \E o \in placed : ChatOf[o] = c THEN Len(log[c]) ELSE past[c]) \in Nat
      BY <2>1, <3>1
    <3>3. QED
      BY <2>a, <3>1, <3>2
  <2>3. /\ tasks' \subseteq Orders
        /\ mode' \in [Orders -> {"emit", "mark"}] /\ snap' \in [Orders -> Nat \cup {NotYet}]
    BY <1>3 DEF TypeOK, Start, StartTasks
  <2>4. /\ seenOrders' \subseteq Orders /\ seenMessages' \in [Chats -> Nat]
        /\ lossy' \in BOOLEAN
    <3>1. PICK m \in Loaded :
            /\ seenOrders' = m.orders \cup (IF b THEN placed ELSE {})
            /\ seenMessages' = m.messages /\ lossy' = (lossy \/ m # saved)
      BY <1>3 DEF Start
    <3>2. m \in BotStates
      BY DEF Loaded, TypeOK, BotStates, DefaultState, NoMessages
    <3>3. m.orders \subseteq Orders /\ m.messages \in [Chats -> Nat] /\ placed \subseteq Orders
      BY <3>2 DEF BotStates, TypeOK
    <3>4. QED
      BY <3>1, <3>3
  <2>5. /\ pc' \in {"boot", "idle"}
        /\ UNCHANGED << site, orderEvents, messageEvents, handed >>
    BY <1>3 DEF Start
  <2>6. QED
    BY <1>a, <2>2, <2>3, <2>4, <2>5 DEF TypeOK
<1>4. CASE Poll
  <2>1. /\ seenOrders' \subseteq Orders /\ tasks' \subseteq Orders /\ orderEvents' \subseteq Orders
        /\ mode' \in [Orders -> {"emit", "mark"}] /\ snap' \in [Orders -> Nat \cup {NotYet}]
        /\ messageEvents' \in Seq(Chats \X Nat)
    BY <1>4 DEF TypeOK, Poll, StartTasks
  <2>2. QED
    BY <1>4, <1>a, <2>1 DEF TypeOK, Poll
<1>5. ASSUME NEW o \in Orders, FetchChat(o) PROVE TypeOK'
  <2>1. Len(log[ChatOf[o]]) \in Nat
    BY <1>b
  <2>2. CASE snap' = [snap EXCEPT ![o] = Len(log[ChatOf[o]])] /\ UNCHANGED << tasks, past, lossy >>
    <3>1. snap' \in [Orders -> Nat \cup {NotYet}]
      BY <2>1, <2>2 DEF TypeOK
    <3>2. QED
      BY <1>5, <1>a, <2>2, <3>1 DEF TypeOK, FetchChat
  <2>3. CASE /\ UNCHANGED snap /\ tasks' = tasks \ {o} /\ lossy' = TRUE
             /\ past' = IF pc = "boot" THEN [past EXCEPT ![ChatOf[o]] = 0] ELSE past
    <3>1. past' \in [Chats -> Nat]
      BY <2>3 DEF TypeOK
    <3>2. QED
      BY <1>5, <1>a, <2>3, <3>1 DEF TypeOK, FetchChat
  <2>4. QED
    BY <1>5, <2>2, <2>3 DEF FetchChat
<1>6. ASSUME NEW o \in Orders, Join(o) PROVE TypeOK'
  <2>1. messageEvents' \in Seq(Chats \X Nat)
    <3>1. CASE Marks(o)
      BY <3>1 DEF Marks, TypeOK
    <3>2. CASE \E new : Tells(o, new)
      <4>1. PICK new : messageEvents' = messageEvents \o new /\ new \in Seq({ChatOf[o]} \X Nat)
        BY <3>2 DEF Tells
      <4>2. {ChatOf[o]} \X Nat \subseteq Chats \X Nat
        BY <1>b
      <4>3. new \in Seq(Chats \X Nat)
        BY <4>1, <4>2
      <4>4. QED
        BY <4>1, <4>3 DEF TypeOK
    <3>3. QED
      BY <1>6, <3>1, <3>2, JoinEffect
  <2>2. seenMessages' \in [Chats -> Nat]
    BY <1>6, JoinEffect
  <2>3. QED
    BY <1>6, <1>a, <2>1, <2>2 DEF TypeOK, Join
<1>7. CASE Save
  <2>1. CASE /\ pc' = IF pc = "boot" THEN "idle" ELSE "emit"
             /\ UNCHANGED << orderEvents, messageEvents, past, lossy >>
    BY <1>7, <1>a, <2>1 DEF TypeOK, Save
  <2>2. CASE /\ pc' = IF pc = "boot" THEN "off" ELSE "idle"
             /\ past' = IF pc = "boot" THEN NoMessages ELSE past
             /\ lossy' = TRUE /\ NoEvents
    <3>1. past' \in [Chats -> Nat]
      BY <2>2 DEF TypeOK, NoMessages
    <3>2. orderEvents' \subseteq Orders /\ messageEvents' \in Seq(Chats \X Nat)
      BY <2>2 DEF NoEvents
    <3>3. QED
      BY <1>7, <1>a, <2>2, <3>1, <3>2 DEF TypeOK, Save
  <2>3. QED
    BY <1>7, <2>1, <2>2 DEF Save
<1>8. ASSUME NEW o \in Orders, HandleOrder(o) PROVE TypeOK'
  <2>1. handedOrders' \in [Orders -> Nat]
    BY <1>8 DEF TypeOK, HandleOrder
  <2>a. \/ /\ orderEvents' = orderEvents \ {o} /\ UNCHANGED << messageEvents, pc, lossy >>
        \/ pc' = "idle" /\ lossy' = TRUE /\ orderEvents' = {} /\ messageEvents' = << >>
    BY <1>8 DEF HandleOrder, HandlerReturns, NoEvents
  <2>2. /\ pc' \in {"idle", "emit"} /\ lossy' \in BOOLEAN
        /\ orderEvents' \subseteq Orders /\ messageEvents' \in Seq(Chats \X Nat)
    <3>1. CASE orderEvents' = orderEvents \ {o} /\ UNCHANGED << messageEvents, pc, lossy >>
      BY <1>8, <3>1 DEF TypeOK, HandleOrder
    <3>2. CASE pc' = "idle" /\ lossy' = TRUE /\ orderEvents' = {} /\ messageEvents' = << >>
      BY <3>2
    <3>3. QED
      BY <2>a, <3>1, <3>2
  <2>3. QED
    BY <1>8, <1>a, <2>1, <2>2 DEF TypeOK, HandleOrder
<1>9. CASE HandleMessage
  <2>1. messageEvents \in Seq(Chats \X Nat) /\ messageEvents # << >>
    BY <1>9 DEF TypeOK, HandleMessage
  <2>2. /\ Head(messageEvents) \in Chats \X Nat /\ Tail(messageEvents) \in Seq(Chats \X Nat)
    BY <2>1
  <2>3. PICK c \in Chats, i \in Nat : Head(messageEvents) = << c, i >>
    BY <2>2
  <2>a. Head(messageEvents)[1] = c /\ Head(messageEvents)[2] = i
    BY <2>3
  <2>4. handedMessages' = [handedMessages EXCEPT ![c] = Append(handedMessages[c], i)]
    BY <1>9, <2>a DEF HandleMessage
  <2>b. \/ messageEvents' = Tail(messageEvents) /\ UNCHANGED << orderEvents, pc, lossy >>
        \/ pc' = "idle" /\ lossy' = TRUE /\ orderEvents' = {} /\ messageEvents' = << >>
    BY <1>9 DEF HandleMessage, HandlerReturns, NoEvents
  <2>5. Append(handedMessages[c], i) \in Seq(Nat)
    BY DEF TypeOK
  <2>6. handedMessages' \in [Chats -> Seq(Nat)]
    BY <2>4, <2>5 DEF TypeOK
  <2>7. /\ pc' \in {"idle", "emit"} /\ lossy' \in BOOLEAN
        /\ orderEvents' \subseteq Orders /\ messageEvents' \in Seq(Chats \X Nat)
    <3>1. CASE messageEvents' = Tail(messageEvents) /\ UNCHANGED << orderEvents, pc, lossy >>
      BY <1>9, <2>2, <3>1 DEF TypeOK, HandleMessage
    <3>2. CASE pc' = "idle" /\ lossy' = TRUE /\ orderEvents' = {} /\ messageEvents' = << >>
      BY <3>2
    <3>3. QED
      BY <2>b, <3>1, <3>2
  <2>8. QED
    BY <1>9, <1>a, <2>6, <2>7 DEF TypeOK, HandleMessage
<1>10. CASE EndCycle
  BY <1>10, <1>a DEF TypeOK, EndCycle
<1>11. ASSUME Ended, pc' \in {"off", "idle"} PROVE TypeOK'
  <2>1. /\ past' \in [Chats -> Nat] /\ lossy' \in BOOLEAN /\ tasks' \subseteq Orders
        /\ orderEvents' \subseteq Orders /\ messageEvents' \in Seq(Chats \X Nat)
    BY <1>11 DEF TypeOK, Ended, NoEvents, NoMessages
  <2>2. QED
    BY <1>11, <1>a, <2>1 DEF TypeOK, Ended
<1>12. CASE UNCHANGED vars
  BY <1>12, <1>a DEF TypeOK, vars
<1>13. CASE Drop \/ Stop
  BY <1>11, <1>13 DEF Drop, Stop
<1>14. CASE LateWrite
  BY <1>14, <1>a DEF TypeOK, LateWrite
<1>15. QED
  BY <1>1, <1>2, <1>3, <1>4, <1>5, <1>6, <1>7, <1>8, <1>9, <1>10, <1>12, <1>13, <1>14
     DEF Next, OwnStep, Answered

(* Every step keeps the stages. *)
LEMMA NextStages == TypeOK /\ Stages /\ [Next]_vars => Stages'
<1> SUFFICES ASSUME TypeOK, Stages, [Next]_vars PROVE Stages'
  OBVIOUS
<1>1. ASSUME NEW o \in Orders, PlaceOrder(o) PROVE Stages'
  BY <1>1 DEF Stages, PlaceOrder
<1>2. ASSUME NEW c \in Chats, NEW a \in {"own", "buyer"}, Post(c, a) PROVE Stages'
  BY <1>2 DEF Stages, Post
<1>3. ASSUME NEW b \in BOOLEAN, Start(b) PROVE Stages'
  BY <1>3 DEF Stages, Start, StartTasks
<1>4. CASE Poll
  BY <1>4 DEF Stages, Poll
<1>5. ASSUME NEW o \in Orders, FetchChat(o) PROVE Stages'
  BY <1>5 DEF Stages, FetchChat
<1>6. ASSUME NEW o \in Orders, Join(o) PROVE Stages'
  <2>1. /\ UNCHANGED << pc, mode, orderEvents >> /\ tasks' \subseteq tasks /\ o \in tasks
        /\ JoinEmit(o) \/ JoinMark(o)
    BY <1>6 DEF Join
  <2>2. pc \in {"boot", "poll"}
    BY <2>1 DEF Stages
  <2>3. pc = "boot" => UNCHANGED messageEvents
    <3>1. CASE JoinEmit(o)
      <4>1. mode[o] = "emit"
        BY <3>1 DEF JoinEmit
      <4>2. QED
        BY <4>1 DEF Stages
    <3>2. CASE JoinMark(o)
      BY <3>2 DEF JoinMark
    <3>3. QED
      BY <2>1, <3>1, <3>2
  <2>4. QED
    BY <2>1, <2>2, <2>3 DEF Stages
<1>7. CASE Save
  BY <1>7 DEF Stages, Save, NoEvents
<1>8. ASSUME NEW o \in Orders, HandleOrder(o) PROVE Stages'
  BY <1>8 DEF Stages, HandleOrder, HandlerReturns, NoEvents
<1>9. CASE HandleMessage
  BY <1>9 DEF Stages, HandleMessage, HandlerReturns, NoEvents
<1>10. CASE EndCycle
  BY <1>10 DEF Stages, EndCycle
<1>11. CASE Drop \/ Stop
  BY <1>11 DEF Stages, Drop, Stop, Ended, NoEvents
<1>12. CASE UNCHANGED vars
  BY <1>12 DEF Stages, vars
<1>13. CASE LateWrite
  BY <1>13 DEF Stages, LateWrite
<1>14. QED
  BY <1>1, <1>2, <1>3, <1>4, <1>5, <1>6, <1>7, <1>8, <1>9, <1>10, <1>11, <1>12, <1>13
     DEF Next, OwnStep, Answered

(* Every step keeps what has been seen behind what is there.               *)
LEMMA NextSeen == TypeOK /\ TypeOK' /\ Stages /\ Seen /\ [Next]_vars => Seen'
<1> SUFFICES ASSUME TypeOK, TypeOK', Stages, Seen, [Next]_vars PROVE Seen'
  OBVIOUS
<1>a. /\ \A c \in Chats : Len(log[c]) \in Nat /\ Len(log'[c]) \in Nat /\ Len(log[c]) <= Len(log'[c])
      /\ placed \subseteq placed'
  BY LogGrows, PlacedGrows
<1>b. /\ \A o \in Orders : ChatOf[o] \in Chats
      /\ \A c \in Chats : seenMessages[c] \in Nat /\ past[c] \in Nat
      /\ \A o \in Orders : snap[o] # NotYet => snap[o] \in Nat
  BY BotAssumption DEF TypeOK
<1>s. There(saved)' /\ \A w \in late' : There(w.to)'
  <2>1. ASSUME NEW s \in BotStates, There(s)
        PROVE  s.orders \subseteq placed' /\ \A c \in Chats : s.messages[c] <= Len(log'[c])
    <3>1. \A c \in Chats : s.messages[c] \in Nat
      BY DEF BotStates
    <3>2. QED
      BY <1>a, <2>1, <3>1 DEF There
  <2>2. /\ saved \in BotStates /\ There(saved) /\ Now \in BotStates /\ There(Now)
        /\ DefaultState \in BotStates /\ There(DefaultState)
    <3>1. saved \in BotStates /\ There(saved)
      BY DEF TypeOK, Seen
    <3>2. Now \in BotStates /\ There(Now)
      BY DEF TypeOK, BotStates, Now, Seen, There
    <3>3. DefaultState \in BotStates /\ There(DefaultState)
      BY <1>a DEF BotStates, DefaultState, NoMessages, There
    <3>4. QED
      BY <3>1, <3>2, <3>3
  <2>3. \A w \in late : w.to \in BotStates /\ There(w.to)
    BY DEF TypeOK, Seen
  <2>4. There(saved)'
    <3>1. /\ saved'.orders \subseteq placed'
          /\ \A c \in Chats : saved'.messages[c] <= Len(log'[c])
      BY <2>1, <2>2, <2>3, StoreMoves
    <3>2. QED
      BY <3>1 DEF There
  <2>5. ASSUME NEW w \in late' PROVE There(w.to)'
    <3>1. w.to \in BotStates /\ There(w.to)
      BY <2>2, <2>3, <2>5, StoreMoves
    <3>2. /\ w.to.orders \subseteq placed'
          /\ \A c \in Chats : w.to.messages[c] <= Len(log'[c])
      BY <2>1, <3>1
    <3>3. QED
      BY <3>2 DEF There
  <2>6. QED
    BY <2>4, <2>5
<1>c. ASSUME UNCHANGED << seenOrders, seenMessages, snap >>, tasks' \subseteq tasks,
             \A c \in Chats : past'[c] = past[c] \/ past'[c] = 0
      PROVE  Seen'
  <2>1. \A c \in Chats : seenMessages[c] <= Len(log'[c]) /\ past'[c] <= Len(log'[c])
    BY <1>a, <1>b, <1>c DEF Seen
  <2>2. seenOrders' \subseteq placed'
    BY <1>a, <1>c DEF Seen
  <2>3. \A o \in tasks' : snap[o] # NotYet =>
          past'[ChatOf[o]] <= snap[o] /\ snap[o] <= Len(log'[ChatOf[o]])
    <3> SUFFICES ASSUME NEW o \in tasks, snap[o] # NotYet
                 PROVE  past'[ChatOf[o]] <= snap[o] /\ snap[o] <= Len(log'[ChatOf[o]])
      BY <1>c
    <3>1. past[ChatOf[o]] <= snap[o] /\ snap[o] <= Len(log[ChatOf[o]]) /\ o \in Orders
      BY DEF Seen, TypeOK
    <3>2. QED
      BY <1>a, <1>b, <1>c, <3>1
  <2>4. QED
    BY <1>c, <1>s, <2>1, <2>2, <2>3 DEF Seen
<1>1. ASSUME NEW o \in Orders, PlaceOrder(o) PROVE Seen'
  BY <1>1, <1>c DEF PlaceOrder
<1>2. ASSUME NEW c \in Chats, NEW a \in {"own", "buyer"}, Post(c, a) PROVE Seen'
  BY <1>2, <1>c DEF Post
<1>3. ASSUME NEW b \in BOOLEAN, Start(b) PROVE Seen'
  <2>1. PICK m \in Loaded : /\ seenOrders' = m.orders \cup (IF b THEN placed ELSE {})
                            /\ seenMessages' = m.messages
    BY <1>3 DEF Start
  <2>2. There(m)
    BY <1>a DEF Loaded, Seen, There, DefaultState, NoMessages
  <2>3. UNCHANGED << placed, log >> /\ pc = "off"
    BY <1>3 DEF Start
  <2>4. \A c \in Chats : past'[c] = past[c] \/ past'[c] = Len(log[c])
    BY <1>3 DEF Start, TypeOK
  <2>5. \A c \in Chats : seenMessages'[c] <= Len(log[c]) /\ past'[c] <= Len(log[c])
    BY <1>a, <2>1, <2>2, <2>4 DEF Seen, There
  <2>6. \A o \in tasks' : snap'[o] = NotYet
    BY <1>3, <2>3 DEF Start, StartTasks, Stages, TypeOK
  <2>7. seenOrders' \subseteq placed
    BY <2>1, <2>2 DEF There
  <2>8. QED
    BY <1>s, <2>3, <2>5, <2>6, <2>7 DEF Seen
<1>4. CASE Poll
  <2>1. /\ UNCHANGED << placed, log, seenMessages, past >>
        /\ seenOrders' = seenOrders \cup placed /\ \A o \in tasks' : snap'[o] = NotYet
    BY <1>4 DEF Poll, StartTasks, TypeOK
  <2>2. QED
    BY <1>s, <2>1 DEF Seen
<1>5. ASSUME NEW o \in Orders, FetchChat(o) PROVE Seen'
  <2>1. CASE snap' = [snap EXCEPT ![o] = Len(log[ChatOf[o]])] /\ UNCHANGED << tasks, past, lossy >>
    <3>1. UNCHANGED << placed, log, seenMessages, seenOrders, past, tasks >>
      BY <1>5, <2>1 DEF FetchChat
    <3>2. \A u \in tasks : snap'[u] = IF u = o THEN Len(log[ChatOf[o]]) ELSE snap[u]
      BY <2>1 DEF TypeOK
    <3>3. /\ past[ChatOf[o]] <= Len(log[ChatOf[o]])
          /\ Len(log[ChatOf[o]]) <= Len(log[ChatOf[o]])
      BY <1>a, <1>b DEF Seen
    <3>4. QED
      BY <1>s, <3>1, <3>2, <3>3 DEF Seen
  <2>2. CASE tasks' = tasks \ {o} /\ UNCHANGED snap
             /\ past' = IF pc = "boot" THEN [past EXCEPT ![ChatOf[o]] = 0] ELSE past
    <3>1. \A c \in Chats : past'[c] = past[c] \/ past'[c] = 0
      BY <2>2 DEF TypeOK
    <3>2. QED
      BY <1>5, <1>c, <2>2, <3>1 DEF FetchChat
  <2>3. QED
    BY <1>5, <2>1, <2>2 DEF FetchChat
<1>6. ASSUME NEW o \in Orders, Join(o) PROVE Seen'
  <2> DEFINE c == ChatOf[o]
  <2>1. UNCHANGED << placed, log, seenOrders, past, snap >> /\ tasks' \subseteq tasks
    BY <1>6 DEF Join
  <2>2. /\ \A d \in Chats \ {c} : seenMessages'[d] = seenMessages[d]
        /\ seenMessages'[c] <= Len(log[c])
    BY <1>6, <1>b, JoinEffect
  <2> HIDE DEF c
  <2>3. QED
    BY <1>s, <2>1, <2>2 DEF Seen
<1>7. CASE Save
  <2>1. tasks' = {} /\ UNCHANGED << placed, log, seenOrders, seenMessages, snap >>
    BY <1>7 DEF Save
  <2>2. \A c \in Chats : past'[c] = past[c] \/ past'[c] = 0
    BY <1>7 DEF Save, NoMessages
  <2>3. QED
    BY <1>c, <2>1, <2>2
<1>8. ASSUME NEW o \in Orders, HandleOrder(o) PROVE Seen'
  BY <1>8, <1>c DEF HandleOrder
<1>9. CASE HandleMessage
  BY <1>9, <1>c DEF HandleMessage
<1>10. CASE EndCycle
  BY <1>10, <1>c DEF EndCycle
<1>11. CASE Drop \/ Stop
  <2>1. Ended
    BY <1>11 DEF Drop, Stop
  <2>2. /\ \A c \in Chats : past'[c] = past[c] \/ past'[c] = 0
        /\ tasks' = {} /\ UNCHANGED << seenOrders, seenMessages, snap >>
    BY <2>1 DEF Ended, NoMessages
  <2>3. QED
    BY <1>c, <2>2
<1>12. CASE UNCHANGED vars
  BY <1>12, <1>c DEF vars
<1>13. CASE LateWrite
  BY <1>13, <1>c DEF LateWrite
<1>14. QED
  BY <1>1, <1>2, <1>3, <1>4, <1>5, <1>6, <1>7, <1>8, <1>9, <1>10, <1>11, <1>12, <1>13
     DEF Next, OwnStep, Answered
-----------------------------------------------------------------------------
(* What the steps that use the store do as long as it keeps what it was    *)
(* told: a start loads what is saved, a save writes what has been seen or  *)
(* nothing, and the end of a program changes nothing in it.                *)
LEMMA StartLoads ==
  ASSUME NEW b \in BOOLEAN, Start(b), ~lapsed'
  PROVE  /\ seenOrders' = saved.orders \cup (IF b THEN placed ELSE {})
         /\ seenMessages' = saved.messages /\ UNCHANGED << saved, late >>
<1>1. PICK m \in Loaded : /\ seenOrders' = m.orders \cup (IF b THEN placed ELSE {})
                          /\ seenMessages' = m.messages
                          /\ lapsed' = (lapsed \/ m # saved)
  BY DEF Start
<1>2. m = saved
  BY <1>1
<1>3. QED
  BY <1>1, <1>2 DEF Start

LEMMA SaveWrites ==
  ASSUME Save, late = {}
  PROVE  /\ UNCHANGED late
         /\ \/ /\ saved' = [orders |-> seenOrders, messages |-> seenMessages]
               /\ pc' = IF pc = "boot" THEN "idle" ELSE "emit"
               /\ UNCHANGED << orderEvents, messageEvents, past, lossy >>
            \/ /\ UNCHANGED saved /\ pc' = IF pc = "boot" THEN "off" ELSE "idle"
               /\ past' = IF pc = "boot" THEN NoMessages ELSE past
               /\ orderEvents' = {} /\ messageEvents' = << >>
<1>1. Written => /\ saved' = [orders |-> seenOrders, messages |-> seenMessages]
                 /\ UNCHANGED late
  BY DEF Written
<1>2. WriteFails => UNCHANGED store
  BY DEF WriteFails
<1>3. QED
  BY <1>1, <1>2 DEF Save, NoEvents

LEMMA EndKeeps ==
  ASSUME Drop \/ Stop, late = {}, ~lapsed'
  PROVE  UNCHANGED << saved, late >> /\ Ended /\ pc' \in {"off", "idle"}
<1>1. CASE Drop
  BY <1>1 DEF Drop
<1>2. CASE Stop
  BY <1>2 DEF Stop
<1>3. QED
  BY <1>1, <1>2

(* A store that has lapsed stays so. *)
LEMMA LapsedStays == TypeOK /\ [Next]_vars /\ ~lapsed' => ~lapsed
BY StoreMoves

(* Every step keeps the save behind what has been seen.                    *)
LEMMA NextKept ==
  ASSUME TypeOK, TypeOK', Stages, Seen, Kept, ~lapsed', [Next]_vars
  PROVE  Kept'
<1>a. /\ \A o \in Orders : ChatOf[o] \in Chats
      /\ \A c \in Chats : saved.messages[c] \in Nat /\ seenMessages[c] \in Nat
      /\ \A o \in Orders : snap[o] # NotYet => snap[o] \in Nat
  BY BotAssumption DEF TypeOK, BotStates
<1>b. late = {}
  BY DEF Kept
<1>c. ASSUME UNCHANGED << saved, late, seenMessages, snap >>, tasks' \subseteq tasks,
             UNCHANGED seenOrders, pc' # "off" => pc # "off"
      PROVE  Kept'
  BY <1>c DEF Kept
<1>1. ASSUME NEW o \in Orders, PlaceOrder(o) PROVE Kept'
  BY <1>1, <1>c DEF PlaceOrder
<1>2. ASSUME NEW c \in Chats, NEW a \in {"own", "buyer"}, Post(c, a) PROVE Kept'
  BY <1>2, <1>c DEF Post
<1>3. ASSUME NEW b \in BOOLEAN, Start(b) PROVE Kept'
  <2>1. /\ saved.orders \subseteq seenOrders' /\ UNCHANGED << saved, late >>
        /\ \A c \in Chats : saved.messages[c] <= seenMessages'[c]
    BY <1>3, <1>a, StartLoads
  <2>2. \A o \in tasks' : snap'[o] = NotYet
    BY <1>3 DEF Start, StartTasks, Stages, TypeOK
  <2>3. QED
    BY <1>b, <2>1, <2>2 DEF Kept
<1>4. CASE Poll
  <2>1. /\ UNCHANGED << saved, late, seenMessages >> /\ pc = "idle"
        /\ seenOrders \subseteq seenOrders' /\ \A o \in tasks' : snap'[o] = NotYet
    BY <1>4 DEF Poll, StartTasks, TypeOK
  <2>2. QED
    BY <2>1 DEF Kept
<1>5. ASSUME NEW o \in Orders, FetchChat(o) PROVE Kept'
  <2>1. UNCHANGED << saved, late, seenMessages, seenOrders, pc >> /\ o \in tasks
    BY <1>5 DEF FetchChat
  <2>2. CASE snap' = [snap EXCEPT ![o] = Len(log[ChatOf[o]])] /\ UNCHANGED << tasks, past, lossy >>
    <3>1. \A u \in tasks : snap'[u] = IF u = o THEN Len(log[ChatOf[o]]) ELSE snap[u]
      BY <2>2 DEF TypeOK
    <3>2. saved.messages[ChatOf[o]] <= Len(log[ChatOf[o]])
      BY <1>a DEF Seen, There
    <3>3. QED
      BY <2>1, <2>2, <3>1, <3>2 DEF Kept
  <2>3. CASE tasks' = tasks \ {o} /\ UNCHANGED snap
    BY <1>c, <2>1, <2>3
  <2>4. QED
    BY <1>5, <2>2, <2>3 DEF FetchChat
<1>6. ASSUME NEW o \in Orders, Join(o) PROVE Kept'
  <2> DEFINE c == ChatOf[o]
  <2>1. /\ UNCHANGED << saved, late, seenOrders, pc, snap >> /\ tasks' \subseteq tasks
        /\ o \in tasks /\ snap[o] # NotYet
    BY <1>6 DEF Join
  <2>2. /\ \A d \in Chats \ {c} : seenMessages'[d] = seenMessages[d]
        /\ seenMessages'[c] \in Nat
    BY <1>6, <1>a, JoinEffect
  <2>3. saved.messages[c] <= snap[o] /\ snap[o] \in Nat
    BY <1>a, <2>1 DEF Kept
  <2>4. pc # "off" => saved.messages[c] <= seenMessages'[c]
    <3>1. CASE Marks(o)
      BY <1>a, <2>3, <3>1 DEF Marks, Kept
    <3>2. CASE \E new : Tells(o, new)
      <4>1. seenMessages[c] <= seenMessages'[c]
        BY <3>2 DEF Tells
      <4>2. QED
        BY <1>a, <2>2, <4>1 DEF Kept
    <3>3. QED
      BY <1>6, <3>1, <3>2, JoinEffect
  <2> HIDE DEF c
  <2>5. QED
    BY <2>1, <2>2, <2>4 DEF Kept
<1>7. CASE Save
  <2>1. tasks' = {} /\ UNCHANGED << seenOrders, seenMessages >> /\ pc # "off"
    BY <1>7 DEF Save
  <2>2. UNCHANGED late /\ (saved' = [orders |-> seenOrders, messages |-> seenMessages]
                           \/ UNCHANGED saved)
    BY <1>7, <1>b, SaveWrites
  <2>3. CASE saved' = [orders |-> seenOrders, messages |-> seenMessages]
    BY <1>a, <1>b, <2>1, <2>2, <2>3 DEF Kept
  <2>4. CASE UNCHANGED saved
    BY <2>1, <2>2, <2>4 DEF Kept
  <2>5. QED
    BY <2>2, <2>3, <2>4
<1>8. ASSUME NEW o \in Orders, HandleOrder(o) PROVE Kept'
  BY <1>8, <1>c DEF HandleOrder
<1>9. CASE HandleMessage
  BY <1>9, <1>c DEF HandleMessage
<1>10. CASE EndCycle
  BY <1>10, <1>c DEF EndCycle
<1>11. CASE Drop \/ Stop
  <2>1. UNCHANGED << saved, late >> /\ Ended
    BY <1>11, <1>b, EndKeeps
  <2>2. QED
    BY <1>c, <2>1 DEF Ended
<1>12. CASE UNCHANGED vars
  BY <1>12, <1>c DEF vars
<1>13. CASE LateWrite
  BY <1>13, <1>b DEF LateWrite
<1>14. QED
  BY <1>1, <1>2, <1>3, <1>4, <1>5, <1>6, <1>7, <1>8, <1>9, <1>10, <1>11, <1>12, <1>13
     DEF Next, OwnStep, Answered

LEMMA NextIndKept ==
  TypeOK /\ TypeOK' /\ Stages /\ Seen /\ IndKept /\ [Next]_vars => IndKept'
<1> SUFFICES ASSUME TypeOK, TypeOK', Stages, Seen, IndKept, [Next]_vars, ~lapsed' PROVE Kept'
  BY DEF IndKept
<1>1. Kept
  BY LapsedStays DEF IndKept
<1>2. QED
  BY <1>1, NextKept

(* The state of the bot has the types of its variables, whatever it does.  *)
THEOREM TypeCorrect == Spec => []TypeOK
BY InitInvariant, NextType, NextSeen, NextStages, PTL DEF Spec

(* Whatever the store does, only what has appeared is taken for seen: no   *)
(* order and no message is skipped before it is there.                     *)
THEOREM SeenHasAppeared == Spec => []SeenIsThere
<1>1. Seen => SeenIsThere
  BY DEF Seen, There, SeenIsThere
<1>2. QED
  BY <1>1, InitInvariant, NextType, NextSeen, NextStages, PTL DEF Spec
-----------------------------------------------------------------------------
(* What an event taken from the list does to the list. *)
LEMMA EventsLeft ==
  ASSUME TypeOK, messageEvents # << >>
  PROVE  /\ Head(messageEvents) = messageEvents[1] /\ 1 \in DOMAIN messageEvents
         /\ \A k \in DOMAIN Tail(messageEvents) :
              /\ k + 1 \in DOMAIN messageEvents /\ k \in Nat /\ 1 < k + 1
              /\ Tail(messageEvents)[k] = messageEvents[k + 1]
         /\ \A k \in DOMAIN messageEvents :
              \E c \in Chats, i \in Nat : messageEvents[k] = << c, i >>
<1>1. messageEvents \in Seq(Chats \X Nat)
  BY DEF TypeOK
<1>2. /\ Head(messageEvents) = messageEvents[1] /\ 1 \in DOMAIN messageEvents
      /\ \A k \in DOMAIN Tail(messageEvents) :
           /\ k + 1 \in DOMAIN messageEvents /\ k \in Nat /\ 1 < k + 1
           /\ Tail(messageEvents)[k] = messageEvents[k + 1]
  BY <1>1
<1>3. \A k \in DOMAIN messageEvents : messageEvents[k] \in Chats \X Nat
  BY <1>1
<1>4. QED
  BY <1>2, <1>3

(* The events after a fetch: the ones there were, and new ones after them. *)
LEMMA EventsAdded ==
  ASSUME TypeOK, NEW o \in Orders, NEW new, Tells(o, new)
  PROVE  /\ \A k \in DOMAIN messageEvents' :
              \/ k \in DOMAIN messageEvents /\ messageEvents'[k] = messageEvents[k]
              \/ \E j \in DOMAIN new : /\ messageEvents'[k] = new[j] /\ k = Len(messageEvents) + j
                                       /\ new[j][1] = ChatOf[o] /\ j \in Nat
         /\ Len(messageEvents) \in Nat /\ DOMAIN messageEvents = 1..Len(messageEvents)
<1>1. /\ messageEvents \in Seq(Chats \X Nat) /\ new \in Seq({ChatOf[o]} \X Nat)
      /\ messageEvents' = messageEvents \o new
  BY DEF TypeOK, Tells
<1>2. /\ Len(messageEvents) \in Nat /\ DOMAIN messageEvents = 1..Len(messageEvents)
      /\ Len(new) \in Nat /\ DOMAIN new = 1..Len(new)
      /\ DOMAIN messageEvents' = 1..(Len(messageEvents) + Len(new))
  BY <1>1
<1>3. \A k \in 1..(Len(messageEvents) + Len(new)) :
        messageEvents'[k] = IF k <= Len(messageEvents) THEN messageEvents[k]
                            ELSE new[k - Len(messageEvents)]
  BY <1>1
<1>4. \A j \in DOMAIN new : new[j][1] = ChatOf[o]
  BY <1>1
<1>5. ASSUME NEW k \in DOMAIN messageEvents', k \notin DOMAIN messageEvents
      PROVE  \E j \in DOMAIN new : /\ messageEvents'[k] = new[j] /\ k = Len(messageEvents) + j
                                   /\ new[j][1] = ChatOf[o] /\ j \in Nat
  <2>1. /\ k - Len(messageEvents) \in DOMAIN new /\ k - Len(messageEvents) \in Nat
        /\ k = Len(messageEvents) + (k - Len(messageEvents)) /\ ~(k <= Len(messageEvents))
    BY <1>2, <1>5
  <2>2. messageEvents'[k] = new[k - Len(messageEvents)]
    BY <1>2, <1>3, <2>1
  <2>3. QED
    BY <1>4, <2>1, <2>2
<1>6. \A k \in DOMAIN messageEvents' :
        k \in DOMAIN messageEvents => messageEvents'[k] = messageEvents[k]
  BY <1>2, <1>3
<1>7. QED
  BY <1>2, <1>5, <1>6

(* What the last bootstrap found is saved, or seen and about to be; no     *)
(* event is about it.                                                      *)
PastKept ==
  /\ pc # "boot" => \A c \in Chats : past[c] <= saved.messages[c]
  /\ pc = "boot" => \A c \in Chats : past[c] <= seenMessages[c] \/ \E o \in tasks : ChatOf[o] = c
  /\ \A k \in DOMAIN messageEvents : messageEvents[k][2] > past[messageEvents[k][1]]

(* Every step keeps it. *)
LEMMA NextPast ==
  ASSUME TypeOK, TypeOK', Stages, Seen, Kept, ~lapsed', PastKept, [Next]_vars
  PROVE  PastKept'
<1>l. late = {}
  BY DEF Kept
<1>a. /\ \A o \in Orders : ChatOf[o] \in Chats
      /\ \A c \in Chats : saved.messages[c] \in Nat /\ seenMessages[c] \in Nat /\ past[c] \in Nat
      /\ \A c \in Chats : saved'.messages[c] \in Nat /\ seenMessages'[c] \in Nat
  BY BotAssumption DEF TypeOK, BotStates
<1>b. ASSUME UNCHANGED << saved, past, seenMessages, tasks >>, pc # "boot", pc' # "boot",
             UNCHANGED messageEvents \/ messageEvents' = << >>
      PROVE  PastKept'
  BY <1>b DEF PastKept
<1>1. ASSUME NEW o \in Orders, PlaceOrder(o) PROVE PastKept'
  BY <1>1 DEF PastKept, PlaceOrder
<1>2. ASSUME NEW c \in Chats, NEW a \in {"own", "buyer"}, Post(c, a) PROVE PastKept'
  BY <1>2 DEF PastKept, Post
<1>3. ASSUME NEW b \in BOOLEAN, Start(b) PROVE PastKept'
  <2>1. /\ seenMessages' = saved.messages /\ UNCHANGED << saved, messageEvents >>
        /\ messageEvents = << >> /\ \A c \in Chats : past[c] <= saved.messages[c]
    BY <1>3, StartLoads DEF Start, Stages, PastKept
  <2>2. CASE b
    <3>1. /\ pc' = "boot" /\ tasks' = placed
          /\ past' = [c \in Chats |->
                        IF \E o \in placed : ChatOf[o] = c THEN Len(log[c]) ELSE past[c]]
      BY <1>3, <2>2 DEF Start, StartTasks
    <3>2. \A c \in Chats : past'[c] <= seenMessages'[c] \/ \E o \in tasks' : ChatOf[o] = c
      BY <2>1, <3>1
    <3>3. QED
      BY <2>1, <3>1, <3>2 DEF PastKept
  <2>3. CASE ~b
    BY <1>3, <2>1, <2>3 DEF Start, PastKept
  <2>4. QED
    BY <2>2, <2>3
<1>4. CASE Poll
  <2>1. /\ UNCHANGED << saved, past >> /\ messageEvents' = << >> /\ pc = "idle" /\ pc' = "poll"
    BY <1>4 DEF Poll
  <2>2. QED
    BY <2>1 DEF PastKept
<1>5. ASSUME NEW o \in Orders, FetchChat(o) PROVE PastKept'
  <2>1. UNCHANGED << saved, seenMessages, messageEvents, pc >>
    BY <1>5 DEF FetchChat
  <2>2. CASE UNCHANGED << tasks, past >>
    BY <2>1, <2>2 DEF PastKept
  <2>3. CASE tasks' = tasks \ {o} /\ past' = IF pc = "boot" THEN [past EXCEPT ![ChatOf[o]] = 0] ELSE past
    <3>1. CASE pc = "boot"
      <4>1. /\ \A c \in Chats \ {ChatOf[o]} : past'[c] = past[c]
            /\ past'[ChatOf[o]] = 0 /\ messageEvents = << >>
        BY <1>a, <2>3, <3>1 DEF TypeOK, Stages
      <4>2. \A c \in Chats : past'[c] <= seenMessages[c] \/ \E u \in tasks' : ChatOf[u] = c
        BY <1>a, <2>3, <3>1, <4>1 DEF PastKept
      <4>3. QED
        BY <2>1, <3>1, <4>1, <4>2 DEF PastKept
    <3>2. CASE pc # "boot"
      BY <2>1, <2>3, <3>2 DEF PastKept
    <3>3. QED
      BY <3>1, <3>2
  <2>4. QED
    BY <1>5, <2>2, <2>3 DEF FetchChat
<1>6. ASSUME NEW o \in Orders, Join(o) PROVE PastKept'
  <2>1. /\ UNCHANGED << saved, past, pc >> /\ tasks' = tasks \ {o}
        /\ o \in tasks /\ snap[o] # NotYet
    BY <1>6 DEF Join
  <2>2. \A c \in Chats \ {ChatOf[o]} : seenMessages'[c] = seenMessages[c]
    BY <1>6, JoinEffect
  <2>3. pc \in {"boot", "poll"}
    BY <2>1 DEF Stages
  <2>4. CASE Marks(o)
    <3>1. past[ChatOf[o]] <= snap[o] /\ snap[o] \in Nat /\ UNCHANGED messageEvents
      BY <2>1, <2>4 DEF Seen, Marks, TypeOK
    <3>2. past[ChatOf[o]] <= seenMessages'[ChatOf[o]]
      BY <1>a, <2>4, <3>1 DEF Marks
    <3>3. pc = "boot" =>
            \A c \in Chats : past[c] <= seenMessages'[c] \/ \E u \in tasks' : ChatOf[u] = c
      BY <2>1, <2>2, <3>2 DEF PastKept
    <3>4. QED
      BY <2>1, <3>1, <3>3 DEF PastKept
  <2>5. ASSUME NEW new, Tells(o, new) PROVE PastKept'
    <3>1. mode[o] = "emit" /\ \A j \in DOMAIN new : seenMessages[ChatOf[o]] < new[j][2]
      BY <2>5 DEF Tells
    <3>2. pc = "poll"
      BY <2>3, <3>1 DEF Stages
    <3>3. past[ChatOf[o]] <= seenMessages[ChatOf[o]]
      BY <1>a, <3>2 DEF PastKept, Kept
    <3>4. \A j \in DOMAIN new : new[j][2] \in Nat
      BY <2>5 DEF Tells
    <3>5. \A j \in DOMAIN new : new[j][2] > past[ChatOf[o]]
      BY <1>a, <3>1, <3>3, <3>4
    <3>6. \A k \in DOMAIN messageEvents' : messageEvents'[k][2] > past[messageEvents'[k][1]]
      BY <2>5, <3>5, EventsAdded DEF PastKept
    <3>7. QED
      BY <2>1, <3>2, <3>6 DEF PastKept
  <2>6. QED
    BY <1>6, <2>4, <2>5, JoinEffect
<1>7. CASE Save
  <2>1. tasks = {} /\ UNCHANGED seenMessages /\ pc \in {"boot", "poll"} /\ pc' # "boot"
    BY <1>7 DEF Save
  <2>2. \A c \in Chats : past[c] <= seenMessages[c]
    BY <1>a, <2>1 DEF PastKept, Kept
  <2>3. CASE /\ saved' = [orders |-> seenOrders, messages |-> seenMessages]
             /\ UNCHANGED << messageEvents, past >>
    BY <2>1, <2>2, <2>3 DEF PastKept
  <2>4. CASE /\ UNCHANGED saved /\ messageEvents' = << >>
             /\ past' = IF pc = "boot" THEN NoMessages ELSE past
    BY <1>a, <2>1, <2>4 DEF PastKept, NoMessages
  <2>5. QED
    BY <1>7, <1>l, <2>3, <2>4, SaveWrites
<1>8. ASSUME NEW o \in Orders, HandleOrder(o) PROVE PastKept'
  BY <1>8, <1>b DEF HandleOrder, HandlerReturns, NoEvents
<1>9. CASE HandleMessage
  <2>1. /\ UNCHANGED << saved, past, seenMessages, tasks >> /\ messageEvents # << >>
        /\ pc # "boot" /\ pc' # "boot"
        /\ messageEvents' = Tail(messageEvents) \/ messageEvents' = << >>
    BY <1>9 DEF HandleMessage, HandlerReturns, NoEvents
  <2>2. CASE messageEvents' = << >>
    BY <1>b, <2>1, <2>2
  <2>3. CASE messageEvents' = Tail(messageEvents)
    <3>1. \A k \in DOMAIN messageEvents' : messageEvents'[k][2] > past[messageEvents'[k][1]]
      BY <2>1, <2>3, EventsLeft DEF PastKept
    <3>2. QED
      BY <2>1, <3>1 DEF PastKept
  <2>4. QED
    BY <2>1, <2>2, <2>3
<1>10. CASE EndCycle
  BY <1>10, <1>b DEF EndCycle
<1>11. CASE Drop \/ Stop
  <2>1. messageEvents' = << >> /\ pc' # "boot" /\ UNCHANGED saved /\ Ended
    BY <1>11, <1>l, EndKeeps DEF Ended, NoEvents
  <2>2. \A c \in Chats : past'[c] <= saved.messages[c]
    BY <1>a, <2>1 DEF Ended, NoMessages, PastKept
  <2>3. QED
    BY <2>1, <2>2 DEF PastKept
<1>12. CASE UNCHANGED vars
  BY <1>12 DEF PastKept, vars
<1>13. CASE LateWrite
  BY <1>13, <1>l DEF LateWrite
<1>14. QED
  BY <1>1, <1>2, <1>3, <1>4, <1>5, <1>6, <1>7, <1>8, <1>9, <1>10, <1>11, <1>12, <1>13
     DEF Next, OwnStep, Answered

(* Inductively: as long as the store keeps what it was told.               *)
IndPast == ~lapsed => PastKept

LEMMA NextIndPast ==
  TypeOK /\ TypeOK' /\ Stages /\ Seen /\ IndKept /\ IndPast /\ [Next]_vars => IndPast'
<1> SUFFICES ASSUME TypeOK, TypeOK', Stages, Seen, IndKept, IndPast, [Next]_vars, ~lapsed'
             PROVE  PastKept'
  BY DEF IndPast
<1>1. Kept /\ PastKept
  BY LapsedStays DEF IndKept, IndPast
<1>2. QED
  BY <1>1, NextPast

(* Before the first step nothing has been found or emitted. *)
LEMMA InitPast == Init => PastKept
<1> SUFFICES ASSUME Init PROVE PastKept
  OBVIOUS
<1>1. /\ pc = "off" /\ messageEvents = << >>
      /\ \A c \in Chats : past[c] = 0 /\ saved.messages[c] = 0
  BY DEF Init, DefaultState, NoMessages
<1>2. QED
  BY <1>1 DEF PastKept

(* Only the handler's step adds to what the handler got, at the end of it, *)
(* and it adds the first of the events.                                    *)
LEMMA HandedGrows ==
  ASSUME TypeOK, [Next]_vars, NEW c \in Chats, handedMessages'[c] # handedMessages[c]
  PROVE  /\ HandleMessage /\ c = messageEvents[1][1]
         /\ handedMessages'[c] = Append(handedMessages[c], messageEvents[1][2])
<1>1. HandleMessage
  <2>1. ASSUME NEW o \in Orders, HandleOrder(o) PROVE UNCHANGED handedMessages
    BY <2>1 DEF HandleOrder
  <2>2. QED
    BY <2>1 DEF Next, OwnStep, Answered, PlaceOrder, Post, Start, Poll, FetchChat, Join, Save,
                EndCycle, Drop, LateWrite, Stop, Ended, vars
<1>2. messageEvents # << >>
  BY <1>1 DEF HandleMessage
<1>3. handedMessages' = [handedMessages EXCEPT ![messageEvents[1][1]] =
                           Append(@, messageEvents[1][2])]
  BY <1>1, <1>2, EventsLeft DEF HandleMessage
<1>4. QED
  BY <1>1, <1>3 DEF TypeOK

(* No message that a chat had when the last bootstrap began reaches the    *)
(* handler after it, over later failures and over restarts of a store that *)
(* keeps what it was told.                                                 *)
THEOREM PastIsKept == Spec => PastIsNotEmitted
<1> DEFINE NotPast == ~lapsed => \A c \in Chats : handedMessages'[c] # handedMessages[c] =>
                        Last(handedMessages'[c]) > past[c]
<1>1. TypeOK /\ IndPast /\ [Next]_vars => [NotPast]_vars
  <2> SUFFICES ASSUME TypeOK, PastKept, [Next]_vars,
                      NEW c \in Chats, handedMessages'[c] # handedMessages[c]
               PROVE  Last(handedMessages'[c]) > past[c]
    BY DEF IndPast
  <2>1. /\ HandleMessage /\ c = messageEvents[1][1]
        /\ handedMessages'[c] = Append(handedMessages[c], messageEvents[1][2])
    BY HandedGrows
  <2>2. messageEvents # << >>
    BY <2>1 DEF HandleMessage
  <2>3. 1 \in DOMAIN messageEvents /\ messageEvents[1][2] \in Nat
    BY <2>2, EventsLeft
  <2>4. messageEvents[1][2] > past[c]
    BY <2>1, <2>3 DEF PastKept
  <2>5. handedMessages[c] \in Seq(Nat)
    BY DEF TypeOK
  <2>6. Last(handedMessages'[c]) = messageEvents[1][2]
    BY <2>1, <2>3, <2>5 DEF Last
  <2>7. QED
    BY <2>4, <2>6
<1>2. QED
  <2>1. Init => IndPast
    BY InitPast DEF IndPast
  <2>2. QED
    BY <1>1, <2>1, InitInvariant, NextType, NextStages, NextSeen, NextIndKept, NextIndPast, PTL
       DEF Spec, PastIsNotEmitted
-----------------------------------------------------------------------------
(* What the handler got of the orders is saved, and what it will get is    *)
(* new and seen, and saved before it is handed out.                        *)
OrdersOnce ==
  /\ \A o \in Orders : handedOrders[o] <= 1 /\ (handedOrders[o] > 0 => o \in saved.orders)
  /\ \A o \in orderEvents : /\ handedOrders[o] = 0 /\ o \in seenOrders
                            /\ pc = "emit" => o \in saved.orders

(* Every step keeps it. *)
LEMMA NextOrders ==
  ASSUME TypeOK, Stages, Kept, ~lapsed', OrdersOnce, [Next]_vars
  PROVE  OrdersOnce'
<1>l. late = {}
  BY DEF Kept
<1>b. ASSUME UNCHANGED << handedOrders, saved >>, orderEvents' \subseteq orderEvents,
             orderEvents' # {} => UNCHANGED << seenOrders, pc >>
      PROVE  OrdersOnce'
  BY <1>b DEF OrdersOnce
<1>1. ASSUME NEW o \in Orders, PlaceOrder(o) PROVE OrdersOnce'
  BY <1>1, <1>b DEF PlaceOrder
<1>2. ASSUME NEW c \in Chats, NEW a \in {"own", "buyer"}, Post(c, a) PROVE OrdersOnce'
  BY <1>2, <1>b DEF Post
<1>3. ASSUME NEW b \in BOOLEAN, Start(b) PROVE OrdersOnce'
  BY <1>3, <1>b DEF Start, Stages
<1>4. CASE Poll
  <2>1. /\ UNCHANGED << handedOrders, saved >> /\ pc' = "poll"
        /\ orderEvents' = placed \ seenOrders /\ seenOrders' = seenOrders \cup placed
        /\ saved.orders \subseteq seenOrders /\ placed \subseteq Orders
    BY <1>4 DEF Poll, Kept, TypeOK
  <2>2. \A o \in orderEvents' : handedOrders[o] = 0
    <3> SUFFICES ASSUME NEW o \in placed \ seenOrders PROVE handedOrders[o] = 0
      BY <2>1
    <3>1. o \in Orders /\ o \notin saved.orders /\ handedOrders[o] \in Nat
      BY <2>1 DEF TypeOK
    <3>2. QED
      BY <3>1 DEF OrdersOnce
  <2>3. QED
    BY <2>1, <2>2 DEF OrdersOnce
<1>5. ASSUME NEW o \in Orders, FetchChat(o) PROVE OrdersOnce'
  BY <1>5, <1>b DEF FetchChat
<1>6. ASSUME NEW o \in Orders, Join(o) PROVE OrdersOnce'
  BY <1>6, <1>b DEF Join
<1>7. CASE Save
  <2>1. CASE /\ saved' = [orders |-> seenOrders, messages |-> seenMessages]
             /\ UNCHANGED orderEvents
    <3>1. saved'.orders = seenOrders /\ saved.orders \subseteq seenOrders
          /\ UNCHANGED << handedOrders, seenOrders >>
      BY <1>7, <2>1 DEF Save, Kept
    <3>2. QED
      BY <2>1, <3>1 DEF OrdersOnce
  <2>2. CASE UNCHANGED saved /\ orderEvents' = {}
    BY <1>7, <1>b, <2>2 DEF Save
  <2>3. QED
    BY <1>7, <1>l, <2>1, <2>2, SaveWrites
<1>8. ASSUME NEW o \in Orders, HandleOrder(o) PROVE OrdersOnce'
  <2>1. /\ o \in orderEvents /\ pc = "emit" /\ UNCHANGED << saved, seenOrders >>
        /\ handedOrders' = [handedOrders EXCEPT ![o] = @ + 1]
        /\ \/ orderEvents' = orderEvents \ {o} /\ UNCHANGED pc
           \/ orderEvents' = {}
    BY <1>8 DEF HandleOrder, HandlerReturns, NoEvents
  <2>2. handedOrders[o] = 0 /\ o \in saved.orders /\ orderEvents \subseteq Orders
    BY <2>1 DEF OrdersOnce, TypeOK
  <2>3. \A u \in Orders : handedOrders'[u] = IF u = o THEN 1 ELSE handedOrders[u]
    BY <2>1, <2>2 DEF TypeOK
  <2>4. QED
    BY <2>1, <2>2, <2>3 DEF OrdersOnce
<1>9. CASE HandleMessage
  BY <1>9, <1>b DEF HandleMessage, HandlerReturns, NoEvents
<1>10. CASE EndCycle
  BY <1>10, <1>b DEF EndCycle
<1>11. CASE Drop \/ Stop
  <2>1. UNCHANGED saved /\ Ended
    BY <1>11, <1>l, EndKeeps
  <2>2. QED
    BY <1>b, <2>1 DEF Ended, NoEvents
<1>12. CASE UNCHANGED vars
  BY <1>12 DEF OrdersOnce, vars
<1>13. CASE LateWrite
  BY <1>13, <1>l DEF LateWrite
<1>14. QED
  BY <1>1, <1>2, <1>3, <1>4, <1>5, <1>6, <1>7, <1>8, <1>9, <1>10, <1>11, <1>12, <1>13
     DEF Next, OwnStep, Answered

(* Inductively: as long as the store keeps what it was told.               *)
IndOrders == ~lapsed => OrdersOnce

LEMMA NextIndOrders ==
  TypeOK /\ Stages /\ IndKept /\ IndOrders /\ [Next]_vars => IndOrders'
<1> SUFFICES ASSUME TypeOK, Stages, IndKept, IndOrders, [Next]_vars, ~lapsed'
             PROVE  OrdersOnce'
  BY DEF IndOrders
<1>1. Kept /\ OrdersOnce
  BY LapsedStays DEF IndKept, IndOrders
<1>2. QED
  BY <1>1, NextOrders

(* Before the first step no order is anywhere. *)
LEMMA InitOrders == Init => OrdersOnce
<1> SUFFICES ASSUME Init PROVE OrdersOnce
  OBVIOUS
<1>1. orderEvents = {} /\ \A o \in Orders : handedOrders[o] = 0
  BY DEF Init
<1>2. QED
  BY <1>1 DEF OrdersOnce

(* As long as the store keeps what it was told, the handler gets each      *)
(* order once at most, over all cycles, failed saves, handler errors,      *)
(* shutdowns and restarts.                                                 *)
THEOREM OrdersOnceOnly == Spec => []OrderHandedOnce
<1>1. IndOrders => OrderHandedOnce
  BY DEF IndOrders, OrdersOnce, OrderHandedOnce
<1>2. Init => IndOrders
  BY InitOrders DEF IndOrders
<1>3. QED
  BY <1>1, <1>2, InitInvariant, NextType, NextStages, NextSeen, NextIndKept, NextIndOrders, PTL
     DEF Spec
-----------------------------------------------------------------------------
(* With emit_messages_for_new_orders every fetch of a poll is told.  Then  *)
(* the ids handed out of a chat are saved, and those still to be handed    *)
(* out are greater, in order, and seen.                                    *)
InOrder == \A c \in Chats : \A i, j \in DOMAIN handedMessages[c] :
             i < j => handedMessages[c][i] < handedMessages[c][j]

Told ==
  /\ pc = "poll" => \A o \in Orders : mode[o] = "emit"
  /\ \A c \in Chats : \A i \in DOMAIN handedMessages[c] : handedMessages[c][i] <= saved.messages[c]
  /\ \A k \in DOMAIN messageEvents :
       /\ messageEvents[k][2] <= seenMessages[messageEvents[k][1]]
       /\ pc = "emit" => messageEvents[k][2] <= saved.messages[messageEvents[k][1]]
       /\ \A i \in DOMAIN handedMessages[messageEvents[k][1]] :
            handedMessages[messageEvents[k][1]][i] < messageEvents[k][2]
  /\ \A j, k \in DOMAIN messageEvents :
       j < k /\ messageEvents[j][1] = messageEvents[k][1] =>
         messageEvents[j][2] < messageEvents[k][2]
  /\ InOrder

(* A fetch taken to be told keeps it. *)
LEMMA TellsTold ==
  ASSUME TypeOK, TypeOK', Kept, Told, NEW o \in Orders, NEW new, Tells(o, new),
         UNCHANGED << saved, pc, mode, handedMessages >>, pc = "poll",
         \A c \in Chats \ {ChatOf[o]} : seenMessages'[c] = seenMessages[c]
  PROVE  Told'
<1> DEFINE c == ChatOf[o]
           n == Len(messageEvents)
<1>1. /\ c \in Chats /\ saved.messages[c] \in Nat /\ seenMessages[c] \in Nat
      /\ seenMessages'[c] \in Nat /\ saved.messages[c] <= seenMessages[c]
      /\ seenMessages[c] <= seenMessages'[c]
  BY BotAssumption DEF TypeOK, BotStates, Kept, Tells
<1>2. /\ \A k \in DOMAIN messageEvents' :
           \/ k \in DOMAIN messageEvents /\ messageEvents'[k] = messageEvents[k]
           \/ \E j \in DOMAIN new : /\ messageEvents'[k] = new[j] /\ k = n + j
                                    /\ new[j][1] = c /\ j \in Nat
      /\ n \in Nat /\ DOMAIN messageEvents = 1..n
  BY EventsAdded
<1>3. \A j \in DOMAIN new : /\ seenMessages[c] < new[j][2] /\ new[j][2] <= seenMessages'[c]
                            /\ new[j][2] \in Nat
  BY DEF Tells
<1>4. \A i, j \in DOMAIN new : i < j => new[i][2] < new[j][2]
  BY DEF Tells
<1>5. \A k \in DOMAIN messageEvents : /\ messageEvents[k][1] \in Chats /\ messageEvents[k][2] \in Nat
                                      /\ seenMessages[messageEvents[k][1]] \in Nat
                                      /\ messageEvents[k][2] <= seenMessages[messageEvents[k][1]]
  <2>1. messageEvents \in Seq(Chats \X Nat)
    BY DEF TypeOK
  <2>2. \A k \in DOMAIN messageEvents : messageEvents[k] \in Chats \X Nat
    BY <2>1
  <2>3. QED
    BY <2>2 DEF TypeOK, Told
<1>6. \A i \in DOMAIN handedMessages[c] :
        handedMessages[c][i] \in Nat /\ handedMessages[c][i] <= saved.messages[c]
  <2>1. handedMessages[c] \in Seq(Nat)
    BY <1>1 DEF TypeOK
  <2>2. QED
    BY <1>1, <2>1 DEF Told
<1> HIDE DEF c, n
<1>7. \A d \in Chats : seenMessages[d] <= seenMessages'[d]
  <2>1. \A d \in Chats : d = c \/ (seenMessages'[d] = seenMessages[d] /\ seenMessages[d] \in Nat)
    BY DEF TypeOK, c
  <2>2. QED
    BY <1>1, <2>1
<1>8. ASSUME NEW k \in DOMAIN messageEvents'
      PROVE  /\ messageEvents'[k][2] <= seenMessages'[messageEvents'[k][1]]
             /\ \A i \in DOMAIN handedMessages[messageEvents'[k][1]] :
                  handedMessages[messageEvents'[k][1]][i] < messageEvents'[k][2]
  <2>1. CASE k \in DOMAIN messageEvents /\ messageEvents'[k] = messageEvents[k]
    <3>1. seenMessages'[messageEvents[k][1]] \in Nat
      BY <1>5, <2>1 DEF TypeOK
    <3>2. messageEvents[k][2] <= seenMessages'[messageEvents[k][1]]
      BY <1>5, <1>7, <2>1, <3>1
    <3>3. QED
      BY <2>1, <3>2 DEF Told
  <2>2. CASE \E j \in DOMAIN new : messageEvents'[k] = new[j] /\ new[j][1] = c
    <3>1. PICK j \in DOMAIN new : messageEvents'[k] = new[j] /\ new[j][1] = c
      BY <2>2
    <3>2. \A i \in DOMAIN handedMessages[c] : handedMessages[c][i] < new[j][2]
      BY <1>1, <1>3, <1>6
    <3>3. QED
      BY <1>3, <3>1, <3>2
  <2>3. QED
    BY <1>2, <2>1, <2>2
<1>9. ASSUME NEW j \in DOMAIN messageEvents', NEW k \in DOMAIN messageEvents', j < k,
             messageEvents'[j][1] = messageEvents'[k][1]
      PROVE  messageEvents'[j][2] < messageEvents'[k][2]
  <2>1. CASE k \in DOMAIN messageEvents /\ messageEvents'[k] = messageEvents[k]
    <3>1. j \in DOMAIN messageEvents /\ messageEvents'[j] = messageEvents[j]
      <4>1. ASSUME NEW i \in Nat, i \in DOMAIN new, j = n + i PROVE FALSE
        <5>1. new \in Seq({ChatOf[o]} \X Nat)
          BY DEF Tells
        <5>2. i >= 1
          BY <4>1, <5>1
        <5>3. QED
          BY <1>2, <1>9, <2>1, <4>1, <5>2
      <4>2. QED
        BY <1>2, <4>1
    <3>2. QED
      BY <1>9, <2>1, <3>1 DEF Told
  <2>2. CASE \E i \in DOMAIN new : messageEvents'[k] = new[i] /\ k = n + i /\ new[i][1] = c /\ i \in Nat
    <3>1. PICK i \in DOMAIN new : messageEvents'[k] = new[i] /\ k = n + i /\ new[i][1] = c /\ i \in Nat
      BY <2>2
    <3>2. CASE j \in DOMAIN messageEvents /\ messageEvents'[j] = messageEvents[j]
      <4>1. messageEvents[j][2] <= seenMessages[c] /\ messageEvents[j][2] \in Nat
        BY <1>5, <1>9, <3>1, <3>2
      <4>2. QED
        BY <1>1, <1>3, <3>1, <3>2, <4>1
    <3>3. CASE \E l \in DOMAIN new : messageEvents'[j] = new[l] /\ j = n + l /\ l \in Nat
      <4>1. PICK l \in DOMAIN new : messageEvents'[j] = new[l] /\ j = n + l /\ l \in Nat
        BY <3>3
      <4>2. l < i
        BY <1>2, <1>9, <3>1, <4>1
      <4>3. QED
        BY <1>4, <3>1, <4>1, <4>2
    <3>4. QED
      BY <1>2, <3>2, <3>3
  <2>3. QED
    BY <1>2, <2>1, <2>2
<1>10. QED
  BY <1>8, <1>9 DEF Told, InOrder

(* A message told is the first of the events, and goes to the end of what  *)
(* the handler got.                                                        *)
LEMMA MessageTold ==
  ASSUME TypeOK, TypeOK', Told, HandleMessage
  PROVE  Told'
<1>1. /\ UNCHANGED << saved, seenMessages, mode >> /\ messageEvents # << >> /\ pc = "emit"
      /\ pc' # "poll"
      /\ \/ messageEvents' = Tail(messageEvents) /\ UNCHANGED pc
         \/ messageEvents' = << >>
  BY DEF HandleMessage, HandlerReturns, NoEvents
<1>2. /\ 1 \in DOMAIN messageEvents
      /\ \A k \in DOMAIN Tail(messageEvents) :
           /\ k + 1 \in DOMAIN messageEvents /\ k \in Nat /\ 1 < k + 1
           /\ Tail(messageEvents)[k] = messageEvents[k + 1]
  BY <1>1, EventsLeft
<1>3. PICK c \in Chats, id \in Nat : messageEvents[1] = << c, id >>
  BY <1>1, <1>2, EventsLeft
<1>4. messageEvents[1][1] = c /\ messageEvents[1][2] = id
  BY <1>3
<1>5. /\ handedMessages' = [handedMessages EXCEPT ![c] = Append(handedMessages[c], id)]
      /\ Head(messageEvents) = messageEvents[1]
  BY <1>1, <1>4, EventsLeft DEF HandleMessage
<1> DEFINE n == Len(handedMessages[c])
<1>6. /\ n \in Nat /\ DOMAIN handedMessages[c] = 1..n /\ DOMAIN handedMessages'[c] = 1..(n + 1)
      /\ \A i \in 1..n : handedMessages'[c][i] = handedMessages[c][i]
      /\ handedMessages'[c][n + 1] = id
      /\ \A i \in 1..(n + 1) : i \in 1..n \/ i = n + 1
  <2>1. handedMessages[c] \in Seq(Nat) /\ handedMessages'[c] = Append(handedMessages[c], id)
    BY <1>5 DEF TypeOK
  <2>2. QED
    BY <2>1
<1>7. \A d \in Chats \ {c} : handedMessages'[d] = handedMessages[d]
  BY <1>5 DEF TypeOK
<1> HIDE DEF n
<1>8. id <= saved.messages[c] /\ \A i \in 1..n : handedMessages[c][i] < id
  BY <1>1, <1>2, <1>4, <1>6 DEF Told
<1>9. \A d \in Chats : \A i \in DOMAIN handedMessages'[d] : handedMessages'[d][i] <= saved.messages[d]
  <2>1. \A i \in 1..(n + 1) : handedMessages'[c][i] <= saved.messages[c]
    BY <1>6, <1>8 DEF Told
  <2>2. QED
    BY <1>6, <1>7, <2>1 DEF Told
<1>10. \A d \in Chats : \A i, j \in DOMAIN handedMessages'[d] :
         i < j => handedMessages'[d][i] < handedMessages'[d][j]
  <2>1. \A d \in Chats : \A i, j \in DOMAIN handedMessages[d] :
          i < j => handedMessages[d][i] < handedMessages[d][j]
    BY DEF Told, InOrder
  <2>2. ASSUME NEW i \in 1..(n + 1), NEW j \in 1..(n + 1), i < j
        PROVE  handedMessages'[c][i] < handedMessages'[c][j]
    <3>1. i \in 1..n
      BY <1>6, <2>2
    <3>2. CASE j \in 1..n
      BY <1>6, <2>1, <2>2, <3>1, <3>2
    <3>3. CASE j = n + 1
      BY <1>6, <1>8, <3>1, <3>3
    <3>4. QED
      BY <1>6, <3>2, <3>3
  <2>3. QED
    BY <1>6, <1>7, <2>1, <2>2
<1>11. CASE messageEvents' = << >>
  BY <1>1, <1>9, <1>10, <1>11 DEF Told, InOrder
<1>12. CASE messageEvents' = Tail(messageEvents) /\ UNCHANGED pc
  <2>1. ASSUME NEW k \in DOMAIN messageEvents'
        PROVE  /\ messageEvents'[k][2] <= seenMessages[messageEvents'[k][1]]
               /\ messageEvents'[k][2] <= saved.messages[messageEvents'[k][1]]
               /\ \A i \in DOMAIN handedMessages'[messageEvents'[k][1]] :
                    handedMessages'[messageEvents'[k][1]][i] < messageEvents'[k][2]
    <3>1. /\ k + 1 \in DOMAIN messageEvents /\ k \in Nat /\ 1 < k + 1
          /\ messageEvents'[k] = messageEvents[k + 1]
      BY <1>2, <1>12
    <3>2. messageEvents[k + 1][1] \in Chats
      BY <1>1, <3>1, EventsLeft
    <3>3. CASE messageEvents[k + 1][1] = c
      <4>1. id < messageEvents[k + 1][2]
        BY <1>2, <1>4, <3>1, <3>3 DEF Told
      <4>2. \A i \in 1..n : handedMessages[c][i] < messageEvents[k + 1][2]
        BY <1>6, <3>1, <3>3 DEF Told
      <4>3. \A i \in 1..(n + 1) : handedMessages'[c][i] < messageEvents[k + 1][2]
        BY <1>6, <4>1, <4>2
      <4>4. /\ messageEvents[k + 1][2] <= seenMessages[messageEvents[k + 1][1]]
            /\ messageEvents[k + 1][2] <= saved.messages[messageEvents[k + 1][1]]
        BY <1>1, <3>1 DEF Told
      <4>5. QED
        BY <1>6, <3>1, <3>3, <4>3, <4>4
    <3>4. CASE messageEvents[k + 1][1] # c
      <4>1. handedMessages'[messageEvents[k + 1][1]] = handedMessages[messageEvents[k + 1][1]]
        BY <1>7, <3>2, <3>4
      <4>2. /\ messageEvents[k + 1][2] <= seenMessages[messageEvents[k + 1][1]]
            /\ messageEvents[k + 1][2] <= saved.messages[messageEvents[k + 1][1]]
            /\ \A i \in DOMAIN handedMessages[messageEvents[k + 1][1]] :
                 handedMessages[messageEvents[k + 1][1]][i] < messageEvents[k + 1][2]
        BY <1>1, <3>1 DEF Told
      <4>3. QED
        BY <3>1, <4>1, <4>2
    <3>5. QED
      BY <3>3, <3>4
  <2>2. ASSUME NEW j \in DOMAIN messageEvents', NEW k \in DOMAIN messageEvents', j < k,
               messageEvents'[j][1] = messageEvents'[k][1]
        PROVE  messageEvents'[j][2] < messageEvents'[k][2]
    <3>1. /\ j + 1 \in DOMAIN messageEvents /\ k + 1 \in DOMAIN messageEvents /\ j + 1 < k + 1
          /\ messageEvents'[j] = messageEvents[j + 1] /\ messageEvents'[k] = messageEvents[k + 1]
      BY <1>2, <1>12, <2>2
    <3>2. QED
      BY <2>2, <3>1 DEF Told
  <2>3. QED
    BY <1>1, <1>9, <1>10, <2>1, <2>2 DEF Told, InOrder
<1>13. QED
  BY <1>1, <1>11, <1>12

(* Every step keeps it. *)
LEMMA NextTold ==
  ASSUME Set("emit_for_new"), TypeOK, TypeOK', Stages, Seen, Kept, ~lapsed', Told, [Next]_vars
  PROVE  Told'
<1>l. late = {}
  BY DEF Kept
<1>a. \A c \in Chats : saved.messages[c] \in Nat /\ seenMessages[c] \in Nat
  BY DEF TypeOK, BotStates
<1>b. ASSUME UNCHANGED << saved, seenMessages, handedMessages, mode >>, pc' = "poll" => pc = "poll",
             \/ UNCHANGED messageEvents /\ (pc' = "emit" => pc = "emit")
             \/ messageEvents' = << >>
      PROVE  Told'
  BY <1>b DEF Told, InOrder
<1>1. ASSUME NEW o \in Orders, PlaceOrder(o) PROVE Told'
  BY <1>1, <1>b DEF PlaceOrder
<1>2. ASSUME NEW c \in Chats, NEW a \in {"own", "buyer"}, Post(c, a) PROVE Told'
  BY <1>2, <1>b DEF Post
<1>3. ASSUME NEW b \in BOOLEAN, Start(b) PROVE Told'
  <2>1. /\ UNCHANGED << saved, handedMessages, messageEvents >> /\ messageEvents = << >>
        /\ pc' # "poll"
    BY <1>3 DEF Start, Stages
  <2>2. QED
    BY <2>1 DEF Told, InOrder
<1>4. CASE Poll
  <2>1. /\ UNCHANGED << saved, handedMessages >> /\ messageEvents' = << >>
        /\ \A o \in Orders : mode'[o] = "emit"
    BY <1>4 DEF Poll, StartTasks
  <2>2. QED
    BY <2>1 DEF Told, InOrder
<1>5. ASSUME NEW o \in Orders, FetchChat(o) PROVE Told'
  BY <1>5, <1>b DEF FetchChat
<1>6. ASSUME NEW o \in Orders, Join(o) PROVE Told'
  <2>1. UNCHANGED << saved, pc, mode, handedMessages >> /\ o \in tasks
    BY <1>6 DEF Join
  <2>2. pc \in {"boot", "poll"} /\ \A c \in Chats \ {ChatOf[o]} : seenMessages'[c] = seenMessages[c]
    BY <1>6, <2>1, JoinEffect DEF Stages
  <2>3. CASE pc = "boot"
    <3>1. mode[o] = "mark" /\ messageEvents = << >>
      BY <2>3 DEF Stages
    <3>2. messageEvents' = << >>
      BY <1>6, <3>1, JoinEffect DEF Marks, Tells
    <3>3. QED
      BY <2>1, <2>3, <3>2 DEF Told, InOrder
  <2>4. CASE pc = "poll"
    <3>1. mode[o] = "emit"
      BY <2>4 DEF Told
    <3>2. PICK new : Tells(o, new)
      BY <1>6, <3>1, JoinEffect DEF Marks
    <3>3. QED
      BY <2>1, <2>2, <2>4, <3>2, TellsTold
  <2>5. QED
    BY <2>2, <2>3, <2>4
<1>7. CASE Save
  <2>1. UNCHANGED << seenMessages, handedMessages, mode >> /\ pc \in {"boot", "poll"} /\ pc' # "poll"
    BY <1>7 DEF Save
  <2>2. CASE /\ saved' = [orders |-> seenOrders, messages |-> seenMessages]
             /\ UNCHANGED messageEvents
    <3>1. \A c \in Chats : saved.messages[c] <= seenMessages[c]
      BY <2>1 DEF Kept
    <3>2. \A c \in Chats : \A i \in DOMAIN handedMessages[c] :
            handedMessages[c][i] \in Nat /\ handedMessages[c][i] <= saved.messages[c]
      <4>1. \A c \in Chats : handedMessages[c] \in Seq(Nat)
        BY DEF TypeOK
      <4>2. QED
        BY <4>1 DEF Told
    <3>3. \A c \in Chats : \A i \in DOMAIN handedMessages[c] : handedMessages[c][i] <= seenMessages[c]
      BY <1>a, <3>1, <3>2
    <3>4. saved'.messages = seenMessages
      BY <2>2
    <3>5. QED
      BY <2>1, <2>2, <3>3, <3>4 DEF Told, InOrder
  <2>3. CASE UNCHANGED saved /\ messageEvents' = << >>
    BY <1>b, <2>1, <2>3
  <2>4. QED
    BY <1>7, <1>l, <2>2, <2>3, SaveWrites
<1>8. ASSUME NEW o \in Orders, HandleOrder(o) PROVE Told'
  BY <1>8, <1>b DEF HandleOrder, HandlerReturns, NoEvents
<1>9. CASE HandleMessage
  BY <1>9, MessageTold
<1>10. CASE EndCycle
  BY <1>10, <1>b DEF EndCycle
<1>11. CASE Drop \/ Stop
  <2>1. UNCHANGED saved /\ Ended /\ pc' \in {"off", "idle"}
    BY <1>11, <1>l, EndKeeps
  <2>2. QED
    BY <1>b, <2>1 DEF Ended, NoEvents
<1>12. CASE UNCHANGED vars
  BY <1>12, <1>b DEF vars
<1>13. CASE LateWrite
  BY <1>13, <1>l DEF LateWrite
<1>14. QED
  BY <1>1, <1>2, <1>3, <1>4, <1>5, <1>6, <1>7, <1>8, <1>9, <1>10, <1>11, <1>12, <1>13
     DEF Next, OwnStep, Answered

(* Inductively: as long as the store keeps what it was told.               *)
IndTold == ~lapsed => Told

LEMMA NextIndTold ==
  ASSUME Set("emit_for_new")
  PROVE  TypeOK /\ TypeOK' /\ Stages /\ Seen /\ IndKept /\ IndTold /\ [Next]_vars => IndTold'
<1> SUFFICES ASSUME TypeOK, TypeOK', Stages, Seen, IndKept, IndTold, [Next]_vars, ~lapsed'
             PROVE  Told'
  BY DEF IndTold
<1>1. Kept /\ Told
  BY LapsedStays DEF IndKept, IndTold
<1>2. QED
  BY <1>1, NextTold

(* Before the first step nothing is told. *)
LEMMA InitTold == Init => Told
<1> SUFFICES ASSUME Init PROVE Told
  OBVIOUS
<1>1. pc = "off" /\ messageEvents = << >> /\ \A c \in Chats : handedMessages[c] = << >>
  BY DEF Init
<1>2. QED
  BY <1>1 DEF Told, InOrder

(* Where emit_messages_for_new_orders is set, the handler gets the ids of  *)
(* a chat in increasing order, so none twice, over all failures, and over  *)
(* restarts of a store that keeps what it was told.                        *)
THEOREM MessagesInOrder ==
  ASSUME Set("emit_for_new")
  PROVE  Spec => []MessagesHandedInOrder
<1>1. IndTold => MessagesHandedInOrder
  BY DEF IndTold, Told, InOrder, MessagesHandedInOrder
<1>2. TypeOK /\ TypeOK' /\ Stages /\ Seen /\ IndKept /\ IndTold /\ [Next]_vars => IndTold'
  BY NextIndTold
<1>3. Init => IndTold
  BY InitTold DEF IndTold
<1>4. QED
  BY <1>1, <1>2, <1>3, InitInvariant, NextType, NextStages, NextSeen, NextIndKept, PTL DEF Spec

(* Where it is set, what the handler gets, or has got, is already saved in *)
(* a store that keeps it: no restart forgets an event that was handed out. *)
THEOREM SavedFirst ==
  ASSUME Set("emit_for_new")
  PROVE  Spec => []SavedBeforeHanded
<1>1. TypeOK /\ IndOrders /\ IndTold => SavedBeforeHanded
  <2> SUFFICES ASSUME TypeOK, OrdersOnce, Told PROVE SavedBeforeHanded
    BY DEF IndOrders, IndTold, SavedBeforeHanded
  <2>1. pc = "emit" => \A e \in ToSet(messageEvents) : e[2] <= saved.messages[e[1]]
    BY DEF ToSet, Told
  <2>2. \A c \in Chats : \A i \in ToSet(handedMessages[c]) : i <= saved.messages[c]
    BY DEF ToSet, Told
  <2>3. QED
    BY <2>1, <2>2 DEF SavedBeforeHanded, OrdersOnce
<1>2. TypeOK /\ TypeOK' /\ Stages /\ Seen /\ IndKept /\ IndTold /\ [Next]_vars => IndTold'
  BY NextIndTold
<1>3. Init => IndTold /\ IndOrders
  BY InitTold, InitOrders DEF IndTold, IndOrders
<1>4. QED
  BY <1>1, <1>2, <1>3, InitInvariant, NextType, NextStages, NextSeen, NextIndKept, NextIndOrders,
     PTL DEF Spec
-----------------------------------------------------------------------------
(* The SQLite store never lapses, whatever fails; nor does the JSON file   *)
(* if it can be looked at and no call is dropped, or the store in memory   *)
(* as long as the process lives: of these the theorems above need no "as   *)
(* long as".                                                               *)
THEOREM StoreKeeps ==
  ASSUME \/ StoreKind = "sqlite"
         \/ StoreKind = "json" /\ "stat" \notin Faults /\ "drop" \notin Faults
         \/ StoreKind = "memory" /\ "stop" \notin Faults
  PROVE  Spec => [](~lapsed /\ late = {})
<1> DEFINE Keeps == ~lapsed /\ late = {}
<1>1. Init => Keeps
  BY DEF Init
<1>2. Keeps /\ [Next]_vars => Keeps'
  <2> SUFFICES ASSUME ~lapsed, late = {}, [Next]_vars PROVE ~lapsed' /\ late' = {}
    OBVIOUS
  <2>1. ASSUME NEW b \in BOOLEAN, Start(b) PROVE ~lapsed' /\ late' = {}
    <3>1. Loaded = {saved}
      BY DEF Loaded
    <3>2. QED
      BY <2>1, <3>1 DEF Start
  <2>2. CASE Save
    BY <2>2 DEF Save, Written, WriteFails
  <2>3. CASE Drop
    BY <2>3 DEF Drop
  <2>4. CASE Stop
    BY <2>4 DEF Stop
  <2>5. CASE LateWrite
    BY <2>5 DEF LateWrite
  <2>6. ASSUME NEW o \in Orders, FetchChat(o) \/ HandleOrder(o) \/ Join(o) \/ PlaceOrder(o)
        PROVE  UNCHANGED store
    BY <2>6 DEF FetchChat, HandleOrder, Join, PlaceOrder
  <2>7. ASSUME Poll \/ HandleMessage \/ EndCycle \/ UNCHANGED vars
        PROVE  UNCHANGED store
    BY <2>7 DEF Poll, HandleMessage, EndCycle, vars
  <2>8. ASSUME NEW c \in Chats, NEW a \in {"own", "buyer"}, Post(c, a) PROVE UNCHANGED store
    BY <2>8 DEF Post
  <2>9. QED
    BY <2>1, <2>2, <2>3, <2>4, <2>5, <2>6, <2>7, <2>8 DEF Next, OwnStep, Answered
<1>3. Keeps => ~lapsed /\ late = {}
  OBVIOUS
<1> HIDE DEF Keeps
<1>4. QED
  BY <1>1, <1>2, <1>3, PTL DEF Spec
==============================================================================
