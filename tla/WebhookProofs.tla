--------------------------- MODULE WebhookProofs ---------------------------
(***************************************************************************)
(* Theorems about Signature and Webhook for every digest, all requests and *)
(* notes, any number of connections and all faults.                        *)
(***************************************************************************)
EXTENDS Webhook, FiniteSetTheorems, TLAPS

(* What hex_encode writes from_hex_char reads. *)
LEMMA DigitIsRead == ASSUME NEW v \in 0..15 PROVE FromHexChar(HexChar(v)) = {v}
BY DEF FromHexChar, HexChar

(* A byte is its two halves. *)
LEMMA ByteHalves ==
  ASSUME NEW b \in Byte
  PROVE  b \div 16 \in 0..15 /\ b % 16 \in 0..15 /\ (b \div 16) * 16 + (b % 16) = b
BY DEF Byte

(* hex_decode undoes hex_encode, whatever the bytes. *)
LEMMA EncodingIsRead ==
  ASSUME NEW data \in Seq(Byte) PROVE HexDecode(HexEncode(data)) = {data}
<1> DEFINE s == HexEncode(data)
<1>1. Len(s) = 2 * Len(data) /\ DOMAIN s = 1..(2 * Len(data))
  BY DEF HexEncode
<1>2. ASSUME NEW i \in 1..Len(data)
      PROVE  /\ FromHexChar(s[2 * i - 1]) = {data[i] \div 16}
             /\ FromHexChar(s[2 * i]) = {data[i] % 16}
  <2>1. data[i] \in Byte
    OBVIOUS
  <2>2. data[i] \div 16 \in 0..15 /\ data[i] % 16 \in 0..15
    BY <2>1, ByteHalves
  <2>3. /\ (2 * i - 1) % 2 = 1 /\ (2 * i) % 2 = 0
        /\ ((2 * i - 1) + 1) \div 2 = i /\ (2 * i) \div 2 = i
    OBVIOUS
  <2>4. s[2 * i - 1] = HexChar(data[i] \div 16) /\ s[2 * i] = HexChar(data[i] % 16)
    BY <2>3 DEF HexEncode
  <2>5. QED
    BY <2>2, <2>4, DigitIsRead
<1> HIDE DEF s
<1>3. ASSUME NEW j \in DOMAIN s PROVE FromHexChar(s[j]) # {}
  <2>1. PICK i \in 1..Len(data) : j = 2 * i - 1 \/ j = 2 * i
    <3>1. CASE j % 2 = 0
      <4>1. j \div 2 \in 1..Len(data) /\ j = 2 * (j \div 2)
        BY <1>1, <3>1
      <4>2. QED
        BY <4>1
    <3>2. CASE j % 2 = 1
      <4>1. (j + 1) \div 2 \in 1..Len(data) /\ j = 2 * ((j + 1) \div 2) - 1
        BY <1>1, <3>2
      <4>2. QED
        BY <4>1
    <3>3. QED
      BY <1>1, <3>1, <3>2
  <2>2. QED
    BY <1>2, <2>1
<1> DEFINE digit(i) == CHOOSE v \in FromHexChar(s[i]) : TRUE
           decoded == [k \in 1..(Len(s) \div 2) |-> digit(2 * k - 1) * 16 + digit(2 * k)]
<1>4. HexDecode(s) = {decoded}
  BY <1>1, <1>3 DEF HexDecode
<1>5. Len(s) \div 2 = Len(data)
  BY <1>1
<1>6. ASSUME NEW i \in 1..Len(data) PROVE digit(2 * i - 1) * 16 + digit(2 * i) = data[i]
  <2>1. digit(2 * i - 1) = data[i] \div 16 /\ digit(2 * i) = data[i] % 16
    <3>1. FromHexChar(s[2 * i - 1]) = {data[i] \div 16} /\ FromHexChar(s[2 * i]) = {data[i] % 16}
      BY <1>2
    <3>2. QED
      BY <3>1
  <2>2. data[i] \in Byte
    OBVIOUS
  <2>3. QED
    BY <2>1, <2>2, ByteHalves
<1>7. decoded = data
  BY <1>5, <1>6
<1>8. QED
  BY <1>4, <1>7 DEF s

(* constant_time_eq is equality. *)
LEMMA ConstantTimeEqIsEquality ==
  ASSUME NEW a \in Seq(Byte), NEW b \in Seq(Byte) PROVE ConstantTimeEq(a, b) <=> a = b
BY DEF ConstantTimeEq

(* verify_hmac accepts what its own hex_encode writes of the digest, and   *)
(* no text that decodes to anything else.                                  *)
THEOREM SignatureIsExact ==
  ASSUME NEW digest \in Seq(Byte)
  PROVE  /\ Accepts(digest, HexEncode(digest))
         /\ \A other \in Seq(Byte) : Accepts(digest, HexEncode(other)) => other = digest
<1>1. ASSUME NEW other \in Seq(Byte) PROVE Accepts(digest, HexEncode(other)) <=> other = digest
  BY EncodingIsRead, ConstantTimeEqIsEquality DEF Accepts
<1>2. QED
  BY <1>1
-----------------------------------------------------------------------------
(* The signature a task has read is a header's, or there is none. *)
FromHeader(c) ==
  \/ signature[c] = << >>
  \/ \E i \in DOMAIN try[c].headers : /\ try[c].headers[i].name = "X-Signature-256"
                                      /\ try[c].headers[i].value = signature[c]

Posted(t) == t.method = "POST" /\ t.path = "endpoint"

(* A handler's request is a whole one: its note is what the body parses    *)
(* as, and what the signature was of.                                      *)
Genuine(c) ==
  LET t == try[c] IN
  /\ t \in Tries /\ Posted(t)
  /\ Blocks[t.note] <= MaxBody /\ t.body = Whole(t.note)
  /\ sent[c] >= BodyStart(t) + Blocks[t.note]
  /\ Secret => Signed(t)

(* What the task of a connection knows at each point: how far it has read, *)
(* and what it has seen.                                                   *)
TaskInv(c) ==
  LET t == try[c] IN
  /\ t \in Tries \cup {Unused}
  /\ t = Unused => sent[c] = 0 /\ pc[c] = "none" /\ took[c] = << >>
  /\ pc[c] \in {"none", "line"} => got[c] = 0 /\ signature[c] = << >>
  /\ pc[c] \in {"headers", "body"} => t \in Tries /\ Posted(t) /\ FromHeader(c)
  /\ pc[c] = "headers" => got[c] \in 1..(Len(t.headers) + 1)
  /\ pc[c] = "body" => got[c] = BodyStart(t) /\ length[c] \in 1..MaxBody
  /\ pc[c] \in {"handler", "handled"} =>
       Genuine(c) /\ ParsesAs(c, t.note)
  /\ sent[c] \in Nat /\ got[c] \in Nat /\ length[c] \in Nat
  /\ t # Unused => sent[c] <= Pieces(t)
  /\ took[c] \in Seq([note : Notes, event : Events])
  /\ \A i \in DOMAIN took[c] :
       /\ Genuine(c) /\ took[c][i].note = t.note
       /\ took[c][i].event \in Fits[t.note] \cup {"RawEvent"}

Domains ==
  /\ DOMAIN try = Conns /\ DOMAIN sent = Conns /\ DOMAIN open = Conns
  /\ DOMAIN pc = Conns /\ DOMAIN got = Conns /\ DOMAIN length = Conns
  /\ DOMAIN signature = Conns /\ DOMAIN took = Conns

ServerInv == Domains /\ \A c \in Conns : TaskInv(c)
-----------------------------------------------------------------------------
(* Facts about the requests. *)
LEMMA TryFacts ==
  ASSUME NEW t \in Tries
  PROVE  /\ t # Unused /\ t.note \in Notes
         /\ Len(t.headers) \in Nat /\ DOMAIN t.headers = 1..Len(t.headers)
         /\ Blocks[t.note] \in Nat \ {0}
         /\ Len(t.body) \in Nat /\ BodyStart(t) \in Nat /\ Pieces(t) \in Nat
<1>1. t # Unused
  <2>1. DOMAIN t = {"note", "method", "path", "headers", "body"}
    BY WebhookAssumption
  <2>2. "body" \in DOMAIN t /\ "body" \notin DOMAIN Unused
    BY <2>1 DEF Unused
  <2>3. QED
    BY <2>2
<1>2. /\ t.note \in Notes /\ t.body \in {<< >>, Whole(t.note)}
      /\ Blocks[t.note] \in Nat \ {0}
  BY WebhookAssumption
<1>3. t.headers \in Seq({t.headers[i] : i \in DOMAIN t.headers})
  BY WebhookAssumption
<1>4. Len(t.headers) \in Nat /\ DOMAIN t.headers = 1..Len(t.headers)
  BY <1>3
<1>5. Len(t.body) \in Nat
  <2>1. Whole(t.note) \in Seq({<< t.note, i >> : i \in 1..Blocks[t.note]})
    BY <1>2 DEF Whole
  <2>2. Len(Whole(t.note)) \in Nat
    BY <2>1
  <2>3. QED
    BY <1>2, <2>2
<1>6. BodyStart(t) \in Nat /\ Pieces(t) \in Nat
  <2>1. BodyStart(t) = Len(t.headers) + 2 /\ Pieces(t) = BodyStart(t) + Len(t.body)
    BY DEF BodyStart, Pieces
  <2>2. Len(t.headers) \in Nat
    BY <1>4
  <2>3. BodyStart(t) \in Nat
    BY <2>1, <2>2
  <2>4. \A m \in Nat : BodyStart(t) + m \in Nat
    BY <2>3
  <2>5. QED
    BY <1>5, <2>1, <2>3, <2>4, Zenon
<1>7. QED
  BY <1>1, <1>2, <1>4, <1>5, <1>6

(* The whole body of a note is as long as it says and tells the note. *)
LEMMA WholeIsSeq ==
  ASSUME NEW n \in Notes
  PROVE  /\ Whole(n) \in Seq({<< n, i >> : i \in 1..Blocks[n]})
         /\ Len(Whole(n)) = Blocks[n] /\ Whole(n)[1] = << n, 1 >>
<1>1. Blocks[n] \in Nat \ {0}
  BY WebhookAssumption
<1>2. QED
  BY <1>1 DEF Whole

(* No signature is no signature: nothing decodes to no bytes but the empty *)
(* text, and no digest is empty.                                           *)
LEMMA EmptyIsRefused ==
  ASSUME NEW digest \in Seq(Byte), digest # << >> PROVE ~Accepts(digest, << >>)
<1>1. Len(digest) # 0
  OBVIOUS
<1>2. ASSUME NEW bytes \in HexDecode(<< >>) PROVE Len(bytes) = 0
  <2>1. Len(<< >>) % 2 = 0 /\ Len(<< >>) \div 2 = 0 /\ DOMAIN << >> = {}
    OBVIOUS
  <2>2. DOMAIN bytes = 1..0
    BY <2>1 DEF HexDecode
  <2>3. bytes \in Seq(Nat)
    BY <2>1 DEF HexDecode
  <2>4. QED
    BY <2>2, <2>3
<1>3. QED
  BY <1>1, <1>2 DEF Accepts, ConstantTimeEq

(* A body that has arrived and parses is the whole note of its request. *)
LEMMA ParsedIsWhole ==
  ASSUME NEW c \in Conns, try[c] \in Tries, length[c] \in Nat \ {0},
         length[c] <= Len(try[c].body), NEW n \in Notes, ParsesAs(c, n)
  PROVE  /\ n = try[c].note /\ try[c].body = Whole(n)
         /\ length[c] = Blocks[n] /\ Body(c) = Whole(n)
<1> DEFINE t == try[c]
<1>1. t.note \in Notes /\ t.body \in {<< >>, Whole(t.note)}
  BY WebhookAssumption
<1>2. t.body = Whole(t.note)
  BY <1>1
<1>3. /\ t.body \in Seq({<< t.note, i >> : i \in 1..Blocks[t.note]})
      /\ Len(t.body) = Blocks[t.note] /\ t.body[1] = << t.note, 1 >>
  BY <1>1, <1>2, WholeIsSeq
<1>4. /\ Len(Body(c)) = length[c] /\ Body(c)[1] = t.body[1]
  BY <1>3 DEF Body
<1>5. Body(c) = Whole(n)
  BY DEF ParsesAs
<1>6. Len(Whole(n)) = Blocks[n] /\ Whole(n)[1] = << n, 1 >>
  BY WholeIsSeq
<1>7. << n, 1 >> = << t.note, 1 >>
  BY <1>3, <1>4, <1>5, <1>6
<1>8. n = t.note
  BY <1>7
<1>9. QED
  BY <1>2, <1>4, <1>5, <1>6, <1>8

(* A body parses as one note only. *)
LEMMA ParsesAsOne ==
  ASSUME NEW c \in Conns, NEW n \in Notes, NEW m \in Notes, ParsesAs(c, n), ParsesAs(c, m)
  PROVE  n = m
<1>1. Whole(n) = Whole(m)
  BY DEF ParsesAs
<1>2. << n, 1 >> = << m, 1 >>
  BY <1>1, WholeIsSeq
<1>3. QED
  BY <1>2
-----------------------------------------------------------------------------
(* What a connection of its own and its sender leave alone stays true. *)
LEMMA UntouchedTask ==
  ASSUME NEW c \in Conns, TaskInv(c),
         try'[c] = try[c], sent'[c] = sent[c], pc'[c] = pc[c], got'[c] = got[c],
         length'[c] = length[c], signature'[c] = signature[c], took'[c] = took[c]
  PROVE  TaskInv(c)'
BY DEF TaskInv, Genuine, FromHeader, ParsesAs, Body

(* A task that is about to answer, or that ends, need know no more. *)
LEMMA TaskIsDone ==
  ASSUME NEW c \in Conns, TaskInv(c), try[c] # Unused,
         try'[c] = try[c], sent'[c] = sent[c], pc'[c] \in {"reply", "ended"},
         got'[c] \in Nat, length'[c] = length[c], took'[c] = took[c]
  PROVE  TaskInv(c)'
BY DEF TaskInv, Genuine

(* A step of one connection leaves the others alone. *)
Only(c) ==
  /\ Domains'
  /\ \A d \in Conns \ {c} :
       /\ try'[d] = try[d] /\ sent'[d] = sent[d] /\ pc'[d] = pc[d] /\ got'[d] = got[d]
       /\ length'[d] = length[d] /\ signature'[d] = signature[d] /\ took'[d] = took[d]

(* A step of one connection need only be looked at there. *)
LEMMA OneTask ==
  ASSUME ServerInv, NEW c \in Conns, Only(c), TaskInv(c)' PROVE ServerInv'
<1>1. ASSUME NEW d \in Conns, d # c PROVE TaskInv(d)'
  BY <1>1, UntouchedTask DEF ServerInv, Only
<1>2. QED
  BY <1>1 DEF ServerInv, Only

(* Initially no task has begun. *)
LEMMA ServerInvInit == Init => ServerInv
<1> SUFFICES ASSUME Init PROVE ServerInv
  OBVIOUS
<1>1. Domains
  BY DEF Init, Domains
<1>2. ASSUME NEW c \in Conns PROVE TaskInv(c)
  <2>1. << >> \in Seq([note : Notes, event : Events])
    OBVIOUS
  <2>2. QED
    BY <2>1 DEF Init, TaskInv
<1>3. QED
  BY <1>1, <1>2 DEF ServerInv

(* A connection starts with nothing sent and nothing read. *)
LEMMA ConnectKeeps ==
  ASSUME ServerInv, NEW c \in Conns, NEW t \in Tries, Connect(c, t) PROVE ServerInv'
<1>1. Only(c)
  BY DEF Connect, Only, ServerInv, Domains, read
<1>2. /\ try[c] = Unused /\ try'[c] = t
      /\ sent'[c] = sent[c] /\ pc'[c] = pc[c] /\ got'[c] = got[c]
      /\ length'[c] = length[c] /\ signature'[c] = signature[c] /\ took'[c] = took[c]
  BY DEF Connect, ServerInv, Domains, read
<1>3. sent[c] = 0 /\ pc[c] = "none" /\ took[c] = << >>
  BY <1>2 DEF ServerInv, TaskInv
<1>4. t # Unused /\ Pieces(t) \in Nat
  BY TryFacts
<1>5. TaskInv(c)'
  BY <1>2, <1>3, <1>4 DEF ServerInv, TaskInv
<1>6. QED
  BY <1>1, <1>5, OneTask

(* One more piece arrives; what was genuine stays genuine. *)
LEMMA SendKeeps ==
  ASSUME ServerInv, NEW c \in Conns, Send(c) PROVE ServerInv'
<1>1. Only(c)
  BY DEF Send, Only, ServerInv, Domains, read
<1>2. /\ sent[c] < Pieces(try[c]) /\ sent'[c] = sent[c] + 1
      /\ try'[c] = try[c] /\ pc'[c] = pc[c] /\ got'[c] = got[c]
      /\ length'[c] = length[c] /\ signature'[c] = signature[c] /\ took'[c] = took[c]
      /\ pc[c] # "none"
  BY DEF Send, ServerInv, Domains, read
<1>3. try[c] \in Tries /\ sent[c] \in Nat
  BY <1>2 DEF ServerInv, TaskInv
<1>4. /\ Pieces(try[c]) \in Nat /\ BodyStart(try[c]) \in Nat /\ Blocks[try[c].note] \in Nat
  BY <1>3, TryFacts
<1>5. Genuine(c) => Genuine(c)'
  BY <1>2, <1>3, <1>4 DEF Genuine
<1>6. FromHeader(c)' <=> FromHeader(c)
  BY <1>2 DEF FromHeader
<1>7. \A n : ParsesAs(c, n)' <=> ParsesAs(c, n)
  BY <1>2 DEF ParsesAs, Body
<1>8. sent'[c] \in Nat /\ sent'[c] <= Pieces(try[c])
  BY <1>2, <1>3, <1>4
<1>9. TaskInv(c)'
  <2>1. TaskInv(c)
    BY DEF ServerInv
  <2>2. QED
    BY <1>2, <1>3, <1>5, <1>6, <1>7, <1>8, <2>1 DEF TaskInv
<1>10. QED
  BY <1>1, <1>9, OneTask

(* A task begins, with nothing read. *)
LEMMA AcceptKeeps ==
  ASSUME ServerInv, NEW c \in Conns, Accept(c) PROVE ServerInv'
<1>1. Only(c)
  BY DEF Accept, Only, ServerInv, Domains, wire, read
<1>2. /\ pc[c] = "none" /\ pc'[c] \in {"none", "line"} /\ try[c] # Unused
      /\ try'[c] = try[c] /\ sent'[c] = sent[c] /\ got'[c] = got[c]
      /\ length'[c] = length[c] /\ signature'[c] = signature[c] /\ took'[c] = took[c]
  BY DEF Accept, ServerInv, Domains, wire, read
<1>3. TaskInv(c)'
  <2>1. TaskInv(c) /\ pc'[c] \notin {"headers", "body", "handler", "handled"}
    BY <1>2 DEF ServerInv
  <2>2. Genuine(c)' <=> Genuine(c)
    BY <1>2 DEF Genuine
  <2>3. QED
    BY <1>2, <2>1, <2>2 DEF TaskInv
<1>4. QED
  BY <1>1, <1>3, OneTask

(* The tasks that die know no more than they did. *)
LEMMA CrashKeeps == ASSUME ServerInv, Crash PROVE ServerInv'
<1>1. Domains'
  BY DEF Crash, ServerInv, Domains, wire, read
<1>2. ASSUME NEW c \in Conns PROVE TaskInv(c)'
  <2>1. /\ try'[c] = try[c] /\ sent'[c] = sent[c] /\ got'[c] = got[c]
        /\ length'[c] = length[c] /\ signature'[c] = signature[c] /\ took'[c] = took[c]
        /\ pc'[c] = IF try[c] = Unused THEN "none" ELSE "ended"
    BY DEF Crash, wire, read
  <2>2. TaskInv(c)
    BY DEF ServerInv
  <2>3. CASE try[c] = Unused
    BY <2>1, <2>2, <2>3, UntouchedTask DEF TaskInv
  <2>4. CASE try[c] # Unused
    <3>1. got[c] \in Nat
      BY <2>2 DEF TaskInv
    <3>2. QED
      BY <2>1, <2>2, <2>4, <3>1, TaskIsDone
  <2>5. QED
    BY <2>3, <2>4
<1>3. QED
  BY <1>1, <1>2 DEF ServerInv
-----------------------------------------------------------------------------
(* handle_request. *)
LEMMA ReadLineKeeps ==
  ASSUME ServerInv, NEW c \in Conns, ReadLine(c) PROVE ServerInv'
<1>1. /\ pc[c] = "line" /\ try'[c] = try[c] /\ sent'[c] = sent[c]
      /\ length'[c] = length[c] /\ signature'[c] = signature[c] /\ took'[c] = took[c]
      /\ got'[c] \in {got[c], got[c] + 1}
  BY DEF ReadLine, ServerInv, Domains, wire, read
<1>2. TaskInv(c) /\ try[c] \in Tries /\ try[c] # Unused /\ got[c] = 0 /\ signature[c] = << >>
  BY <1>1, TryFacts DEF ServerInv, TaskInv
<1>3. \/ pc'[c] = "reply"
      \/ pc'[c] = "headers" /\ got'[c] = got[c] + 1 /\ Posted(try[c])
  BY DEF ReadLine, Respond, Go, Posted, ServerInv, Domains
<1>4. Only(c)
  BY DEF ReadLine, Respond, Go, Only, ServerInv, Domains, wire, read
<1>5. CASE pc'[c] = "reply"
  BY <1>1, <1>2, <1>4, <1>5, TaskIsDone, OneTask
<1>6. CASE pc'[c] = "headers" /\ got'[c] = got[c] + 1 /\ Posted(try[c])
  <2>1. got'[c] = 1 /\ Len(try[c].headers) \in Nat
    BY <1>2, <1>6, TryFacts
  <2>2. FromHeader(c)'
    BY <1>1, <1>2 DEF FromHeader
  <2>3. TaskInv(c)'
    BY <1>1, <1>2, <1>6, <2>1, <2>2 DEF TaskInv, Genuine
  <2>4. QED
    BY <1>4, <2>3, OneTask
<1>7. QED
  BY <1>3, <1>5, <1>6

(* A header line: the signature is that of a header, and the task goes on  *)
(* to a body only within the limit.                                        *)
LEMMA ReadHeaderKeeps ==
  ASSUME ServerInv, NEW c \in Conns, ReadHeader(c) PROVE ServerInv'
<1> DEFINE t == try[c]
<1>1. /\ pc[c] = "headers" /\ try'[c] = t /\ sent'[c] = sent[c]
      /\ took'[c] = took[c] /\ got'[c] = got[c] + 1
  BY DEF ReadHeader, ServerInv, Domains, wire
<1>2. /\ TaskInv(c) /\ t \in Tries /\ t # Unused /\ Posted(t) /\ FromHeader(c)
      /\ got[c] \in 1..(Len(t.headers) + 1) /\ length[c] \in Nat
  BY <1>1, TryFacts DEF ServerInv, TaskInv
<1>3. /\ Len(t.headers) \in Nat /\ DOMAIN t.headers = 1..Len(t.headers)
      /\ \A i \in DOMAIN t.headers :
           t.headers[i].name = "length" => t.headers[i].value \in Nat
  BY <1>2, TryFacts, WebhookAssumption
<1>4. CASE got[c] <= Len(t.headers)
  <2> DEFINE h == t.headers[got[c]]
  <2>1. TakeHeader(c, h) /\ UNCHANGED << pc, reply >>
    BY <1>4 DEF ReadHeader
  <2>2. got[c] \in DOMAIN t.headers
    BY <1>2, <1>3, <1>4
  <2>3. Only(c) /\ pc'[c] = pc[c]
    BY <2>1 DEF ReadHeader, TakeHeader, Only, ServerInv, Domains, wire
  <2>4. length'[c] \in Nat
    BY <1>2, <1>3, <2>1, <2>2 DEF TakeHeader, ServerInv, Domains
  <2>5. FromHeader(c)'
    <3>1. CASE h.name = "X-Signature-256"
      <4>1. signature'[c] = h.value
        BY <2>1, <3>1 DEF TakeHeader, ServerInv, Domains
      <4>2. QED
        BY <1>1, <2>2, <3>1, <4>1 DEF FromHeader
    <3>2. CASE h.name # "X-Signature-256"
      <4>1. signature' = signature
        BY <2>1, <3>2 DEF TakeHeader
      <4>2. QED
        BY <1>1, <1>2, <4>1 DEF FromHeader
    <3>3. QED
      BY <3>1, <3>2
  <2>6. got'[c] \in 1..(Len(t.headers) + 1)
    BY <1>1, <1>2, <1>3, <1>4
  <2> HIDE DEF h, t
  <2>7. TaskInv(c)'
    BY <1>1, <1>2, <2>3, <2>4, <2>5, <2>6 DEF TaskInv, Genuine, t
  <2>8. QED
    BY <2>3, <2>7, OneTask
<1>5. CASE ~(got[c] <= Len(t.headers))
  <2>1. CheckLength(c) /\ UNCHANGED << length, signature >>
    BY <1>5 DEF ReadHeader
  <2>2. Only(c)
    BY <2>1 DEF ReadHeader, CheckLength, Respond, Go, Only, ServerInv, Domains, wire
  <2>3. got[c] \in Nat /\ got'[c] = BodyStart(t)
    BY <1>1, <1>2, <1>3, <1>5 DEF BodyStart
  <2>4. \/ pc'[c] = "reply"
        \/ pc'[c] = "body" /\ length[c] \in 1..MaxBody
    BY <1>2, <2>1, WebhookAssumption DEF CheckLength, Respond, Go, ServerInv, Domains
  <2>5. CASE pc'[c] = "reply"
    <3>1. got'[c] \in Nat
      BY <1>1, <2>3
    <3>2. QED
      BY <1>1, <1>2, <2>1, <2>2, <2>5, <3>1, TaskIsDone, OneTask
  <2>6. CASE pc'[c] = "body" /\ length[c] \in 1..MaxBody
    <3>1. FromHeader(c)'
      BY <1>1, <1>2, <2>1 DEF FromHeader
    <3>2. got'[c] \in Nat
      BY <1>1, <2>3
    <3> HIDE DEF t
    <3>3. TaskInv(c)'
      BY <1>1, <1>2, <2>1, <2>3, <2>6, <3>1, <3>2 DEF TaskInv, Genuine, t
    <3>4. QED
      BY <2>2, <3>3, OneTask
  <2>7. QED
    BY <2>4, <2>5, <2>6
<1>6. QED
  BY <1>4, <1>5

(* What a verified body that parses says of the request. *)
LEMMA VerifiedIsGenuine ==
  ASSUME NEW c \in Conns, TaskInv(c), pc[c] = "body", sent[c] - got[c] >= length[c],
         Verified(c), NEW n \in Notes, ParsesAs(c, n)
  PROVE  Genuine(c) /\ ParsesAs(c, try[c].note)
<1> DEFINE t == try[c]
<1>1. /\ t \in Tries /\ Posted(t) /\ FromHeader(c) /\ got[c] = BodyStart(t)
      /\ length[c] \in 1..MaxBody /\ sent[c] \in Nat /\ sent[c] <= Pieces(t)
  BY TryFacts DEF TaskInv
<1>2. /\ MaxBody \in Nat /\ Len(t.body) \in Nat /\ BodyStart(t) \in Nat
      /\ Pieces(t) = BodyStart(t) + Len(t.body)
  <2>1. Pieces(t) = BodyStart(t) + Len(t.body)
    BY DEF Pieces
  <2>2. QED
    BY <1>1, <2>1, TryFacts, WebhookAssumption
<1>3. length[c] \in Nat \ {0} /\ length[c] <= Len(t.body) /\ length[c] <= MaxBody
  BY <1>1, <1>2
<1>4. /\ n = t.note /\ t.body = Whole(n) /\ length[c] = Blocks[n] /\ Body(c) = Whole(n)
  BY <1>1, <1>3, ParsedIsWhole
<1>5. sent[c] >= BodyStart(t) + Blocks[n]
  BY <1>1, <1>2, <1>3, <1>4
<1>6. ASSUME Secret PROVE Signed(t)
  <2>1. Accepts(Digest[Whole(n)], signature[c])
    BY <1>4, <1>6 DEF Verified
  <2>2. Digest[Whole(n)] \in Seq(Byte) /\ Digest[Whole(n)] # << >>
    BY WebhookAssumption
  <2>3. signature[c] # << >>
    BY <2>1, <2>2, EmptyIsRefused
  <2>4. PICK i \in DOMAIN t.headers : /\ t.headers[i].name = "X-Signature-256"
                                      /\ t.headers[i].value = signature[c]
    BY <1>1, <2>3 DEF FromHeader
  <2>5. QED
    BY <1>4, <2>1, <2>4 DEF Signed
<1>7. QED
  BY <1>1, <1>3, <1>4, <1>5, <1>6 DEF Genuine

(* The handler is reached with a genuine note only. *)
LEMMA ReadBodyKeeps ==
  ASSUME ServerInv, NEW c \in Conns, ReadBody(c) PROVE ServerInv'
<1>1. /\ pc[c] = "body" /\ try'[c] = try[c] /\ sent'[c] = sent[c]
      /\ length'[c] = length[c] /\ signature'[c] = signature[c] /\ took'[c] = took[c]
  BY DEF ReadBody, ServerInv, Domains, wire
<1>2. /\ TaskInv(c) /\ try[c] \in Tries /\ try[c] # Unused
      /\ got[c] \in Nat /\ length[c] \in Nat /\ sent[c] \in Nat
  BY <1>1, TryFacts DEF ServerInv, TaskInv
<1>3. got'[c] \in Nat
  <2>1. got'[c] \in {got[c] + length[c], sent[c]}
    BY DEF ReadBody, ServerInv, Domains
  <2>2. QED
    BY <1>2, <2>1
<1>4. Only(c)
  BY DEF ReadBody, Respond, Go, Only, ServerInv, Domains, wire
<1>5. \/ pc'[c] \in {"reply", "ended"}
      \/ /\ pc'[c] = "handler" /\ Verified(c) /\ sent[c] - got[c] >= length[c]
         /\ \E n \in Notes : ParsesAs(c, n)
  BY DEF ReadBody, Respond, Go, ServerInv, Domains
<1>6. CASE pc'[c] \in {"reply", "ended"}
  BY <1>1, <1>2, <1>3, <1>4, <1>6, TaskIsDone, OneTask
<1>7. CASE /\ pc'[c] = "handler" /\ Verified(c) /\ sent[c] - got[c] >= length[c]
           /\ \E n \in Notes : ParsesAs(c, n)
  <2>1. Genuine(c) /\ ParsesAs(c, try[c].note)
    BY <1>1, <1>2, <1>7, VerifiedIsGenuine
  <2>2. Genuine(c)' /\ ParsesAs(c, try[c].note)'
    BY <1>1, <2>1 DEF Genuine, ParsesAs, Body
  <2>3. TaskInv(c)'
    BY <1>1, <1>2, <1>3, <1>7, <2>2 DEF TaskInv
  <2>4. QED
    BY <1>4, <2>3, OneTask
<1>8. QED
  BY <1>5, <1>6, <1>7

(* The handler acts on the one note its body parses as. *)
LEMMA HandlerActsKeeps ==
  ASSUME ServerInv, NEW c \in Conns, HandlerActs(c) PROVE ServerInv'
<1> DEFINE m == CHOOSE n \in Notes : ParsesAs(c, n)
           taken == [note |-> m, event |-> EventOf(m)]
<1>1. /\ pc[c] = "handler" /\ pc'[c] = "handled" /\ try'[c] = try[c] /\ sent'[c] = sent[c]
      /\ length'[c] = length[c] /\ signature'[c] = signature[c] /\ got'[c] = got[c]
      /\ took'[c] = Append(took[c], taken)
  BY DEF HandlerActs, Go, ServerInv, Domains, wire, read
<1>2. /\ TaskInv(c) /\ Genuine(c) /\ try[c] \in Tries /\ ParsesAs(c, try[c].note)
      /\ try[c].note \in Notes /\ took[c] \in Seq([note : Notes, event : Events])
  BY <1>1, TryFacts DEF ServerInv, TaskInv, Genuine
<1>3. m = try[c].note
  <2>1. m \in Notes /\ ParsesAs(c, m)
    BY <1>2
  <2>2. QED
    BY <1>2, <2>1, ParsesAsOne
<1>4. EventOf(m) \in Events /\ EventOf(m) \in Fits[try[c].note] \cup {"RawEvent"}
  BY <1>3 DEF EventOf, Events
<1> HIDE DEF m
<1>5. taken \in [note : Notes, event : Events]
  BY <1>2, <1>3, <1>4
<1>6. /\ took'[c] \in Seq([note : Notes, event : Events])
      /\ \A i \in DOMAIN took'[c] : \/ took'[c][i] = taken
                                    \/ i \in DOMAIN took[c] /\ took'[c][i] = took[c][i]
  BY <1>1, <1>2, <1>5
<1>7. \A i \in DOMAIN took'[c] : /\ took'[c][i].note = try[c].note
                                 /\ took'[c][i].event \in Fits[try[c].note] \cup {"RawEvent"}
  <2>1. \A i \in DOMAIN took[c] : /\ took[c][i].note = try[c].note
                                  /\ took[c][i].event \in Fits[try[c].note] \cup {"RawEvent"}
    BY <1>2, Zenon DEF TaskInv
  <2>2. taken.note = try[c].note /\ taken.event \in Fits[try[c].note] \cup {"RawEvent"}
    BY <1>3, <1>4
  <2>3. QED
    BY <1>6, <2>1, <2>2, Zenon
<1>8. Genuine(c)' /\ ParsesAs(c, try[c].note)'
  BY <1>1, <1>2 DEF Genuine, ParsesAs, Body
<1>9. TaskInv(c)'
  BY <1>1, <1>2, <1>6, <1>7, <1>8, TryFacts DEF TaskInv
<1>10. Only(c)
  BY DEF HandlerActs, Go, Only, ServerInv, Domains, wire, read
<1>11. QED
  BY <1>9, <1>10, OneTask

(* To answer or to fail leaves what was handled. *)
LEMMA AnsweringKeeps ==
  ASSUME ServerInv, NEW c \in Conns, HandlerReturns(c) \/ Reply(c) PROVE ServerInv'
<1>1. /\ pc[c] \in {"handler", "handled", "reply"} /\ pc'[c] \in {"reply", "ended"}
      /\ try'[c] = try[c] /\ sent'[c] = sent[c] /\ length'[c] = length[c]
      /\ got'[c] = got[c] /\ took'[c] = took[c]
  BY DEF HandlerReturns, Reply, Respond, Go, ServerInv, Domains, wire, read
<1>2. TaskInv(c) /\ try[c] # Unused /\ got'[c] \in Nat
  BY <1>1 DEF ServerInv, TaskInv
<1>3. Only(c)
  BY DEF HandlerReturns, Reply, Respond, Go, Only, ServerInv, Domains, wire, read
<1>4. QED
  BY <1>1, <1>2, <1>3, TaskIsDone, OneTask

(* Every step keeps the invariant. *)
LEMMA ServerInvStep == ServerInv /\ [Next]_vars => ServerInv'
<1> SUFFICES ASSUME ServerInv, [Next]_vars PROVE ServerInv'
  OBVIOUS
<1>1. ASSUME NEW c \in Conns, NEW t \in Tries, Connect(c, t) PROVE ServerInv'
  BY <1>1, ConnectKeeps
<1>2. ASSUME NEW c \in Conns, Send(c) PROVE ServerInv'
  BY <1>2, SendKeeps
<1>3. ASSUME UNCHANGED << try, sent, pc, read, took >>, Domains' PROVE ServerInv'
  <2>1. ASSUME NEW c \in Conns PROVE TaskInv(c)'
    BY <1>3, UntouchedTask DEF ServerInv, read
  <2>2. QED
    BY <1>3, <2>1 DEF ServerInv
<1>4. ASSUME NEW c \in Conns, Close(c) PROVE ServerInv'
  BY <1>3, <1>4 DEF Close, ServerInv, Domains, read
<1>5. ASSUME NEW c \in Conns, Accept(c) PROVE ServerInv'
  BY <1>5, AcceptKeeps
<1>6. ASSUME NEW c \in Conns, Serve(c) PROVE ServerInv'
  BY <1>6, ReadLineKeeps, ReadHeaderKeeps, ReadBodyKeeps, HandlerActsKeeps, AnsweringKeeps
     DEF Serve
<1>7. CASE Run
  BY <1>3, <1>7 DEF Run, ServerInv, Domains, wire, read
<1>8. CASE Crash
  BY <1>8, CrashKeeps
<1>9. CASE UNCHANGED vars
  BY <1>3, <1>9 DEF vars, ServerInv, Domains, wire, read
<1>10. QED
  BY <1>1, <1>2, <1>4, <1>5, <1>6, <1>7, <1>8, <1>9 DEF Next
-----------------------------------------------------------------------------
(* The application's handler only ever gets a note that its sender has     *)
(* sent whole, to the endpoint, within the size limit and, when a secret   *)
(* is set, with the signature of the whole (webhook.rs:174-271), whatever  *)
(* pieces arrive when, and whoever closes or dies.                         *)
THEOREM HandledIsGenuine == Spec => []OnlyGenuineHandled
<1>1. ServerInv => OnlyGenuineHandled
  <2> SUFFICES ASSUME ServerInv, NEW c \in Conns, NEW i \in DOMAIN took[c]
               PROVE  LET t == try[c] IN
                      /\ took[c][i].note = t.note
                      /\ took[c][i].event \in Fits[t.note] \cup {"RawEvent"}
                      /\ t.method = "POST" /\ t.path = "endpoint"
                      /\ Blocks[t.note] <= MaxBody
                      /\ SubSeq(t.body, 1, Blocks[t.note]) = Whole(t.note)
                      /\ sent[c] >= BodyStart(t) + Blocks[t.note]
                      /\ Secret => Signed(t)
    BY DEF OnlyGenuineHandled
  <2>1. /\ Genuine(c) /\ took[c][i].note = try[c].note
        /\ took[c][i].event \in Fits[try[c].note] \cup {"RawEvent"}
    BY DEF ServerInv, TaskInv
  <2>2. SubSeq(try[c].body, 1, Blocks[try[c].note]) = Whole(try[c].note)
    <3>1. try[c].note \in Notes /\ try[c].body = Whole(try[c].note)
      BY <2>1, TryFacts DEF Genuine
    <3>2. /\ Whole(try[c].note) \in Seq({<< try[c].note, j >> : j \in 1..Blocks[try[c].note]})
          /\ Len(Whole(try[c].note)) = Blocks[try[c].note]
      BY <3>1, WholeIsSeq
    <3>3. QED
      BY <3>1, <3>2
  <2>3. QED
    BY <2>1, <2>2 DEF Genuine, Posted
<1>2. QED
  BY <1>1, ServerInvInit, ServerInvStep, PTL DEF Spec
-----------------------------------------------------------------------------
(* The types of what the step of a task leaves to be seen. *)
LEMMA TypeInit == Init => TypeOK
<1> SUFFICES ASSUME Init PROVE TypeOK
  OBVIOUS
<1>1. /\ << >> \in Seq(Nat) /\ << >> \in Seq([note : Notes, event : Events])
      /\ 0 \in Nat /\ None \in Statuses \cup {None} /\ 0 <= 0
  OBVIOUS
<1>2. \A c \in Conns : /\ signature[c] = << >> /\ took[c] = << >>
                       /\ got[c] = 0 /\ sent[c] = 0
  BY DEF Init
<1>3. QED
  BY <1>1, <1>2 DEF Init, TypeOK

(* A step of a task keeps every variable in its type. *)
LEMMA ServeTypes ==
  ASSUME TypeOK, ServerInv, ServerInv', NEW c \in Conns, Serve(c) PROVE TypeOK'
<1>1. \A d \in Conns : took'[d] \in Seq([note : Notes, event : Events])
  BY DEF ServerInv, TaskInv
<1>2. /\ UNCHANGED << listening, try, sent, open >>
      /\ pc' \in [Conns -> {"none", "line", "headers", "body", "handler", "handled",
                            "reply", "ended"}]
      /\ reply' \in [Conns -> Statuses \cup {None}]
  <2>1. ASSUME NEW where \in {"headers", "body", "handler", "handled", "ended"}, Go(c, where)
        PROVE  /\ pc' \in [Conns -> {"none", "line", "headers", "body", "handler",
                                     "handled", "reply", "ended"}]
               /\ reply' = reply
    BY <2>1 DEF Go, TypeOK
  <2>2. ASSUME NEW status \in Statuses, Respond(c, status)
        PROVE  /\ pc' \in [Conns -> {"none", "line", "headers", "body", "handler",
                                     "handled", "reply", "ended"}]
               /\ reply' \in [Conns -> Statuses \cup {None}]
    BY <2>2 DEF Respond, TypeOK
  <2>3. CASE ReadLine(c)
    BY <2>1, <2>2, <2>3 DEF ReadLine, wire, Statuses, TypeOK
  <2>4. CASE ReadHeader(c)
    BY <2>1, <2>2, <2>4 DEF ReadHeader, CheckLength, wire, Statuses, TypeOK
  <2>5. CASE ReadBody(c)
    BY <2>1, <2>2, <2>5 DEF ReadBody, wire, Statuses, TypeOK
  <2>6. CASE HandlerActs(c)
    BY <2>1, <2>6 DEF HandlerActs, wire, TypeOK
  <2>7. CASE HandlerReturns(c)
    BY <2>1, <2>2, <2>7 DEF HandlerReturns, wire, Statuses, TypeOK
  <2>8. CASE Reply(c)
    BY <2>1, <2>8 DEF Reply, wire, TypeOK
  <2>9. QED
    BY <2>3, <2>4, <2>5, <2>6, <2>7, <2>8 DEF Serve
<1>3. answer' \in [Conns -> Statuses \cup {None}]
  <2>1. answer' = answer \/ answer' = [answer EXCEPT ![c] = reply[c]]
    BY DEF Serve, ReadLine, ReadHeader, ReadBody, HandlerActs, HandlerReturns, Reply
  <2>2. QED
    BY <2>1 DEF TypeOK
<1>4. got' \in [Conns -> Nat] /\ \A d \in Conns : got'[d] <= sent'[d]
  <2>1. /\ got \in [Conns -> Nat] /\ sent \in [Conns -> Nat] /\ length[c] \in Nat
        /\ \A d \in Conns : got[d] <= sent[d]
    BY DEF TypeOK
  <2>2. \/ got' = got
        \/ got[c] < sent[c] /\ got' = [got EXCEPT ![c] = @ + 1]
        \/ sent[c] - got[c] >= length[c] /\ got' = [got EXCEPT ![c] = @ + length[c]]
        \/ got' = [got EXCEPT ![c] = sent[c]]
    BY DEF Serve, ReadLine, ReadHeader, ReadBody, HandlerActs, HandlerReturns, Reply,
           Arrived, read
  <2>3. QED
    BY <1>2, <2>1, <2>2
<1>5. length' \in [Conns -> Nat] /\ \A d \in Conns : signature'[d] \in Seq(Nat)
  <2>1. CASE UNCHANGED << length, signature >>
    BY <2>1 DEF TypeOK
  <2>2. CASE ReadHeader(c) /\ got[c] <= Len(try[c].headers)
    <3> DEFINE h == try[c].headers[got[c]]
    <3>1. TakeHeader(c, h)
      BY <2>2 DEF ReadHeader
    <3>2. /\ TaskInv(c) /\ pc[c] = "headers" /\ try[c] \in Tries
          /\ got[c] \in 1..(Len(try[c].headers) + 1)
      BY <2>2 DEF ReadHeader, ServerInv, TaskInv
    <3>3. got[c] \in DOMAIN try[c].headers
      BY <2>2, <3>2, TryFacts
    <3>4. IF h.name = "length" THEN h.value \in Nat ELSE h.value \in Seq(Nat)
      BY <3>2, <3>3, WebhookAssumption
    <3> HIDE DEF h
    <3>5. length' \in [Conns -> Nat]
      BY <3>1, <3>4 DEF TakeHeader, TypeOK
    <3>6. ASSUME NEW d \in Conns PROVE signature'[d] \in Seq(Nat)
      <4>1. \/ signature'[d] = signature[d]
            \/ signature'[d] = h.value /\ h.name = "X-Signature-256"
        BY <3>1 DEF TakeHeader, ServerInv, Domains
      <4>2. QED
        BY <3>4, <4>1 DEF TypeOK
    <3>7. QED
      BY <3>5, <3>6
  <2>3. QED
    BY <2>1, <2>2 DEF Serve, ReadLine, ReadHeader, ReadBody, HandlerActs, HandlerReturns,
                      Reply, read
<1>6. QED
  BY <1>1, <1>2, <1>3, <1>4, <1>5 DEF TypeOK

(* So does a step of a client, of run and of the machine. *)
LEMMA TypeStep == TypeOK /\ ServerInv /\ ServerInv' /\ [Next]_vars => TypeOK'
<1> SUFFICES ASSUME TypeOK, ServerInv, ServerInv', [Next]_vars PROVE TypeOK'
  OBVIOUS
<1>1. ASSUME NEW c \in Conns, NEW t \in Tries, Connect(c, t) PROVE TypeOK'
  BY <1>1 DEF Connect, TypeOK, read
<1>2. ASSUME NEW c \in Conns, Send(c) PROVE TypeOK'
  <2>1. sent' \in [Conns -> Nat] /\ \A d \in Conns : got[d] <= sent'[d]
    BY <1>2 DEF Send, TypeOK
  <2>2. QED
    BY <1>2, <2>1 DEF Send, TypeOK, read
<1>3. ASSUME NEW c \in Conns, Close(c) PROVE TypeOK'
  BY <1>3 DEF Close, TypeOK, read
<1>4. ASSUME NEW c \in Conns, Accept(c) PROVE TypeOK'
  BY <1>4 DEF Accept, TypeOK, wire, read
<1>5. ASSUME NEW c \in Conns, Serve(c) PROVE TypeOK'
  BY <1>5, ServeTypes
<1>6. CASE Run
  BY <1>6 DEF Run, TypeOK, wire, read
<1>7. CASE Crash
  <2>1. pc' \in [Conns -> {"none", "line", "headers", "body", "handler", "handled",
                           "reply", "ended"}]
    BY <1>7 DEF Crash
  <2>2. QED
    BY <1>7, <2>1 DEF Crash, TypeOK, wire, read
<1>8. CASE UNCHANGED vars
  BY <1>8 DEF TypeOK, vars, wire, read
<1>9. QED
  BY <1>1, <1>2, <1>3, <1>4, <1>5, <1>6, <1>7, <1>8 DEF Next

(* Everything keeps its type; above all, no task reads past what its       *)
(* client has sent (webhook.rs:174-240).                                   *)
THEOREM TypeCorrect == Spec => []TypeOK
<1>1. Init => TypeOK /\ ServerInv
  BY TypeInit, ServerInvInit
<1>2. TypeOK /\ ServerInv /\ [Next]_vars => TypeOK' /\ ServerInv'
  BY TypeStep, ServerInvStep
<1>3. QED
  BY <1>1, <1>2, PTL DEF Spec
-----------------------------------------------------------------------------
(* What the handler of a connection has done, by where the task is: it     *)
(* acts once, and before it a 200 is neither on its way nor received.      *)
Handled(c) ==
  /\ took[c] = << >> \/ Len(took[c]) = 1
  /\ pc[c] \in {"none", "line", "headers", "body", "handler"} => took[c] = << >>
  /\ pc[c] = "handled" => Len(took[c]) = 1
  /\ pc[c] = "reply" /\ reply[c] = "200" => Len(took[c]) = 1
  /\ answer[c] = "200" => Len(took[c]) = 1 /\ pc[c] = "ended"
  /\ try[c] = Unused => ~open[c] /\ pc[c] = "none"

(* A connection its sender waits for, or has read a 200 on. *)
Settles(c) == answer[c] = "200" \/ (open[c] /\ pc[c] # "ended")

(* A sender waits for one connection at a time, and for none after a 200.  *)
OneAtATime ==
  \A c, d \in Conns : c # d /\ try[c].note = try[d].note => ~(Settles(c) /\ Settles(d))

HandledInv == (\A c \in Conns : Handled(c)) /\ OneAtATime

(* Initially nothing is handled, and no sender waits. *)
LEMMA HandledInit == Init => HandledInv
<1> SUFFICES ASSUME Init PROVE HandledInv
  OBVIOUS
<1>1. ASSUME NEW c \in Conns PROVE Handled(c) /\ ~Settles(c)
  BY DEF Init, Handled, Settles, None
<1>2. QED
  BY <1>1 DEF HandledInv, OneAtATime

(* A step that neither connects nor takes a sender's mind off a connection *)
(* it does not touch keeps the senders to one connection at a time.        *)
LEMMA StillOne ==
  ASSUME OneAtATime, \A c \in Conns : try'[c] = try[c] /\ (Settles(c)' => Settles(c))
  PROVE  OneAtATime'
BY DEF OneAtATime

(* What a connection's task has done stays so when it is not touched. *)
LEMMA UntouchedHandled ==
  ASSUME NEW c \in Conns, Handled(c), try'[c] = try[c], took'[c] = took[c], pc'[c] = pc[c],
         reply'[c] = reply[c], answer'[c] = answer[c], open'[c] => open[c]
  PROVE  Handled(c)'
BY DEF Handled

(* A sender connects when none of its connections settles its note. *)
LEMMA ConnectHandled ==
  ASSUME TypeOK, HandledInv, NEW c \in Conns, NEW t \in Tries, Connect(c, t)
  PROVE  HandledInv'
<1>1. /\ try[c] = Unused /\ try'[c] = t /\ t # Unused
      /\ \A d \in Conns \ {c} : try'[d] = try[d] /\ open'[d] = open[d]
      /\ UNCHANGED << took, pc, reply, answer >>
  BY TryFacts DEF Connect, TypeOK
<1>2. \A d \in Conns : try[d].note = t.note => ~Settles(d)
  BY DEF Connect, MayTry, Settles, TypeOK
<1>3. ASSUME NEW d \in Conns PROVE Handled(d)'
  BY <1>1 DEF Handled, HandledInv
<1>4. ASSUME NEW d \in Conns \ {c} PROVE Settles(d)' <=> Settles(d)
  BY <1>1 DEF Settles
<1>5. ASSUME NEW d \in Conns, NEW e \in Conns, d # e, try'[d].note = try'[e].note
      PROVE  ~(Settles(d)' /\ Settles(e)')
  <2>1. CASE d = c
    BY <1>1, <1>2, <1>4, <1>5, <2>1
  <2>2. CASE e = c
    BY <1>1, <1>2, <1>4, <1>5, <2>2
  <2>3. CASE d # c /\ e # c
    BY <1>1, <1>4, <1>5, <2>3 DEF HandledInv, OneAtATime
  <2>4. QED
    BY <2>1, <2>2, <2>3
<1>6. QED
  BY <1>3, <1>5 DEF HandledInv, OneAtATime

(* A step of a task acts at most once, and answers 200 only after it. *)
LEMMA ServeHandled ==
  ASSUME TypeOK, ServerInv, HandledInv, NEW c \in Conns, Serve(c) PROVE HandledInv'
<1>1. /\ UNCHANGED << try, open >>
      /\ \A d \in Conns \ {c} : /\ took'[d] = took[d] /\ pc'[d] = pc[d]
                                /\ reply'[d] = reply[d] /\ answer'[d] = answer[d]
  <2>1. UNCHANGED << try, open >>
    BY DEF Serve, ReadLine, ReadHeader, ReadBody, HandlerActs, HandlerReturns, Reply, wire
  <2>2. /\ took' = took \/ \E x : took' = [took EXCEPT ![c] = x]
        /\ pc' = pc \/ \E x : pc' = [pc EXCEPT ![c] = x]
        /\ reply' = reply \/ \E x : reply' = [reply EXCEPT ![c] = x]
        /\ answer' = answer \/ \E x : answer' = [answer EXCEPT ![c] = x]
    BY DEF Serve, ReadLine, ReadHeader, ReadBody, HandlerActs, HandlerReturns, Reply,
           CheckLength, Respond, Go
  <2>3. \A d \in Conns \ {c} : took'[d] = took[d]
    <3>1. DOMAIN took = Conns
      BY DEF ServerInv, Domains
    <3>2. QED
      BY <2>2, <3>1
  <2>4. \A d \in Conns \ {c} : pc'[d] = pc[d]
    BY <2>2 DEF TypeOK
  <2>5. \A d \in Conns \ {c} : reply'[d] = reply[d]
    BY <2>2 DEF TypeOK
  <2>6. \A d \in Conns \ {c} : answer'[d] = answer[d]
    BY <2>2 DEF TypeOK
  <2>7. QED
    BY <2>1, <2>3, <2>4, <2>5, <2>6
<1>2. /\ pc[c] \notin {"none", "ended"} /\ took[c] \in Seq([note : Notes, event : Events])
      /\ Handled(c)
  BY DEF Serve, ReadLine, ReadHeader, ReadBody, HandlerActs, HandlerReturns, Reply, TypeOK,
         HandledInv
<1>3. \/ /\ pc[c] \in {"line", "headers", "body"} /\ took'[c] = took[c] /\ answer'[c] = answer[c]
         /\ \/ pc'[c] \in {"headers", "body", "handler", "ended"}
            \/ pc'[c] = "reply" /\ reply'[c] # "200"
      \/ /\ pc[c] = "handler" /\ pc'[c] = "handled" /\ answer'[c] = answer[c]
         /\ \E x : took'[c] = Append(took[c], x)
      \/ /\ pc[c] \in {"handler", "handled"} /\ took'[c] = took[c] /\ answer'[c] = answer[c]
         /\ \/ pc'[c] = "reply" /\ pc[c] = "handled"
            \/ pc'[c] = "ended"
      \/ /\ pc[c] = "reply" /\ pc'[c] = "ended" /\ took'[c] = took[c]
         /\ \/ open[c] /\ answer'[c] = reply[c]
            \/ answer'[c] = answer[c]
  <2>1. CASE ReadLine(c)
    BY <2>1 DEF ReadLine, Respond, Go, TypeOK
  <2>2. CASE ReadHeader(c)
    BY <2>2 DEF ReadHeader, CheckLength, Respond, Go, TypeOK
  <2>3. CASE ReadBody(c)
    BY <2>3 DEF ReadBody, Respond, Go, TypeOK
  <2>4. CASE HandlerActs(c)
    <3>1. \E x : took' = [took EXCEPT ![c] = Append(@, x)]
      BY <2>4 DEF HandlerActs
    <3>2. \E x : took'[c] = Append(took[c], x)
      BY <3>1 DEF ServerInv, Domains
    <3>3. pc[c] = "handler" /\ pc'[c] = "handled" /\ answer' = answer
      BY <2>4 DEF HandlerActs, Go, TypeOK
    <3>4. QED
      BY <3>2, <3>3
  <2>5. CASE HandlerReturns(c)
    BY <2>5 DEF HandlerReturns, Respond, Go, TypeOK
  <2>6. CASE Reply(c)
    BY <2>6 DEF Reply, Go, TypeOK
  <2>7. QED
    BY <2>1, <2>2, <2>3, <2>4, <2>5, <2>6 DEF Serve
<1>4. Handled(c)'
  <2>1. CASE pc[c] = "handler" /\ pc'[c] = "handled"
    <3>1. PICK x : took'[c] = Append(took[c], x)
      BY <1>3, <2>1
    <3>2. took[c] = << >> /\ answer'[c] = answer[c] /\ answer[c] # "200"
      BY <1>2, <1>3, <2>1 DEF Handled
    <3>3. Len(took'[c]) = 1
      BY <3>1, <3>2
    <3>4. QED
      BY <1>1, <1>2, <2>1, <3>2, <3>3 DEF Handled
  <2>2. CASE ~(pc[c] = "handler" /\ pc'[c] = "handled")
    BY <1>1, <1>2, <1>3, <2>2 DEF Handled
  <2>3. QED
    BY <2>1, <2>2
<1>5. Settles(c)' => Settles(c)
  BY <1>1, <1>2, <1>3 DEF Settles
<1>6. \A d \in Conns : try'[d] = try[d] /\ (Settles(d)' => Settles(d))
  BY <1>1, <1>5 DEF Settles
<1>7. ASSUME NEW d \in Conns \ {c} PROVE Handled(d)'
  BY <1>1, <1>7, UntouchedHandled DEF HandledInv
<1>8. QED
  BY <1>4, <1>6, <1>7, StillOne DEF HandledInv

(* Every step keeps it. *)
LEMMA HandledStep == TypeOK /\ ServerInv /\ HandledInv /\ [Next]_vars => HandledInv'
<1> SUFFICES ASSUME TypeOK, ServerInv, HandledInv, [Next]_vars PROVE HandledInv'
  OBVIOUS
<1>1. ASSUME UNCHANGED << try, took, pc, reply, answer >>,
             \A c \in Conns : open'[c] => open[c]
      PROVE  HandledInv'
  <2>1. ASSUME NEW c \in Conns PROVE Handled(c)' /\ (Settles(c)' => Settles(c))
    BY <1>1, UntouchedHandled DEF HandledInv, Settles
  <2>2. QED
    BY <1>1, <2>1, StillOne DEF HandledInv
<1>2. ASSUME NEW c \in Conns, NEW t \in Tries, Connect(c, t) PROVE HandledInv'
  BY <1>2, ConnectHandled
<1>3. ASSUME NEW c \in Conns, Send(c) \/ Close(c) PROVE HandledInv'
  BY <1>1, <1>3 DEF Send, Close, TypeOK
<1>4. ASSUME NEW c \in Conns, Accept(c) PROVE HandledInv'
  <2>1. /\ UNCHANGED << try, open, took, reply, answer >>
        /\ \A d \in Conns : \/ pc'[d] = pc[d]
                            \/ try[d] # Unused /\ pc[d] = "none" /\ pc'[d] = "line"
    BY <1>4 DEF Accept, TypeOK, wire
  <2>2. ASSUME NEW d \in Conns PROVE Handled(d)' /\ (Settles(d)' => Settles(d))
    BY <2>1 DEF HandledInv, Handled, Settles
  <2>3. QED
    BY <2>1, <2>2, StillOne DEF HandledInv
<1>5. ASSUME NEW c \in Conns, Serve(c) PROVE HandledInv'
  BY <1>5, ServeHandled
<1>6. CASE Run \/ UNCHANGED vars
  BY <1>1, <1>6 DEF Run, vars, wire
<1>7. CASE Crash
  <2>1. /\ UNCHANGED << try, open, took, reply, answer >>
        /\ \A d \in Conns : pc'[d] = IF try[d] = Unused THEN "none" ELSE "ended"
    BY <1>7 DEF Crash, wire
  <2>2. ASSUME NEW d \in Conns PROVE Handled(d)' /\ (Settles(d)' => Settles(d))
    <3>1. CASE try[d] = Unused
      BY <2>1, <3>1 DEF HandledInv, Handled, Settles
    <3>2. CASE try[d] # Unused
      BY <2>1, <3>2 DEF HandledInv, Handled, Settles
    <3>3. QED
      BY <3>1, <3>2
  <2>3. QED
    BY <2>1, <2>2, StillOne DEF HandledInv
<1>8. QED
  BY <1>2, <1>3, <1>4, <1>5, <1>6, <1>7 DEF Next

(* What the numbers of connections follow from: each handled its note at   *)
(* most once, and at most one of a note's was answered with a 200.         *)
LEMMA HandlingsBounded ==
  ASSUME TypeOK, HandledInv, NEW n \in Notes
  PROVE  Cardinality(Handlings(n)) <= 1 + Cardinality({c \in Tried(n) : answer[c] # "200"})
<1> DEFINE rest == {c \in Tried(n) : answer[c] # "200"}
           which == [h \in Handlings(n) |-> h[1]]
<1>1. IsFiniteSet(Tried(n)) /\ IsFiniteSet(rest)
  <2>1. IsFiniteSet(Conns)
    BY FS_Interval, WebhookAssumption DEF Conns
  <2>2. Tried(n) \in SUBSET Conns /\ rest \in SUBSET Conns
    BY DEF Tried
  <2>3. QED
    BY <2>1, <2>2, FS_Subset
<1>2. which \in Injection(Handlings(n), Tried(n))
  <2>1. ASSUME NEW h \in Handlings(n) PROVE h[1] \in Tried(n) /\ h = << h[1], 1 >>
    <3>1. PICK c \in Tried(n) : h \in {c} \X DOMAIN took[c]
      BY DEF Handlings
    <3>2. c \in Conns
      BY DEF Tried
    <3>3. took[c] \in Seq([note : Notes, event : Events])
      BY <3>2 DEF TypeOK
    <3>4. took[c] = << >> \/ Len(took[c]) = 1
      BY <3>2 DEF HandledInv, Handled
    <3>5. DOMAIN took[c] = {} \/ DOMAIN took[c] = {1}
      BY <3>3, <3>4
    <3>6. QED
      BY <3>1, <3>5
  <2>2. which \in [Handlings(n) -> Tried(n)]
    BY <2>1
  <2>3. ASSUME NEW g \in Handlings(n), NEW h \in Handlings(n), which[g] = which[h]
        PROVE  g = h
    <3>1. g[1] = h[1]
      BY <2>3
    <3>2. g = << g[1], 1 >> /\ h = << h[1], 1 >>
      BY <2>1
    <3>3. QED
      BY <3>1, <3>2
  <2> HIDE DEF which
  <2>4. QED
    BY <2>2, <2>3 DEF Injection, IsInjective
<1> HIDE DEF which
<1>3. IsFiniteSet(Handlings(n)) /\ Cardinality(Handlings(n)) <= Cardinality(Tried(n))
  BY <1>1, <1>2, FS_Injection
<1>4. Cardinality(Tried(n)) <= 1 + Cardinality(rest)
  <2>1. \/ Tried(n) = rest
        \/ \E d \in Tried(n) : Tried(n) = rest \cup {d}
    <3>1. ASSUME NEW c \in Tried(n), NEW d \in Tried(n), answer[c] = "200", answer[d] = "200"
          PROVE  c = d
      <4>1. c \in Conns /\ d \in Conns /\ try[c].note = try[d].note
        BY DEF Tried
      <4>2. QED
        BY <3>1, <4>1 DEF HandledInv, OneAtATime, Settles
    <3>2. QED
      BY <3>1
  <2>2. Cardinality(rest) \in Nat
    BY <1>1, FS_CardinalityType
  <2> HIDE DEF rest
  <2>3. ASSUME NEW d PROVE Cardinality(rest \cup {d}) <= 1 + Cardinality(rest)
    <3>1. Cardinality(rest \cup {d}) =
            IF d \in rest THEN Cardinality(rest) ELSE Cardinality(rest) + 1
      BY <1>1, FS_AddElement, Zenon
    <3>2. QED
      BY <2>2, <3>1
  <2>4. CASE Tried(n) = rest
    <3>1. Cardinality(Tried(n)) = Cardinality(rest)
      BY <2>4
    <3>2. QED
      BY <2>2, <3>1
  <2>5. CASE \E d \in Tried(n) : Tried(n) = rest \cup {d}
    <3>1. PICK d : Tried(n) = rest \cup {d}
      BY <2>5
    <3>2. Cardinality(Tried(n)) = Cardinality(rest \cup {d})
      BY <3>1
    <3>3. QED
      BY <2>3, <3>2
  <2>6. QED
    BY <2>1, <2>4, <2>5
<1>5. /\ Cardinality(Handlings(n)) \in Nat /\ Cardinality(Tried(n)) \in Nat
      /\ Cardinality(rest) \in Nat
  BY <1>1, <1>3, FS_CardinalityType
<1>6. QED
  BY <1>3, <1>4, <1>5

(* However often connections are lost, handlers fail and the process dies, *)
(* a sender's note is handled once, and once more for each connection that *)
(* did not tell its sender so (webhook.rs:249-277).                        *)
THEOREM HandledOnceMore == Spec => []HandledAgainOnlyUnanswered
<1>1. Init => TypeOK /\ ServerInv /\ HandledInv
  BY TypeInit, ServerInvInit, HandledInit
<1>2. TypeOK /\ ServerInv /\ HandledInv /\ [Next]_vars => TypeOK' /\ ServerInv' /\ HandledInv'
  BY TypeStep, ServerInvStep, HandledStep
<1>3. TypeOK /\ HandledInv => HandledAgainOnlyUnanswered
  BY HandlingsBounded DEF HandledAgainOnlyUnanswered, HandledInv, Handled, Tried
<1>4. QED
  BY <1>1, <1>2, <1>3, PTL DEF Spec
=============================================================================
