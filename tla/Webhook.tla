------------------------------ MODULE Webhook ------------------------------
(***************************************************************************)
(* WebhookServer (src/src/webhook.rs): run accepts connections and spawns  *)
(* a task for each; handle_request reads one request piece by piece,       *)
(* verifies and parses it, awaits the application's handler and answers.   *)
(* The senders are the environment: they send the pieces of a request at   *)
(* any pace, may close early, and try a notification again on a new        *)
(* connection as long as none of its connections was answered with 200.    *)
(***************************************************************************)
EXTENDS Signature, FiniteSetsExt

CONSTANTS
  ConnCount,  \* how many connections there are
  Notes,      \* what the senders want to tell
  Blocks,     \* note -> length of its body
  Parsable,   \* the notes whose body is JSON
  Type,       \* such a note -> its "type" text, else its "event" text, or "absent"
  Fits,       \* such a note -> the event structures its JSON has the fields of
  Digest,     \* body -> its HMAC under the server's secret
  Secret,     \* WebhookConfig.secret is set
  MaxBody,    \* WebhookConfig.max_body_size
  Tries,      \* [note, method, path, headers, body]: requests that may come
  Faults      \* which of "close", "handler", "write", "accept", "crash" may happen

(* The body of a note, whole, as its sender wrote and signed it. *)
Whole(n) == [i \in 1..Blocks[n] |-> << n, i >>]

Conns == 1..ConnCount   \* in the order in which they are made

ASSUME WebhookAssumption ==
  /\ ConnCount \in Nat
  /\ \A n \in Notes : Blocks[n] \in Nat \ {0} /\ Whole(n) \in DOMAIN Digest
  /\ \A body \in DOMAIN Digest : Digest[body] \in Seq(Byte) /\ Digest[body] # << >>
  /\ Parsable \subseteq Notes
  /\ \A n \in Parsable : Fits[n] \subseteq {"NewOrder", "NewMessage"}
  /\ MaxBody \in Nat /\ Secret \in BOOLEAN
  /\ \A t \in Tries :
       /\ DOMAIN t = {"note", "method", "path", "headers", "body"}
       /\ t.note \in Notes /\ t.body \in {<< >>, Whole(t.note)}
       /\ t.headers \in Seq({t.headers[i] : i \in DOMAIN t.headers})
       /\ \A i \in DOMAIN t.headers :
            IF t.headers[i].name = "length" THEN t.headers[i].value \in Nat
            ELSE t.headers[i].value \in Seq(Nat)
  /\ Faults \subseteq {"close", "handler", "write", "accept", "crash"}

VARIABLES
  listening,  \* run is in its accept loop
  try,        \* connection -> the request it carries, or Unused
  sent,       \* connection -> pieces of it that have arrived
  open,       \* connection -> the client has not closed it
  pc,         \* connection -> where its task is
  got,        \* connection -> pieces handle_request has read
  length,     \* connection -> content_length
  signature,  \* connection -> headers.get("X-Signature-256"), or ""
  reply,      \* connection -> the status about to be written
  answer,     \* connection -> the status the client got
  took        \* connection -> the events its handler has acted on (history)

wire == << try, sent, open >>
read == << got, length, signature >>
vars == << listening, wire, pc, read, reply, answer, took >>

Statuses == {"200", "400", "401", "404", "405"}
Events   == {"NewOrder", "NewMessage", "RawEvent"}
None == "none"
Unused == [note |-> None]

TypeOK ==
  /\ listening \in BOOLEAN
  /\ try \in [Conns -> Tries \cup {Unused}]
  /\ sent \in [Conns -> Nat]
  /\ open \in [Conns -> BOOLEAN]
  /\ pc \in [Conns -> {"none", "line", "headers", "body", "handler", "handled",
                       "reply", "ended"}]
  /\ got \in [Conns -> Nat] /\ \A c \in Conns : got[c] <= sent[c]
  /\ length \in [Conns -> Nat]
  /\ \A c \in Conns : signature[c] \in Seq(Nat)
  /\ reply \in [Conns -> Statuses \cup {None}]
  /\ answer \in [Conns -> Statuses \cup {None}]
  /\ \A c \in Conns : took[c] \in Seq([note : Notes, event : Events])

Init ==
  /\ listening = TRUE
  /\ try = [c \in Conns |-> Unused]
  /\ sent = [c \in Conns |-> 0] /\ open = [c \in Conns |-> FALSE]
  /\ pc = [c \in Conns |-> "none"]
  /\ got = [c \in Conns |-> 0] /\ length = [c \in Conns |-> 0]
  /\ signature = [c \in Conns |-> << >>]
  /\ reply = [c \in Conns |-> None] /\ answer = [c \in Conns |-> None]
  /\ took = [c \in Conns |-> << >>]
-----------------------------------------------------------------------------
(* The senders.  The pieces of a request are its request line, its header  *)
(* lines, the empty line and the blocks of its body.                       *)
BodyStart(t) == Len(t.headers) + 2
Pieces(t)    == BodyStart(t) + Len(t.body)

(* A sender is done with a note once it has read a 200 for it, and tries   *)
(* one connection at a time.                                               *)
MayTry(n) == \A c \in Conns : try[c].note = n =>
               answer[c] # "200" /\ (pc[c] = "ended" \/ ~open[c])

Connect(c, t) ==
  /\ try[c] = Unused /\ \A d \in 1..(c - 1) : try[d] # Unused
  /\ MayTry(t.note)
  /\ try' = [try EXCEPT ![c] = t]
  /\ open' = [open EXCEPT ![c] = TRUE]
  /\ UNCHANGED << listening, sent, pc, read, reply, answer, took >>

(* What arrives before the task reads waits for it, and what arrives once  *)
(* it reads no more is never looked at.                                    *)
Send(c) ==
  /\ open[c] /\ pc[c] \in {"line", "headers", "body"}
  /\ sent[c] < Pieces(try[c])
  /\ sent' = [sent EXCEPT ![c] = @ + 1]
  /\ UNCHANGED << listening, try, open, pc, read, reply, answer, took >>

Close(c) ==
  /\ "close" \in Faults /\ open[c] /\ pc[c] # "ended"
  /\ open' = [open EXCEPT ![c] = FALSE]
  /\ UNCHANGED << listening, try, sent, pc, read, reply, answer, took >>
-----------------------------------------------------------------------------
(* run: a detached task per connection.  An error of accept ends run, not  *)
(* the tasks; the program may call run again.                              *)
Accept(c) ==
  /\ listening /\ try[c] # Unused /\ pc[c] = "none"
  /\ \/ pc' = [pc EXCEPT ![c] = "line"] /\ UNCHANGED listening
     \/ "accept" \in Faults /\ listening' = FALSE /\ UNCHANGED pc
  /\ UNCHANGED << wire, read, reply, answer, took >>

Run ==
  /\ ~listening
  /\ listening' = TRUE
  /\ UNCHANGED << wire, pc, read, reply, answer, took >>

(* The process dies, and every connection with it. *)
Crash ==
  /\ "crash" \in Faults /\ listening
  /\ listening' = FALSE
  /\ pc' = [c \in Conns |-> IF try[c] = Unused THEN "none" ELSE "ended"]
  /\ UNCHANGED << wire, read, reply, answer, took >>
-----------------------------------------------------------------------------
(* handle_request. *)
Arrived(c) == got[c] < sent[c]
AtEnd(c)   == got[c] = sent[c] /\ ~open[c]

Go(c, where) == pc' = [pc EXCEPT ![c] = where] /\ UNCHANGED reply

Respond(c, status) == /\ reply' = [reply EXCEPT ![c] = status]
                      /\ pc' = [pc EXCEPT ![c] = "reply"]

(* The request line.  The end of the stream reads as an empty one. *)
ReadLine(c) ==
  /\ pc[c] = "line"
  /\ \/ /\ AtEnd(c)
        /\ Respond(c, "405")
        /\ UNCHANGED got
     \/ /\ Arrived(c)
        /\ got' = [got EXCEPT ![c] = @ + 1]
        /\ IF try[c].method # "POST" THEN Respond(c, "405")
           ELSE IF try[c].path # "endpoint" THEN Respond(c, "404")
           ELSE Go(c, "headers")
  /\ UNCHANGED << listening, wire, length, signature, answer, took >>

(* A header line.  The name of content-length is compared ignoring case    *)
(* and its value counts as 0 when it is no number; the map keeps the names *)
(* as they are spelled, and of several equal ones the last.                *)
TakeHeader(c, header) ==
  /\ length' = IF header.name = "length"
               THEN [length EXCEPT ![c] = header.value] ELSE length
  /\ signature' = IF header.name = "X-Signature-256"
                  THEN [signature EXCEPT ![c] = header.value] ELSE signature

(* The empty line ends the headers. *)
CheckLength(c) ==
  IF length[c] = 0 \/ length[c] > MaxBody THEN Respond(c, "400") ELSE Go(c, "body")

(* The loop only ends at the empty line: at the end of the stream          *)
(* read_line yields an empty string for ever and the task never gets on.   *)
ReadHeader(c) ==
  /\ pc[c] = "headers" /\ Arrived(c)
  /\ got' = [got EXCEPT ![c] = @ + 1]
  /\ IF got[c] <= Len(try[c].headers)
     THEN TakeHeader(c, try[c].headers[got[c]]) /\ UNCHANGED << pc, reply >>
     ELSE CheckLength(c) /\ UNCHANGED << length, signature >>
  /\ UNCHANGED << listening, wire, answer, took >>

Body(c) == SubSeq(try[c].body, 1, length[c])

(* Mutant: a missing signature is let through. *)
Verified_IfGiven(c) ==
  Secret => signature[c] = << >> \/ Accepts(Digest[Body(c)], signature[c])

Verified(c) == Secret => Accepts(Digest[Body(c)], signature[c])

(* A sequence of blocks is a JSON value only if it is all of one. *)
ParsesAs(c, n) == n \in Parsable /\ Body(c) = Whole(n)

(* Mutant: the task waits for a body the client will not send any more. *)
ReadBody_Waits(c) ==
  /\ pc[c] = "body" /\ sent[c] - got[c] >= length[c]
  /\ got' = [got EXCEPT ![c] = @ + length[c]]
  /\ IF ~Verified(c) THEN Respond(c, "401")
     ELSE IF \E n \in Notes : ParsesAs(c, n) THEN Go(c, "handler") ELSE Go(c, "ended")
  /\ UNCHANGED << listening, wire, length, signature, answer, took >>

(* Mutant: what has arrived is taken for the body. *)
ReadBody_Short(c) ==
  /\ pc[c] = "body"
  /\ got' = [got EXCEPT ![c] = @ + length[c]]
  /\ IF ~Verified(c) THEN Respond(c, "401")
     ELSE IF \E n \in Notes : ParsesAs(c, n) THEN Go(c, "handler") ELSE Go(c, "ended")
  /\ UNCHANGED << listening, wire, length, signature, answer, took >>

(* read_exact, the signature and the JSON, without an await in between.    *)
(* When the stream ends too early, or the body is not JSON, the error      *)
(* closes the connection without a response.                               *)
ReadBody(c) ==
  /\ pc[c] = "body"
  /\ \/ /\ sent[c] - got[c] >= length[c]
        /\ got' = [got EXCEPT ![c] = @ + length[c]]
        /\ IF ~Verified(c) THEN Respond(c, "401")
           ELSE IF \E n \in Notes : ParsesAs(c, n) THEN Go(c, "handler") ELSE Go(c, "ended")
     \/ /\ sent[c] - got[c] < length[c] /\ ~open[c]
        /\ got' = [got EXCEPT ![c] = sent[c]]
        /\ Go(c, "ended")
  /\ UNCHANGED << listening, wire, length, signature, answer, took >>

(* A typed event when the type says so and the JSON has its fields.        *)
EventOf(n) ==
  IF Type[n] \in {"new_order", "order"} /\ "NewOrder" \in Fits[n] THEN "NewOrder"
  ELSE IF Type[n] \in {"new_message", "message"} /\ "NewMessage" \in Fits[n] THEN "NewMessage"
  ELSE "RawEvent"

(* The application's handler acts on the event, and returns; it may fail   *)
(* before or after it has acted, and then there is no response.            *)
HandlerActs(c) ==
  /\ pc[c] = "handler"
  /\ LET n == CHOOSE n \in Notes : ParsesAs(c, n) IN
     took' = [took EXCEPT ![c] = Append(@, [note |-> n, event |-> EventOf(n)])]
  /\ Go(c, "handled")
  /\ UNCHANGED << listening, wire, read, answer >>

(* Mutant: the response is on its way before the handler has acted. *)
HandlerReturns_Early(c) ==
  /\ \/ pc[c] \in {"handler", "handled"} /\ Respond(c, "200")
     \/ /\ "handler" \in Faults /\ pc[c] \in {"handler", "handled"}
        /\ Go(c, "ended")
  /\ UNCHANGED << listening, wire, read, answer, took >>

HandlerReturns(c) ==
  /\ \/ pc[c] = "handled" /\ Respond(c, "200")
     \/ /\ "handler" \in Faults /\ pc[c] \in {"handler", "handled"}
        /\ Go(c, "ended")
  /\ UNCHANGED << listening, wire, read, answer, took >>

(* send_response; the client may be gone, or never get it. *)
Reply(c) ==
  /\ pc[c] = "reply"
  /\ Go(c, "ended")
  /\ \/ open[c] /\ answer' = [answer EXCEPT ![c] = reply[c]]
     \/ /\ ~open[c] \/ "write" \in Faults
        /\ UNCHANGED answer
  /\ UNCHANGED << listening, wire, read, took >>

Serve(c) == \/ ReadLine(c) \/ ReadHeader(c) \/ ReadBody(c)
            \/ HandlerActs(c) \/ HandlerReturns(c) \/ Reply(c)

Next ==
  \/ \E c \in Conns, t \in Tries : Connect(c, t)
  \/ \E c \in Conns : Send(c) \/ Close(c) \/ Accept(c) \/ Serve(c)
  \/ Run
  \/ Crash

Spec == Init /\ [][Next]_vars /\ \A c \in Conns : WF_vars(Serve(c))
-----------------------------------------------------------------------------
Tried(n) == {c \in Conns : try[c].note = n}

Signed(t) ==
  \E i \in DOMAIN t.headers :
    /\ t.headers[i].name = "X-Signature-256"
    /\ Accepts(Digest[Whole(t.note)], t.headers[i].value)

(* The handler only ever gets a note that its sender has sent whole, to    *)
(* the endpoint, within the size limit and, when a secret is set, signed:  *)
(* not one cut off by a wrong length or an early end.  It gets it as an    *)
(* order or a message only with the fields of one.                         *)
OnlyGenuineHandled ==
  \A c \in Conns : \A i \in DOMAIN took[c] :
    LET t == try[c] IN
    /\ took[c][i].note = t.note
    /\ took[c][i].event \in Fits[t.note] \cup {"RawEvent"}
    /\ t.method = "POST" /\ t.path = "endpoint"
    /\ Blocks[t.note] <= MaxBody
    /\ SubSeq(t.body, 1, Blocks[t.note]) = Whole(t.note)
    /\ sent[c] >= BodyStart(t) + Blocks[t.note]
    /\ Secret => Signed(t)

(* How often a note was handled: once for each event of each connection.  *)
Handlings(n) == UNION {{c} \X DOMAIN took[c] : c \in Tried(n)}

(* A sender that tries until it gets a 200 has its note handled as often   *)
(* as it must expect: once, and once more for each connection whose answer *)
(* was lost, whose handler failed or that died with the process.           *)
HandledAgainOnlyUnanswered ==
  \A n \in Notes :
    /\ Cardinality(Handlings(n)) <= 1 + Cardinality({c \in Tried(n) : answer[c] # "200"})
    /\ \A c \in Tried(n) : answer[c] = "200" => Len(took[c]) = 1

(* The client has sent its request, and a body as long as announced. *)
SentAll(c) ==
  /\ sent[c] = Pieces(try[c])
  /\ \A i \in DOMAIN try[c].headers :
       try[c].headers[i].name = "length" => try[c].headers[i].value <= Len(try[c].body)

(* Every connection's task ends once its client has sent what it announced *)
(* or has closed, except when it closes within the headers: there the loop *)
(* of webhook.rs:199 does not notice the end of the stream.                *)
TasksEnd ==
  \A c \in Conns :
    pc[c] # "none" /\ (~open[c] \/ SentAll(c))
      ~> pc[c] = "ended" \/ (pc[c] = "headers" /\ AtEnd(c))
=============================================================================
