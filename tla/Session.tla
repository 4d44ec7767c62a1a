------------------------------ MODULE Session ------------------------------
(***************************************************************************)
(* SessionManager (src/src/session.rs) on a GoldenPaySession               *)
(* (src/src/client.rs): requests with retries under the session's limiter, *)
(* batches of concurrent requests, reconnection on an authorisation error, *)
(* and key rotation.  The requests are the ones that change something on   *)
(* the site: messages, refunds, reviews, withdrawals.  A manager runs one  *)
(* call at a time (&mut self).  The site may end the session, lose answers *)
(* and fail at any time.                                                   *)
(***************************************************************************)
EXTENDS Integers, SequencesExt, FiniteSets

CONSTANTS
  Posts,        \* what the program may ask the site to do, each once: finitely much
  Keys,         \* golden keys; the first session has FirstKey
  FirstKey,
  GoodKeys,     \* the keys the site accepts
  Connect,      \* the request of GoldenPay::connect
  Limit,        \* config.max_concurrent_requests
  MaxAttempts,  \* config.retry.max_attempts
  Statuses,     \* how the site may refuse an ended session: of 401, 403
  MaxSessions,  \* bound: sessions, one after the other
  MaxFaults     \* bound: failed or lost answers

ASSUME SessionAssumption ==
  /\ FirstKey \in GoodKeys /\ GoodKeys \subseteq Keys
  /\ Connect \notin Posts /\ IsFiniteSet(Posts)
  /\ Limit \in Nat \ {0} /\ MaxAttempts \in Nat \ {0}
  /\ Statuses \subseteq {401, 403} /\ Statuses # {}
  /\ MaxSessions \in Nat /\ MaxFaults \in Nat

Requests == Posts \cup {Connect}

VARIABLES
  accepted,   \* the site still accepts the session
  applied,    \* post -> how often the site has done it
  clientKey,  \* the key of the manager's client
  session,    \* the manager's session: number, key and free permits
  op,         \* the call of the manager, or the last one
  input,      \* its arguments
  phase,      \* how far it is
  pc,         \* request -> where its request_with_retry is
  attempt,    \* request -> number of its current attempt
  outcome,    \* request -> its result, once done
  results,    \* of a batch: << post, outcome >> in the order joined
  answer,     \* what the last call returned
  todo,       \* posts no call has been given
  faults,     \* faults that may still happen
  lost,       \* post -> times it was done but its answer lost (history)
  refused     \* sessions, asked for or in use, that this call was refused (history)

site     == << accepted, applied, lost, refused, faults >>
requests == << pc, attempt, outcome >>
call     == << op, input, phase, results, answer, todo >>
vars     == << site, clientKey, session, call, requests >>

Ops == {"single", "session_batch", "batch", "rotate"}
Outcomes == {"none", "Ok", "Unauthorized", "Status401", "Failed"}

Init ==
  /\ accepted = TRUE
  /\ applied = [p \in Posts |-> 0] /\ lost = [p \in Posts |-> 0]
  /\ clientKey = FirstKey
  /\ session = [number |-> 1, key |-> FirstKey, permits |-> Limit]
  /\ op = "single" /\ input = << >> /\ phase = "idle"
  /\ pc = [r \in Requests |-> "none"]
  /\ attempt = [r \in Requests |-> 1]
  /\ outcome = [r \in Requests |-> "none"]
  /\ results = << >> /\ answer = "none"
  /\ todo = Posts /\ faults = MaxFaults /\ refused = {}
-----------------------------------------------------------------------------
(* The site ends the session: a timeout, another login. *)
Expire == /\ accepted /\ session.number < MaxSessions
          /\ accepted' = FALSE
          /\ UNCHANGED << applied, lost, refused, faults, clientKey, session, call, requests >>
-----------------------------------------------------------------------------
(* request_with_retry: a post takes a permit of its session's limiter for  *)
(* all its attempts; the request of connect takes none.                    *)
Acquire(p) ==
  /\ pc[p] = "permit" /\ session.permits > 0
  /\ session' = [session EXCEPT !.permits = @ - 1]
  /\ pc' = [pc EXCEPT ![p] = "send"]
  /\ UNCHANGED << site, clientKey, call, attempt, outcome >>

(* Mutant: a failed request keeps its permit. *)
End_KeepsPermit(r, out) ==
  /\ pc' = [pc EXCEPT ![r] = "done"]
  /\ attempt' = [attempt EXCEPT ![r] = 1]
  /\ outcome' = [outcome EXCEPT ![r] = out]
  /\ session' = IF r # Connect /\ out = "Ok"
                THEN [session EXCEPT !.permits = @ + 1] ELSE session

End(r, out) ==
  /\ pc' = [pc EXCEPT ![r] = "done"]
  /\ attempt' = [attempt EXCEPT ![r] = 1]
  /\ outcome' = [outcome EXCEPT ![r] = out]
  /\ session' = IF r = Connect THEN session
                ELSE [session EXCEPT !.permits = @ + 1]

Welcome(r) == IF r = Connect THEN clientKey \in GoodKeys ELSE accepted

(* The site does what a post asks for; connect changes nothing there. *)
Apply(r) == applied' = IF r = Connect THEN applied ELSE [applied EXCEPT ![r] = @ + 1]

Succeeds(r) ==
  /\ Welcome(r)
  /\ Apply(r)
  /\ End(r, "Ok")
  /\ UNCHANGED << refused, faults, lost >>

(* ensure_success: of the two statuses only 403 is an authorisation error. *)
(* parse_user makes one of a home page that shows no user.                 *)
Refusal(r) ==
  {IF status = 403 THEN "Unauthorized" ELSE "Status401" : status \in Statuses}
    \cup (IF r = Connect THEN {"Unauthorized"} ELSE {})

IsRefused(r) ==
  /\ ~Welcome(r)
  /\ \E error \in Refusal(r) : End(r, error)
  /\ refused' = refused \cup {IF r = Connect THEN session.number + 1 ELSE session.number}
  /\ UNCHANGED << applied, faults, lost >>

(* Another status, or an answer nobody can read although the post is done. *)
FailsForGood(r) ==
  /\ faults > 0 /\ Welcome(r)
  /\ faults' = faults - 1
  /\ Apply(r) \/ UNCHANGED applied
  /\ End(r, "Failed")
  /\ UNCHANGED << refused, lost >>

TryAgain(r) ==
  IF attempt[r] < MaxAttempts
  THEN /\ pc' = [pc EXCEPT ![r] = "sleep"]
       /\ UNCHANGED << attempt, outcome, session >>
  ELSE End(r, "Failed")

(* A transport error, 429 or a 5xx; the site may have done the post.  *)
FailsForNow(r) ==
  /\ faults > 0
  /\ faults' = faults - 1
  /\ \/ UNCHANGED << applied, lost >>
     \/ r # Connect /\ Welcome(r) /\ Apply(r) /\ lost' = [lost EXCEPT ![r] = @ + 1]
  /\ TryAgain(r)
  /\ UNCHANGED refused

Attempt(r) ==
  /\ pc[r] = "send"
  /\ Succeeds(r) \/ IsRefused(r) \/ FailsForGood(r) \/ FailsForNow(r)
  /\ UNCHANGED << accepted, clientKey, call >>

(* retry_sleep is over. *)
Wake(r) ==
  /\ pc[r] = "sleep"
  /\ pc' = [pc EXCEPT ![r] = "send"]
  /\ attempt' = [attempt EXCEPT ![r] = @ + 1]
  /\ UNCHANGED << site, clientKey, session, call, outcome >>
-----------------------------------------------------------------------------
(* A delegating call of the manager, a batch of the manager or of the      *)
(* session itself, which never reconnects.                                 *)
StartCall(kind, posts) ==
  /\ phase = "idle"
  /\ op' = kind /\ input' = posts
  /\ phase' = "request"
  /\ pc' = [r \in Requests |-> IF r \in ToSet(posts) THEN "permit" ELSE pc[r]]
  /\ todo' = todo \ ToSet(posts)
  /\ results' = << >> /\ answer' = "none" /\ refused' = {}
  /\ UNCHANGED << accepted, applied, lost, faults, clientKey, session, attempt, outcome >>

Single == \E p \in todo : StartCall("single", << p >>)

Batch == \E kind \in {"session_batch", "batch"} :
           \E posts \in SetToSeqs(todo) : posts # << >> /\ StartCall(kind, posts)

(* reconnect asks the client for a new session. *)
Reconnecting(requestsNow) ==
  /\ phase' = "reconnect"
  /\ pc' = [requestsNow EXCEPT ![Connect] = "send"]
  /\ UNCHANGED answer

(* rotate_key: the client has the new key from here on. *)
RotateKey(k) ==
  /\ phase = "idle" /\ k # clientKey /\ session.number < MaxSessions
  /\ clientKey' = k
  /\ op' = "rotate" /\ input' = << >> /\ results' = << >> /\ refused' = {}
  /\ Reconnecting(pc)
  /\ UNCHANGED << accepted, applied, lost, faults, session, attempt, outcome, todo >>

Return(value) == /\ phase' = "idle"
                 /\ answer' = value

(* A result is taken from its task, and the task is gone. *)
Take(r) == outcome' = [outcome EXCEPT ![r] = "none"]

(* Mutant: any failure leads to a reconnection and a second request. *)
SingleDone_OnAnyError ==
  /\ op = "single" /\ phase \in {"request", "again"}
  /\ LET p == input[1]
         done == [pc EXCEPT ![p] = "none"]
     IN /\ pc[p] = "done"
        /\ IF outcome[p] # "Ok" /\ phase = "request"
           THEN Reconnecting(done)
           ELSE Return(outcome[p]) /\ pc' = done
        /\ Take(p)
  /\ UNCHANGED << site, clientKey, session, op, input, results, todo, attempt >>

(* reconnect_on_auth!: one reconnection and one more request at most. *)
SingleDone ==
  /\ op = "single" /\ phase \in {"request", "again"}
  /\ LET p == input[1]
         done == [pc EXCEPT ![p] = "none"]
     IN /\ pc[p] = "done"
        /\ IF outcome[p] = "Unauthorized" /\ phase = "request"
           THEN Reconnecting(done)
           ELSE Return(outcome[p]) /\ pc' = done
        /\ Take(p)
  /\ UNCHANGED << site, clientKey, session, op, input, results, todo, attempt >>

(* Mutant: results that call for a reconnection are left out. *)
Join_DropsRefused(p) ==
  /\ op \in {"batch", "session_batch"} /\ phase = "request"
  /\ pc[p] = "done"
  /\ pc' = [pc EXCEPT ![p] = "none"]
  /\ Take(p)
  /\ results' = IF outcome[p] = "Unauthorized" THEN results
                ELSE Append(results, << p, outcome[p] >>)
  /\ UNCHANGED << site, clientKey, session, op, input, phase, answer, todo, attempt >>

(* join_next: the results are taken in the order the tasks end. *)
Join(p) ==
  /\ op \in {"batch", "session_batch"} /\ phase = "request"
  /\ pc[p] = "done"
  /\ pc' = [pc EXCEPT ![p] = "none"]
  /\ Take(p)
  /\ results' = Append(results, << p, outcome[p] >>)
  /\ UNCHANGED << site, clientKey, session, op, input, phase, answer, todo, attempt >>

BatchDone ==
  /\ op \in {"batch", "session_batch"} /\ phase = "request"
  /\ \A p \in Posts : pc[p] = "none"
  /\ IF op = "batch" /\ \E i \in DOMAIN results : results[i][2] = "Unauthorized"
     THEN Reconnecting(pc)
     ELSE Return("Ok") /\ UNCHANGED pc
  /\ UNCHANGED << site, clientKey, session, op, input, results, todo, attempt, outcome >>

(* Mutant: the new session is not kept. *)
NewSession_Dropped == UNCHANGED << session, accepted >>

(* connect: a session of the client's key, with a limiter of its own. *)
NewSession ==
  /\ session' = [number |-> session.number + 1, key |-> clientKey, permits |-> Limit]
  /\ accepted' = TRUE

(* reconnect has its result: the call goes on, returns, or fails with the  *)
(* error of connect.  A batch whose reconnect fails drops its results.     *)
Reconnected ==
  /\ phase = "reconnect" /\ pc[Connect] = "done"
  /\ \/ /\ outcome[Connect] # "Ok"
        /\ Return(outcome[Connect])
        /\ results' = << >>
        /\ pc' = [pc EXCEPT ![Connect] = "none"]
        /\ UNCHANGED << session, accepted >>
     \/ /\ outcome[Connect] = "Ok" /\ op # "single"
        /\ Return("Ok")
        /\ NewSession
        /\ pc' = [pc EXCEPT ![Connect] = "none"]
        /\ UNCHANGED results
     \/ /\ outcome[Connect] = "Ok" /\ op = "single"
        /\ NewSession
        /\ phase' = "again"
        /\ pc' = [pc EXCEPT ![Connect] = "none", ![input[1]] = "permit"]
        /\ UNCHANGED << answer, results >>
  /\ Take(Connect)
  /\ UNCHANGED << applied, lost, refused, faults, clientKey, op, input, todo, attempt >>

(* Requests that hold a permit. *)
Holders == {p \in Posts : pc[p] \in {"send", "sleep"}}

(* The caller drops the call; its tasks are aborted with it.  A request    *)
(* the site still serves is that Attempt followed by this step.            *)
DropCall ==
  /\ phase # "idle"
  /\ phase' = "idle" /\ answer' = "dropped"
  /\ results' = << >>
  /\ pc' = [r \in Requests |-> "none"]
  /\ attempt' = [r \in Requests |-> 1]
  /\ outcome' = [r \in Requests |-> "none"]
  /\ session' = [session EXCEPT !.permits = @ + Cardinality(Holders)]
  /\ UNCHANGED << site, clientKey, op, input, todo >>

(* What happens without the site. *)
OwnStep == \/ \E r \in Requests : Wake(r)
           \/ \E p \in Posts : Acquire(p) \/ Join(p)
           \/ SingleDone \/ BatchDone \/ Reconnected

Next == \/ Single \/ Batch \/ \E k \in Keys : RotateKey(k)
        \/ OwnStep \/ \E r \in Requests : Attempt(r)
        \/ DropCall \/ Expire

(* The runtime polls every task and fires every timer.  Nothing makes the  *)
(* site answer: the HTTP client has no timeout.                            *)
Spec == Init /\ [][Next]_vars /\ WF_vars(OwnStep)
-----------------------------------------------------------------------------
(* Every permit is free or held by one running request, through retries,   *)
(* reconnections and dropped calls; so at most Limit posts are under way.  *)
PermitsAccounted == session.permits + Cardinality(Holders) = Limit

(* A post is done twice only if the answer to the first was lost on the    *)
(* way: neither the reconnection nor a retry repeats what was answered.    *)
RepeatedOnlyWhenLost == \A p \in Posts : applied[p] <= 1 + lost[p]

(* A call that returned Ok has an outcome for each of its posts, exactly   *)
(* one, and a post whose outcome is Ok has been done.                      *)
EveryPostAnswered ==
  phase = "idle" /\ answer = "Ok" =>
    /\ op \in {"batch", "session_batch"} =>
         /\ Len(results) = Len(input)
         /\ {results[i][1] : i \in DOMAIN results} = ToSet(input)
         /\ \A i \in DOMAIN results : results[i][2] = "Ok" => applied[results[i][1]] >= 1
    /\ op = "single" => applied[input[1]] >= 1

(* session.rs:28-33: an authorisation error reaches the caller of one      *)
(* request only if the site refused the old session and then the new one,  *)
(* or its connection: one expired session alone never shows.               *)
RefusedOnlyTwice ==
  phase = "idle" /\ op = "single" /\ answer = "Unauthorized" => Cardinality(refused) >= 2

(* session.rs:28: "automatic reconnection when the session expires (HTTP   *)
(* 401/403)": a refusal by either status reaches the caller as late.       *)
EitherStatusReconnects ==
  phase = "idle" /\ op = "single" /\ answer \in {"Unauthorized", "Status401"} =>
    Cardinality(refused) >= 2

(* Whatever fails, every call returns, as long as each attempt that is     *)
(* under way has an end: an answer, or a broken connection.                *)
CallsReturn ==
  (\A r \in Requests : WF_vars(Attempt(r))) => (phase # "idle" ~> phase = "idle")

(* client.rs:170 of send_messages, client.rs:193 of fetch_orders_batch:    *)
(* "Returns a vector of results in the same order as the input".           *)
ResultsInOrder ==
  phase = "idle" /\ op = "session_batch" /\ answer = "Ok" =>
    \A i \in DOMAIN results : results[i][1] = input[i]
=============================================================================
