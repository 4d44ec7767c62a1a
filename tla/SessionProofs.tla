---------------------------- MODULE SessionProofs ----------------------------
(***************************************************************************)
(* Theorems about Session for every set of posts and keys, every limit on  *)
(* concurrent requests and on attempts, and any number of expired          *)
(* sessions, failures and lost answers.                                    *)
(***************************************************************************)
EXTENDS Session, FunctionTheorems, FiniteSetTheorems, TLAPS

USE DEF site, requests, call
-----------------------------------------------------------------------------
Stages  == {"none", "permit", "send", "sleep", "done"}
Phases  == {"idle", "request", "reconnect", "again"}
Answers == Outcomes \cup {"dropped"}

(* Every variable has the type its comment gives. *)
TypeOK ==
  /\ accepted \in BOOLEAN
  /\ applied \in [Posts -> Nat] /\ lost \in [Posts -> Nat]
  /\ clientKey \in Keys
  /\ session \in [number : Nat, key : Keys, permits : Nat]
  /\ op \in Ops /\ input \in Seq(Posts) /\ phase \in Phases
  /\ pc \in [Requests -> Stages]
  /\ attempt \in [Requests -> Nat]
  /\ outcome \in [Requests -> Outcomes]
  /\ results \in Seq(Posts \X Outcomes) /\ answer \in Answers
  /\ todo \subseteq Posts /\ faults \in Nat /\ refused \subseteq Nat

(* The initial state has the types. *)
LEMMA InitType == Init => TypeOK
BY SessionAssumption DEF Init, TypeOK, Ops, Phases, Stages, Outcomes, Answers, Requests

(* The posts of a batch are posts nobody has asked for yet, each once. *)
LEMMA BatchInput ==
  ASSUME NEW S \in SUBSET Posts, NEW q \in SetToSeqs(S)
  PROVE  /\ q \in Seq(Posts) /\ ToSet(q) \subseteq S
         /\ \A i, j \in DOMAIN q : q[i] = q[j] => i = j
<1>1. Cardinality(S) \in Nat
  <2>1. IsFiniteSet(S)
    BY SessionAssumption, FS_Subset
  <2>2. QED
    BY <2>1, FS_CardinalityType
<1>2. /\ q \in [1..Cardinality(S) -> S]
      /\ \A i, j \in 1..Cardinality(S) : i # j => q[i] # q[j]
  BY DEF SetToSeqs
<1>3. q \in Seq(S) /\ DOMAIN q = 1..Cardinality(S)
  BY <1>1, <1>2
<1>4. QED
  BY <1>2, <1>3 DEF ToSet

(* A call with one post is a batch of one. *)
LEMMA SingleInput ==
  ASSUME NEW p \in Posts
  PROVE  /\ << p >> \in Seq(Posts) /\ ToSet(<< p >>) = {p} /\ Len(<< p >>) = 1
         /\ \A i, j \in DOMAIN << p >> : << p >>[i] = << p >>[j] => i = j
BY DEF ToSet

(* How a call of the manager starts. *)
Started(kind, posts) ==
  /\ StartCall(kind, posts)
  /\ kind \in {"single", "session_batch", "batch"}
  /\ posts \in Seq(Posts) /\ ToSet(posts) \subseteq todo
  /\ \A i, j \in DOMAIN posts : posts[i] = posts[j] => i = j
  /\ kind = "single" => Len(posts) = 1

(* Each of the two kinds of calls starts with different posts that are     *)
(* still to do.                                                            *)
LEMMA CallStarts ==
  ASSUME TypeOK, Single \/ Batch
  PROVE  \E kind, posts : Started(kind, posts)
<1>1. CASE Single
  <2>1. PICK p \in todo : StartCall("single", << p >>)
    BY <1>1 DEF Single
  <2>2. Started("single", << p >>)
    BY <2>1, SingleInput DEF Started, TypeOK
  <2>3. QED
    BY <2>2
<1>2. CASE Batch
  <2>1. PICK kind \in {"session_batch", "batch"}, posts \in SetToSeqs(todo) :
          StartCall(kind, posts)
    BY <1>2 DEF Batch
  <2>2. Started(kind, posts)
    BY <2>1, BatchInput DEF Started, TypeOK
  <2>3. QED
    BY <2>2
<1>3. QED
  BY <1>1, <1>2

(* What an attempt at a request changes. *)
Attempted(r) ==
  /\ pc[r] = "send"
  /\ UNCHANGED << accepted, clientKey, op, input, phase, results, answer, todo >>
  /\ session' \in [number : {session.number}, key : {session.key}, permits : Nat]
  /\ \A q \in Requests \ {r} : pc'[q] = pc[q] /\ outcome'[q] = outcome[q]
  /\ \/ /\ pc'[r] = "sleep" /\ UNCHANGED << outcome, session >>
     \/ /\ pc'[r] = "done" /\ outcome'[r] \in Outcomes \ {"none"}
        /\ session'.permits = IF r = Connect THEN session.permits ELSE session.permits + 1

(* What it does on the site: a post that is refused is not done, one that  *)
(* succeeds is, and one done without an answer is noted as lost before it  *)
(* is sent again.                                                          *)
Served(r) ==
  /\ \A p \in Posts \ {r} : applied'[p] = applied[p] /\ lost'[p] = lost[p]
  /\ r = Connect => UNCHANGED << applied, lost >>
  /\ r # Connect =>
       \/ /\ UNCHANGED << applied, lost >>
          /\ ~(pc'[r] = "done" /\ outcome'[r] = "Ok")
       \/ /\ applied'[r] = applied[r] + 1 /\ lost'[r] = lost[r]
          /\ pc'[r] = "done" /\ outcome'[r] \in {"Ok", "Failed"}
       \/ /\ applied'[r] = applied[r] + 1 /\ lost'[r] = lost[r] + 1
          /\ ~(pc'[r] = "done" /\ outcome'[r] = "Unauthorized")

(* What the end of a request changes: the permit comes back, unless it was *)
(* the connection of a new session.                                        *)
LEMMA EndEffect ==
  ASSUME TypeOK, NEW r \in Requests, NEW out \in Outcomes, End(r, out)
  PROVE  /\ pc' = [pc EXCEPT ![r] = "done"] /\ pc'[r] = "done"
         /\ attempt' \in [Requests -> Nat]
         /\ outcome' = [outcome EXCEPT ![r] = out] /\ outcome'[r] = out
         /\ session' \in [number : {session.number}, key : {session.key}, permits : Nat]
         /\ session'.permits = IF r = Connect THEN session.permits ELSE session.permits + 1
<1>1. /\ pc' = [pc EXCEPT ![r] = "done"] /\ pc'[r] = "done"
      /\ attempt' \in [Requests -> Nat]
      /\ outcome' = [outcome EXCEPT ![r] = out] /\ outcome'[r] = out
  BY DEF TypeOK, End
<1>2. session.permits \in Nat
  BY DEF TypeOK
<1>3. CASE r = Connect
  BY <1>1, <1>3 DEF TypeOK, End
<1>4. CASE r # Connect
  <2>1. session' = [session EXCEPT !.permits = session.permits + 1]
    BY <1>4 DEF End
  <2>2. session.permits + 1 \in Nat
    BY <1>2
  <2>3. QED
    BY <1>1, <1>4, <2>1, <2>2 DEF TypeOK
<1>5. QED
  BY <1>3, <1>4

(* What an attempt of a request changes. *)
LEMMA AttemptEffect ==
  ASSUME TypeOK, NEW r \in Requests, Attempt(r)
  PROVE  /\ Attempted(r) /\ Served(r)
         /\ attempt' \in [Requests -> Nat] /\ pc' \in [Requests -> Stages]
         /\ outcome' \in [Requests -> Outcomes] /\ faults' \in Nat
         /\ applied' \in [Posts -> Nat] /\ lost' \in [Posts -> Nat]
<1> USE DEF TypeOK
<1>1. /\ pc[r] = "send"
      /\ UNCHANGED << accepted, clientKey, op, input, phase, results, answer, todo >>
      /\ r \in Posts \/ r = Connect
      /\ Connect \notin Posts
  BY SessionAssumption DEF Attempt, Requests
<1>a. ASSUME NEW out \in Outcomes \ {"none"}, End(r, out)
      PROVE  /\ Attempted(r) /\ pc'[r] = "done" /\ outcome'[r] = out
             /\ attempt' \in [Requests -> Nat] /\ pc' \in [Requests -> Stages]
             /\ outcome' \in [Requests -> Outcomes]
  <2>1. /\ pc' = [pc EXCEPT ![r] = "done"] /\ pc'[r] = "done"
        /\ attempt' \in [Requests -> Nat]
        /\ outcome' = [outcome EXCEPT ![r] = out] /\ outcome'[r] = out
        /\ session' \in [number : {session.number}, key : {session.key}, permits : Nat]
        /\ session'.permits = IF r = Connect THEN session.permits ELSE session.permits + 1
    BY <1>a, EndEffect
  <2>2. \A q \in Requests \ {r} : pc'[q] = pc[q] /\ outcome'[q] = outcome[q]
    BY <2>1
  <2>3. pc' \in [Requests -> Stages] /\ outcome' \in [Requests -> Outcomes]
    BY <2>1 DEF Stages
  <2>4. QED
    BY <1>1, <1>a, <2>1, <2>2, <2>3 DEF Attempted
<1>b. ASSUME Apply(r)
      PROVE  /\ applied' \in [Posts -> Nat]
             /\ \A p \in Posts \ {r} : applied'[p] = applied[p]
             /\ r = Connect => UNCHANGED applied
             /\ r # Connect => applied'[r] = applied[r] + 1
  BY <1>1, <1>b DEF Apply
<1>2. CASE Succeeds(r)
  <2>1. End(r, "Ok") /\ Apply(r) /\ UNCHANGED << faults, lost >>
    BY <1>2 DEF Succeeds
  <2>2. QED
    BY <1>a, <1>b, <2>1 DEF Served, Outcomes
<1>3. CASE IsRefused(r)
  <2>1. /\ \E out \in {"Unauthorized", "Status401"} : End(r, out)
        /\ UNCHANGED << applied, faults, lost >>
    BY <1>3 DEF IsRefused, Refusal
  <2>2. QED
    BY <1>a, <2>1 DEF Served, Outcomes
<1>4. CASE FailsForGood(r)
  <2>1. /\ End(r, "Failed") /\ (Apply(r) \/ UNCHANGED applied)
        /\ UNCHANGED lost /\ faults' \in Nat
    BY <1>4 DEF FailsForGood
  <2>2. QED
    BY <1>a, <1>b, <2>1 DEF Served, Outcomes
<1>5. CASE FailsForNow(r)
  <2>1. /\ TryAgain(r) /\ faults' \in Nat
        /\ \/ UNCHANGED << applied, lost >>
           \/ r # Connect /\ Apply(r) /\ lost' = [lost EXCEPT ![r] = @ + 1]
    BY <1>5 DEF FailsForNow
  <2>a. ASSUME ~(pc'[r] = "done" /\ outcome'[r] \in {"Ok", "Unauthorized"})
        PROVE  /\ applied' \in [Posts -> Nat] /\ lost' \in [Posts -> Nat] /\ Served(r)
    <3>1. CASE UNCHANGED << applied, lost >>
      BY <2>a, <3>1 DEF Served
    <3>2. CASE r # Connect /\ Apply(r) /\ lost' = [lost EXCEPT ![r] = @ + 1]
      <4>1. /\ lost' \in [Posts -> Nat] /\ lost'[r] = lost[r] + 1
            /\ \A p \in Posts \ {r} : lost'[p] = lost[p]
        BY <1>1, <3>2
      <4>2. QED
        BY <1>b, <2>a, <3>2, <4>1 DEF Served
    <3>3. QED
      BY <2>1, <3>1, <3>2
  <2>2. CASE End(r, "Failed")
    <3>1. Attempted(r) /\ outcome'[r] = "Failed"
      BY <1>a, <2>2 DEF Outcomes
    <3>2. /\ attempt' \in [Requests -> Nat] /\ pc' \in [Requests -> Stages]
          /\ outcome' \in [Requests -> Outcomes]
      BY <1>a, <2>2 DEF Outcomes
    <3>3. /\ applied' \in [Posts -> Nat] /\ lost' \in [Posts -> Nat] /\ Served(r)
      BY <2>a, <3>1
    <3>4. QED
      BY <2>1, <3>1, <3>2, <3>3
  <2>3. CASE pc' = [pc EXCEPT ![r] = "sleep"] /\ UNCHANGED << attempt, outcome, session >>
    <3>1. /\ pc'[r] = "sleep" /\ pc' \in [Requests -> Stages]
          /\ \A q \in Requests \ {r} : pc'[q] = pc[q] /\ outcome'[q] = outcome[q]
      BY <2>3 DEF Stages
    <3>2. Attempted(r)
      BY <1>1, <2>3, <3>1 DEF Attempted
    <3>3. /\ applied' \in [Posts -> Nat] /\ lost' \in [Posts -> Nat] /\ Served(r)
      BY <2>a, <3>1
    <3>4. QED
      BY <2>1, <2>3, <3>1, <3>2, <3>3
  <2>4. QED
    BY <2>1, <2>2, <2>3 DEF TryAgain
<1>6. QED
  BY <1>2, <1>3, <1>4, <1>5 DEF Attempt
-----------------------------------------------------------------------------
(* Which requests run in which phase of a call, and for which of its posts *)
(* no other call is responsible.                                           *)
Calls ==
  /\ \A p \in Posts : pc[p] # "none" => phase \in {"request", "again"} /\ p \in ToSet(input)
  /\ pc[Connect] # "none" => phase = "reconnect"
  /\ op = "single" /\ phase # "idle" => Len(input) = 1
  /\ phase = "again" => op = "single"
  /\ op = "rotate" => phase \in {"idle", "reconnect"}
  /\ phase # "idle" => ToSet(input) \cap todo = {}

(* A call of the manager is about one post. *)
LEMMA OneInput ==
  ASSUME TypeOK, Calls, op = "single", phase # "idle"
  PROVE  /\ input[1] \in Posts /\ input[1] \in Requests /\ input[1] # Connect
         /\ ToSet(input) = {input[1]}
<1>1. input \in Seq(Posts) /\ Len(input) = 1
  BY DEF TypeOK, Calls
<1>2. DOMAIN input = {1} /\ input[1] \in Posts
  BY <1>1
<1>3. QED
  BY <1>2, SessionAssumption DEF ToSet, Requests

(* What the end of its request makes of a call of the manager. *)
SingleEnds(p) ==
  /\ p = input[1] /\ op = "single" /\ phase \in {"request", "again"} /\ pc[p] = "done"
  /\ outcome' = [outcome EXCEPT ![p] = "none"]
  /\ UNCHANGED << site, clientKey, session, op, input, results, todo, attempt >>
  /\ pc' \in [Requests -> Stages]
  /\ \A q \in Posts : pc'[q] = IF q = p THEN "none" ELSE pc[q]
  /\ \/ /\ outcome[p] = "Unauthorized" /\ phase = "request"
        /\ phase' = "reconnect" /\ UNCHANGED answer
     \/ /\ ~(outcome[p] = "Unauthorized" /\ phase = "request")
        /\ phase' = "idle" /\ answer' = outcome[p]
        /\ pc'[Connect] = pc[Connect]

(* What the manager does with a single post's outcome. *)
LEMMA SingleDoneEffect ==
  ASSUME TypeOK, Calls, SingleDone
  PROVE  \E p \in Posts : SingleEnds(p)
<1>1. PICK p \in Posts : p = input[1] /\ p \in Requests /\ p # Connect
  BY OneInput DEF SingleDone
<1> DEFINE done == [pc EXCEPT ![p] = "none"]
<1>2. /\ op = "single" /\ phase \in {"request", "again"} /\ pc[p] = "done"
      /\ outcome' = [outcome EXCEPT ![p] = "none"]
      /\ UNCHANGED << site, clientKey, session, op, input, results, todo, attempt >>
      /\ IF outcome[p] = "Unauthorized" /\ phase = "request"
         THEN Reconnecting(done)
         ELSE Return(outcome[p]) /\ pc' = done
  BY <1>1 DEF SingleDone, Take
<1>3. /\ done \in [Requests -> Stages] /\ Connect \in Requests
      /\ \A q \in Requests : done[q] = IF q = p THEN "none" ELSE pc[q]
  BY <1>1 DEF TypeOK, Stages, Requests
<1> HIDE DEF done
<1>4. CASE outcome[p] = "Unauthorized" /\ phase = "request"
  <2>1. phase' = "reconnect" /\ UNCHANGED answer /\ pc' = [done EXCEPT ![Connect] = "send"]
    BY <1>2, <1>4 DEF Reconnecting
  <2>2. /\ pc' \in [Requests -> Stages]
        /\ \A q \in Posts : pc'[q] = IF q = p THEN "none" ELSE pc[q]
    BY <1>3, <2>1, SessionAssumption DEF Stages, Requests
  <2>3. QED
    BY <1>1, <1>2, <1>4, <2>1, <2>2 DEF SingleEnds
<1>5. CASE ~(outcome[p] = "Unauthorized" /\ phase = "request")
  <2>1. phase' = "idle" /\ answer' = outcome[p] /\ pc' = done
    BY <1>2, <1>5 DEF Return
  <2>2. /\ pc' \in [Requests -> Stages] /\ pc'[Connect] = pc[Connect]
        /\ \A q \in Posts : pc'[q] = IF q = p THEN "none" ELSE pc[q]
    BY <1>1, <1>3, <2>1 DEF Requests
  <2>3. QED
    BY <1>1, <1>2, <1>5, <2>1, <2>2 DEF SingleEnds
<1>6. QED
  BY <1>4, <1>5

(* What the end of a reconnection makes of the call that asked for it. *)
Reconnects ==
  /\ phase = "reconnect" /\ pc[Connect] = "done"
  /\ UNCHANGED << applied, lost, refused, faults, clientKey, op, input, todo, attempt >>
  /\ outcome' = [outcome EXCEPT ![Connect] = "none"]
  /\ pc' \in [Requests -> Stages] /\ pc'[Connect] = "none"
  /\ \/ /\ outcome[Connect] # "Ok" /\ answer' = outcome[Connect]
        /\ phase' = "idle" /\ results' = << >>
        /\ \A p \in Posts : pc'[p] = pc[p]
        /\ UNCHANGED << session, accepted >>
     \/ /\ op # "single" /\ phase' = "idle" /\ answer' = "Ok" /\ UNCHANGED results
        /\ \A p \in Posts : pc'[p] = pc[p]
        /\ NewSession
     \/ /\ op = "single" /\ phase' = "again" /\ UNCHANGED << answer, results >>
        /\ \A p \in Posts : pc'[p] = IF p = input[1] THEN "permit" ELSE pc[p]
        /\ NewSession

(* What the manager does with the outcome of a connection. *)
LEMMA ReconnectedEffect ==
  ASSUME TypeOK, Calls, Reconnected
  PROVE  Reconnects
<1>1. /\ phase = "reconnect" /\ pc[Connect] = "done"
      /\ UNCHANGED << applied, lost, refused, faults, clientKey, op, input, todo, attempt >>
      /\ outcome' = [outcome EXCEPT ![Connect] = "none"]
  BY DEF Reconnected, Take
<1>2. Connect \in Requests /\ \A p \in Posts : p \in Requests /\ p # Connect
  BY SessionAssumption DEF Requests
<1>3. ASSUME pc' = [pc EXCEPT ![Connect] = "none"]
      PROVE  /\ pc' \in [Requests -> Stages] /\ pc'[Connect] = "none"
             /\ \A p \in Posts : pc'[p] = pc[p]
  BY <1>2, <1>3 DEF TypeOK, Stages
<1>4. CASE /\ outcome[Connect] # "Ok" /\ Return(outcome[Connect]) /\ results' = << >>
           /\ pc' = [pc EXCEPT ![Connect] = "none"]
           /\ UNCHANGED << session, accepted >>
  BY <1>1, <1>3, <1>4 DEF Reconnects, Return
<1>5. CASE /\ op # "single" /\ Return("Ok") /\ NewSession
           /\ pc' = [pc EXCEPT ![Connect] = "none"]
           /\ UNCHANGED results
  BY <1>1, <1>3, <1>5 DEF Reconnects, Return
<1>6. CASE /\ op = "single" /\ NewSession /\ phase' = "again"
           /\ pc' = [pc EXCEPT ![Connect] = "none", ![input[1]] = "permit"]
           /\ UNCHANGED << answer, results >>
  <2>1. input[1] \in Posts
    BY <1>1, <1>6, OneInput
  <2>2. /\ pc' \in [Requests -> Stages] /\ pc'[Connect] = "none"
        /\ \A p \in Posts : pc'[p] = IF p = input[1] THEN "permit" ELSE pc[p]
    BY <1>2, <1>6, <2>1 DEF TypeOK, Stages
  <2>3. QED
    BY <1>1, <1>6, <2>2 DEF Reconnects
<1>7. QED
  BY <1>4, <1>5, <1>6 DEF Reconnected

(* A call starts with all its posts waiting for a permit. *)
LEMMA StartEffect ==
  ASSUME TypeOK, Calls, NEW kind, NEW posts, Started(kind, posts)
  PROVE  /\ \A p \in Posts : pc[p] = "none"
         /\ \A p \in Posts : pc'[p] = IF p \in ToSet(posts) THEN "permit" ELSE "none"
         /\ pc'[Connect] = pc[Connect] /\ pc' \in [Requests -> Stages]
<1>1. /\ phase = "idle"
      /\ pc' = [r \in Requests |-> IF r \in ToSet(posts) THEN "permit" ELSE pc[r]]
  BY DEF Started, StartCall
<1>2. ToSet(posts) \subseteq Posts /\ Posts \subseteq Requests
      /\ Connect \in Requests /\ Connect \notin Posts
  BY SessionAssumption DEF Started, TypeOK, Requests
<1>3. \A p \in Posts : pc[p] = "none"
  BY <1>1 DEF Calls
<1>4. QED
  BY <1>1, <1>2, <1>3 DEF TypeOK, Stages

(* Every step keeps the types. *)
LEMMA NextType == TypeOK /\ Calls /\ [Next]_vars => TypeOK'
<1> SUFFICES ASSUME TypeOK, Calls, [Next]_vars PROVE TypeOK'
  OBVIOUS
<1>1. ASSUME Single \/ Batch PROVE TypeOK'
  <2>1. PICK kind, posts : Started(kind, posts)
    BY <1>1, CallStarts
  <2>2. pc' \in [Requests -> Stages]
    BY <2>1, StartEffect
  <2>3. QED
    BY <2>1, <2>2 DEF Started, StartCall, TypeOK, Ops, Phases, Answers, Outcomes
<1>2. ASSUME NEW k \in Keys, RotateKey(k) PROVE TypeOK'
  <2>1. pc' \in [Requests -> Stages]
    BY <1>2 DEF RotateKey, Reconnecting, TypeOK, Stages
  <2>2. QED
    BY <1>2, <2>1 DEF RotateKey, Reconnecting, TypeOK, Ops, Phases
<1>3. ASSUME NEW r \in Requests, Attempt(r) PROVE TypeOK'
  <2>1. /\ Attempted(r) /\ attempt' \in [Requests -> Nat] /\ pc' \in [Requests -> Stages]
        /\ outcome' \in [Requests -> Outcomes] /\ faults' \in Nat
        /\ applied' \in [Posts -> Nat] /\ lost' \in [Posts -> Nat]
    BY <1>3, AttemptEffect
  <2>2. refused' \subseteq Nat
    <3>1. session.number \in Nat /\ session.number + 1 \in Nat
      BY DEF TypeOK
    <3>2. QED
      BY <1>3, <3>1 DEF Attempt, Succeeds, IsRefused, FailsForGood, FailsForNow, TypeOK
  <2>3. session' \in [number : Nat, key : Keys, permits : Nat]
    BY <2>1 DEF Attempted, TypeOK
  <2>4. QED
    BY <2>1, <2>2, <2>3 DEF Attempted, TypeOK
<1>4. ASSUME NEW r \in Requests, Wake(r) PROVE TypeOK'
  BY <1>4 DEF Wake, TypeOK, Stages
<1>5. ASSUME NEW p \in Posts, Acquire(p) PROVE TypeOK'
  <2>1. session' \in [number : Nat, key : Keys, permits : Nat]
    <3>1. session.permits \in Nat /\ session.permits > 0
      BY <1>5 DEF Acquire, TypeOK
    <3>2. session.permits - 1 \in Nat
      BY <3>1
    <3>3. QED
      BY <1>5, <3>2 DEF Acquire, TypeOK
  <2>2. QED
    BY <1>5, <2>1 DEF Acquire, TypeOK, Stages, Requests
<1>6. ASSUME NEW p \in Posts, Join(p) PROVE TypeOK'
  <2>1. p \in Requests /\ outcome[p] \in Outcomes /\ "none" \in Outcomes
    BY DEF TypeOK, Requests, Outcomes
  <2>2. results' \in Seq(Posts \X Outcomes)
    BY <1>6, <2>1 DEF Join, TypeOK
  <2>3. outcome' \in [Requests -> Outcomes] /\ pc' \in [Requests -> Stages]
    BY <1>6, <2>1 DEF Join, Take, TypeOK, Stages
  <2>4. QED
    BY <1>6, <2>2, <2>3 DEF Join, TypeOK
<1>7. CASE SingleDone
  <2>1. PICK p \in Posts : SingleEnds(p)
    BY <1>7, SingleDoneEffect
  <2>2. outcome[p] \in Answers /\ outcome' \in [Requests -> Outcomes]
    BY <2>1 DEF SingleEnds, TypeOK, Answers, Requests, Outcomes
  <2>3. phase' \in Phases /\ answer' \in Answers
    BY <2>1, <2>2 DEF SingleEnds, TypeOK, Phases
  <2>4. QED
    BY <2>1, <2>2, <2>3 DEF SingleEnds, TypeOK
<1>8. CASE BatchDone
  <2>1. pc' \in [Requests -> Stages] /\ phase' \in Phases /\ answer' \in Answers
    BY <1>8 DEF BatchDone, Reconnecting, Return, TypeOK, Stages, Phases, Answers, Outcomes
  <2>2. QED
    BY <1>8, <2>1 DEF BatchDone, TypeOK
<1>9. CASE Reconnected
  <2>1. Reconnects
    BY <1>9, ReconnectedEffect
  <2>2. outcome' \in [Requests -> Outcomes] /\ results' \in Seq(Posts \X Outcomes)
    <3>1. outcome' \in [Requests -> Outcomes]
      BY <2>1 DEF Reconnects, TypeOK, Outcomes
    <3>2. results' = << >> \/ results' = results
      BY <2>1 DEF Reconnects
    <3>3. << >> \in Seq(Posts \X Outcomes)
      OBVIOUS
    <3>4. QED
      BY <3>1, <3>2, <3>3 DEF TypeOK
  <2>3. phase' \in Phases /\ answer' \in Answers
    <3>1. outcome[Connect] \in Outcomes /\ "Ok" \in Outcomes
      BY DEF TypeOK, Outcomes, Requests
    <3>2. QED
      BY <2>1, <3>1 DEF Reconnects, TypeOK, Phases, Answers
  <2>4. accepted' \in BOOLEAN /\ session' \in [number : Nat, key : Keys, permits : Nat]
    <3>1. CASE UNCHANGED << session, accepted >>
      BY <3>1 DEF TypeOK
    <3>2. CASE NewSession
      <4>1. session.number + 1 \in Nat /\ clientKey \in Keys /\ Limit \in Nat
        BY SessionAssumption DEF TypeOK
      <4>2. QED
        BY <3>2, <4>1 DEF NewSession
    <3>3. QED
      BY <2>1, <3>1, <3>2 DEF Reconnects
  <2>5. QED
    BY <2>1, <2>2, <2>3, <2>4 DEF Reconnects, TypeOK
<1>10. CASE DropCall
  <2>1. IsFiniteSet(Holders)
    BY SessionAssumption, FS_Subset DEF Holders
  <2>2. Cardinality(Holders) \in Nat
    BY <2>1, FS_CardinalityType
  <2>3. session.permits + Cardinality(Holders) \in Nat
    BY <2>2 DEF TypeOK
  <2>4. session' \in [number : Nat, key : Keys, permits : Nat]
    BY <1>10, <2>3 DEF DropCall, TypeOK
  <2>5. results' \in Seq(Posts \X Outcomes)
    BY <1>10 DEF DropCall
  <2>6. QED
    BY <1>10, <2>4, <2>5 DEF DropCall, TypeOK, Stages, Phases, Answers, Outcomes
<1>11. CASE Expire \/ UNCHANGED vars
  BY <1>11 DEF Expire, vars, TypeOK
<1>12. QED
  BY <1>1, <1>2, <1>3, <1>4, <1>5, <1>6, <1>7, <1>8, <1>9, <1>10, <1>11 DEF Next, OwnStep

(* Every step keeps the calls and their requests in order. *)
LEMMA NextCalls == TypeOK /\ Calls /\ [Next]_vars => Calls'
<1> SUFFICES ASSUME TypeOK, Calls, [Next]_vars PROVE Calls'
  OBVIOUS
<1>a. Connect \in Requests /\ Connect \notin Posts /\ Posts \subseteq Requests
  BY SessionAssumption DEF Requests
<1>b. ASSUME UNCHANGED << op, input, phase, todo >>,
             \A r \in Requests : pc'[r] # "none" => pc[r] # "none"
      PROVE  Calls'
  BY <1>a, <1>b DEF Calls
<1>1. ASSUME Single \/ Batch PROVE Calls'
  <2>1. PICK kind, posts : Started(kind, posts)
    BY <1>1, CallStarts
  <2>2. /\ \A p \in Posts : pc'[p] = IF p \in ToSet(posts) THEN "permit" ELSE "none"
        /\ pc'[Connect] = pc[Connect]
    BY <2>1, StartEffect
  <2>3. /\ op' = kind /\ input' = posts /\ phase = "idle" /\ phase' = "request"
        /\ todo' = todo \ ToSet(posts)
    BY <2>1 DEF Started, StartCall
  <2>4. kind # "rotate" /\ (kind = "single" => Len(posts) = 1)
    BY <2>1 DEF Started
  <2>5. QED
    BY <2>2, <2>3, <2>4 DEF Calls
<1>2. ASSUME NEW k \in Keys, RotateKey(k) PROVE Calls'
  <2>1. /\ phase = "idle" /\ op' = "rotate" /\ input' = << >> /\ phase' = "reconnect"
        /\ UNCHANGED todo
        /\ pc' = [pc EXCEPT ![Connect] = "send"]
    BY <1>2 DEF RotateKey, Reconnecting
  <2>2. \A p \in Posts : pc'[p] = pc[p] /\ pc[p] = "none"
    BY <1>a, <2>1 DEF Calls, TypeOK
  <2>3. ToSet(input') = {}
    BY <2>1 DEF ToSet
  <2>4. QED
    BY <2>1, <2>2, <2>3 DEF Calls
<1>3. ASSUME NEW r \in Requests, Attempt(r) PROVE Calls'
  BY <1>3, <1>b, AttemptEffect DEF Attempted
<1>4. ASSUME NEW r \in Requests, Wake(r) PROVE Calls'
  BY <1>4, <1>b DEF Wake, TypeOK
<1>5. ASSUME NEW p \in Posts, Acquire(p) PROVE Calls'
  BY <1>5, <1>b DEF Acquire, TypeOK
<1>6. ASSUME NEW p \in Posts, Join(p) PROVE Calls'
  BY <1>6, <1>b DEF Join, TypeOK
<1>7. CASE SingleDone
  <2>1. PICK p \in Posts : SingleEnds(p)
    BY <1>7, SingleDoneEffect
  <2>2. ToSet(input) = {p} /\ phase # "idle"
    BY <2>1, OneInput DEF SingleEnds
  <2>3. \A q \in Posts : pc'[q] = "none"
    BY <2>1, <2>2 DEF SingleEnds, Calls
  <2>4. QED
    BY <2>1, <2>3 DEF SingleEnds, Calls
<1>8. CASE BatchDone
  <2>1. /\ \A p \in Posts : pc[p] = "none"
        /\ op \in {"batch", "session_batch"} /\ phase = "request"
        /\ UNCHANGED << op, input, todo >>
    BY <1>8 DEF BatchDone
  <2>2. CASE Reconnecting(pc)
    <3>1. phase' = "reconnect" /\ \A p \in Posts : pc'[p] = "none"
      BY <1>a, <2>1, <2>2 DEF Reconnecting, TypeOK
    <3>2. QED
      BY <2>1, <3>1 DEF Calls
  <2>3. CASE phase' = "idle" /\ UNCHANGED pc
    BY <2>1, <2>3 DEF Calls
  <2>4. QED
    BY <1>8, <2>2, <2>3 DEF BatchDone, Return
<1>9. CASE Reconnected
  <2>1. Reconnects
    BY <1>9, ReconnectedEffect
  <2>2. \A p \in Posts : pc[p] = "none"
    BY <2>1 DEF Reconnects, Calls
  <2>3. CASE phase' = "idle" /\ \A p \in Posts : pc'[p] = pc[p]
    BY <2>1, <2>2, <2>3 DEF Reconnects, Calls
  <2>4. CASE /\ op = "single" /\ phase' = "again"
             /\ \A p \in Posts : pc'[p] = IF p = input[1] THEN "permit" ELSE pc[p]
    <3>1. ToSet(input) = {input[1]} /\ Len(input) = 1
      BY <2>1, <2>4, OneInput DEF Reconnects, Calls
    <3>2. UNCHANGED << op, input, todo >> /\ pc'[Connect] = "none" /\ phase = "reconnect"
      BY <2>1 DEF Reconnects
    <3>3. QED
      BY <2>2, <2>4, <3>1, <3>2 DEF Calls
  <2>5. QED
    BY <2>1, <2>3, <2>4 DEF Reconnects
<1>10. CASE DropCall
  <2>1. phase' = "idle" /\ \A r \in Requests : pc'[r] = "none"
    BY <1>10 DEF DropCall
  <2>2. QED
    BY <1>a, <1>10, <2>1 DEF DropCall, Calls
<1>11. CASE Expire \/ UNCHANGED vars
  BY <1>11, <1>b DEF Expire, vars
<1>12. QED
  BY <1>1, <1>2, <1>3, <1>4, <1>5, <1>6, <1>7, <1>8, <1>9, <1>10, <1>11 DEF Next, OwnStep

(* Types and calls are right throughout. *)
LEMMA Invariants == Spec => [](TypeOK /\ Calls)
<1>1. Init => Calls
  BY SessionAssumption DEF Init, Calls, Requests
<1>2. QED
  BY <1>1, InitType, NextType, NextCalls, PTL DEF Spec
-----------------------------------------------------------------------------
(* A request that takes or gives back a permit changes the count of the    *)
(* holders by one.                                                         *)
LEMMA HoldersFinite == IsFiniteSet(Holders) /\ Cardinality(Holders) \in Nat
<1>1. IsFiniteSet(Holders)
  BY SessionAssumption, FS_Subset DEF Holders
<1>2. QED
  BY <1>1, FS_CardinalityType

(* A step of one post adds or removes one holder of a permit at most. *)
LEMMA HolderMoves ==
  ASSUME TypeOK, NEW p \in Posts, \A q \in Posts \ {p} : pc'[q] = pc[q]
  PROVE  LET held == pc[p] \in {"send", "sleep"}
             holds == pc'[p] \in {"send", "sleep"} IN
         /\ held /\ ~holds => Cardinality(Holders') = Cardinality(Holders) - 1
         /\ ~held /\ holds => Cardinality(Holders') = Cardinality(Holders) + 1
         /\ (held <=> holds) => Holders' = Holders
<1> DEFINE held  == pc[p] \in {"send", "sleep"}
           holds == pc'[p] \in {"send", "sleep"}
<1>1. IsFiniteSet(Holders)
  BY HoldersFinite
<1>2. ASSUME held, ~holds PROVE Cardinality(Holders') = Cardinality(Holders) - 1
  <2>1. Holders' = Holders \ {p} /\ p \in Holders
    BY <1>2 DEF Holders
  <2>2. QED
    BY <1>1, <2>1, FS_RemoveElement
<1>3. ASSUME ~held, holds PROVE Cardinality(Holders') = Cardinality(Holders) + 1
  <2>1. Holders' = Holders \cup {p} /\ p \notin Holders
    BY <1>3 DEF Holders
  <2>2. QED
    BY <1>1, <2>1, FS_AddElement
<1>4. ASSUME held <=> holds PROVE Holders' = Holders
  BY <1>4 DEF Holders
<1>5. QED
  BY <1>2, <1>3, <1>4

(* Every step keeps the permits accounted for. *)
LEMMA NextPermits ==
  TypeOK /\ Calls /\ PermitsAccounted /\ [Next]_vars => PermitsAccounted'
<1> SUFFICES ASSUME TypeOK, Calls, PermitsAccounted, [Next]_vars PROVE PermitsAccounted'
  OBVIOUS
<1>a. ASSUME Holders' = Holders, session'.permits = session.permits PROVE PermitsAccounted'
  BY <1>a DEF PermitsAccounted
<1>b. ASSUME UNCHANGED session, \A p \in Posts : pc'[p] = pc[p] PROVE PermitsAccounted'
  BY <1>a, <1>b DEF Holders
<1>c. Connect \in Requests /\ Connect \notin Posts /\ Posts \subseteq Requests
  BY SessionAssumption DEF Requests
<1>d. session.permits \in Nat /\ Cardinality(Holders) \in Nat
  BY HoldersFinite DEF TypeOK
<1>1. ASSUME Single \/ Batch PROVE PermitsAccounted'
  <2>1. PICK kind, posts : Started(kind, posts)
    BY <1>1, CallStarts
  <2>2. \A p \in Posts : pc[p] = "none" /\ pc'[p] \in {"permit", "none"}
    BY <2>1, StartEffect
  <2>3. Holders' = {} /\ Holders = {} /\ UNCHANGED session
    BY <2>1, <2>2 DEF Holders, Started, StartCall
  <2>4. QED
    BY <1>a, <2>3
<1>2. ASSUME NEW k \in Keys, RotateKey(k) PROVE PermitsAccounted'
  <2>1. UNCHANGED session /\ pc' = [pc EXCEPT ![Connect] = "send"]
    BY <1>2 DEF RotateKey, Reconnecting
  <2>2. QED
    BY <1>b, <1>c, <2>1 DEF TypeOK
<1>3. ASSUME NEW r \in Requests, Attempt(r) PROVE PermitsAccounted'
  <2>1. Attempted(r)
    BY <1>3, AttemptEffect
  <2>2. CASE r = Connect
    <3>1. \A p \in Posts : pc'[p] = pc[p]
      BY <1>c, <2>1, <2>2 DEF Attempted
    <3>2. session'.permits = session.permits
      BY <2>1, <2>2 DEF Attempted
    <3>3. Holders' = Holders
      BY <3>1 DEF Holders
    <3>4. QED
      BY <1>a, <3>2, <3>3
  <2>3. CASE r \in Posts
    <3>1. \A q \in Posts \ {r} : pc'[q] = pc[q]
      BY <1>c, <2>1 DEF Attempted
    <3>2. CASE pc'[r] = "sleep" /\ UNCHANGED session
      <4>1. Holders' = Holders
        BY <2>1, <2>3, <3>1, <3>2, HolderMoves DEF Attempted
      <4>2. QED
        BY <1>a, <3>2, <4>1
    <3>3. CASE pc'[r] = "done" /\ session'.permits = session.permits + 1
      <4>1. Cardinality(Holders') = Cardinality(Holders) - 1
        BY <2>1, <2>3, <3>1, <3>3, HolderMoves DEF Attempted
      <4>2. QED
        BY <1>d, <3>3, <4>1 DEF PermitsAccounted
    <3>4. QED
      BY <1>c, <2>1, <2>3, <3>2, <3>3 DEF Attempted
  <2>4. QED
    BY <2>2, <2>3 DEF Requests
<1>4. ASSUME NEW r \in Requests, Wake(r) PROVE PermitsAccounted'
  <2>1. UNCHANGED session /\ pc[r] = "sleep" /\ pc' = [pc EXCEPT ![r] = "send"]
    BY <1>4 DEF Wake
  <2>2. Holders' = Holders
    BY <1>c, <2>1 DEF Holders, TypeOK
  <2>3. QED
    BY <1>a, <2>1, <2>2
<1>5. ASSUME NEW p \in Posts, Acquire(p) PROVE PermitsAccounted'
  <2>1. /\ pc[p] = "permit" /\ pc'[p] = "send"
        /\ \A q \in Posts \ {p} : pc'[q] = pc[q]
        /\ session'.permits = session.permits - 1
    BY <1>5, <1>c DEF Acquire, TypeOK
  <2>2. Cardinality(Holders') = Cardinality(Holders) + 1
    BY <2>1, HolderMoves
  <2>3. QED
    BY <1>d, <2>1, <2>2 DEF PermitsAccounted
<1>6. ASSUME NEW p \in Posts, Join(p) PROVE PermitsAccounted'
  <2>1. UNCHANGED session /\ pc[p] = "done" /\ pc' = [pc EXCEPT ![p] = "none"]
    BY <1>6 DEF Join
  <2>2. Holders' = Holders
    BY <1>c, <2>1 DEF Holders, TypeOK
  <2>3. QED
    BY <1>a, <2>1, <2>2
<1>7. CASE SingleDone
  <2>1. PICK p \in Posts : SingleEnds(p)
    BY <1>7, SingleDoneEffect
  <2>2. Holders' = Holders /\ UNCHANGED session
    BY <2>1 DEF SingleEnds, Holders
  <2>3. QED
    BY <1>a, <2>2
<1>8. CASE BatchDone
  <2>1. UNCHANGED session /\ (pc' = [pc EXCEPT ![Connect] = "send"] \/ UNCHANGED pc)
    BY <1>8 DEF BatchDone, Reconnecting
  <2>2. QED
    BY <1>b, <1>c, <2>1 DEF TypeOK
<1>9. CASE Reconnected
  <2>1. Reconnects
    BY <1>9, ReconnectedEffect
  <2>2. \A p \in Posts : pc[p] = "none" /\ pc'[p] \in {"none", "permit"}
    BY <2>1 DEF Reconnects, Calls
  <2>3. Holders = {} /\ Holders' = {}
    BY <2>2 DEF Holders
  <2>4. session.permits = Limit
    BY <1>d, <2>3, FS_EmptySet DEF PermitsAccounted
  <2>5. session'.permits = session.permits
    BY <2>1, <2>4 DEF Reconnects, NewSession
  <2>6. QED
    BY <1>a, <2>3, <2>5
<1>10. CASE DropCall
  <2>1. \A p \in Posts : pc'[p] = "none"
    BY <1>10, <1>c DEF DropCall
  <2>2. Holders' = {} /\ Cardinality(Holders') = 0
    BY <2>1, FS_EmptySet DEF Holders
  <2>3. session'.permits = session.permits + Cardinality(Holders)
    BY <1>10 DEF DropCall, TypeOK
  <2>4. QED
    BY <1>d, <2>2, <2>3 DEF PermitsAccounted
<1>11. CASE Expire \/ UNCHANGED vars
  BY <1>11, <1>b DEF Expire, vars
<1>12. QED
  BY <1>1, <1>2, <1>3, <1>4, <1>5, <1>6, <1>7, <1>8, <1>9, <1>10, <1>11 DEF Next, OwnStep

(* Every permit is free or held by one running request, through retries,   *)
(* reconnections and dropped calls.                                        *)
THEOREM PermitsAreAccounted == Spec => []PermitsAccounted
<1>1. Init => PermitsAccounted
  <2> SUFFICES ASSUME Init PROVE PermitsAccounted
    OBVIOUS
  <2>1. \A p \in Posts : pc[p] = "none"
    BY DEF Init, Requests
  <2>2. Holders = {} /\ Cardinality(Holders) = 0
    BY <2>1, FS_EmptySet DEF Holders
  <2>3. session.permits = Limit /\ Limit \in Nat
    BY SessionAssumption DEF Init
  <2>4. QED
    BY <2>2, <2>3 DEF PermitsAccounted
<1>2. QED
  BY <1>1, NextPermits, Invariants, PTL DEF Spec
-----------------------------------------------------------------------------
(* A post that may still be sent has been done only with a lost answer; a  *)
(* refused one may be sent again after a reconnection.                     *)
Sendable(p) == \/ pc[p] \in {"permit", "send", "sleep"}
               \/ pc[p] = "done" /\ outcome[p] = "Unauthorized"

Repeats ==
  /\ \A p \in Posts :
       /\ applied[p] <= 1 + lost[p]
       /\ p \in todo => applied[p] = 0
       /\ Sendable(p) => applied[p] <= lost[p]
  /\ phase = "reconnect" /\ op = "single" => applied[input[1]] <= lost[input[1]]

(* What the site does with one post keeps the invariant. *)
LEMMA ServedRepeats ==
  ASSUME TypeOK, TypeOK', Calls, Repeats, NEW r \in Posts, Attempted(r), Served(r)
  PROVE  /\ applied'[r] <= 1 + lost'[r]
         /\ r \notin todo
         /\ Sendable(r)' => applied'[r] <= lost'[r]
<1>1. applied[r] \in Nat /\ lost[r] \in Nat /\ applied'[r] \in Nat /\ lost'[r] \in Nat
  BY DEF TypeOK
<1>2. r # Connect /\ applied[r] <= lost[r] /\ r \notin todo
  BY SessionAssumption DEF Attempted, Repeats, Sendable, Calls
<1>3. CASE UNCHANGED << applied, lost >>
  BY <1>1, <1>2, <1>3
<1>4. CASE /\ applied'[r] = applied[r] + 1 /\ lost'[r] = lost[r]
           /\ pc'[r] = "done" /\ outcome'[r] \in {"Ok", "Failed"}
  BY <1>1, <1>2, <1>4 DEF Sendable
<1>5. CASE applied'[r] = applied[r] + 1 /\ lost'[r] = lost[r] + 1
  BY <1>1, <1>2, <1>5
<1>6. QED
  BY <1>2, <1>3, <1>4, <1>5 DEF Served

(* Every step keeps it. *)
LEMMA NextRepeats == TypeOK /\ TypeOK' /\ Calls /\ Repeats /\ [Next]_vars => Repeats'
<1> SUFFICES ASSUME TypeOK, TypeOK', Calls, Repeats, [Next]_vars PROVE Repeats'
  OBVIOUS
<1>a. Connect \in Requests /\ Connect \notin Posts /\ Posts \subseteq Requests
  BY SessionAssumption DEF Requests
<1>b. ASSUME UNCHANGED << applied, lost, todo >>,
             \A p \in Posts : Sendable(p)' => applied[p] <= lost[p],
             phase' = "reconnect" /\ op' = "single" => applied[input'[1]] <= lost[input'[1]]
      PROVE  Repeats'
  BY <1>b DEF Repeats
<1>1. ASSUME Single \/ Batch PROVE Repeats'
  <2>1. PICK kind, posts : Started(kind, posts)
    BY <1>1, CallStarts
  <2>2. /\ ToSet(posts) \subseteq todo /\ todo' = todo \ ToSet(posts)
        /\ UNCHANGED << applied, lost >> /\ phase' = "request"
    BY <2>1 DEF Started, StartCall
  <2>3. \A p \in Posts : pc'[p] = IF p \in ToSet(posts) THEN "permit" ELSE "none"
    BY <2>1, StartEffect
  <2>4. \A p \in Posts : Sendable(p)' => p \in todo
    BY <2>2, <2>3 DEF Sendable
  <2>5. \A p \in Posts : p \in todo => applied[p] <= lost[p]
    BY DEF Repeats, TypeOK
  <2>6. QED
    BY <2>2, <2>4, <2>5 DEF Repeats
<1>2. ASSUME NEW k \in Keys, RotateKey(k) PROVE Repeats'
  <2>1. /\ op' = "rotate" /\ UNCHANGED << applied, lost, todo, outcome >>
        /\ pc' = [pc EXCEPT ![Connect] = "send"]
    BY <1>2 DEF RotateKey, Reconnecting
  <2>2. \A p \in Posts : Sendable(p)' => Sendable(p)
    BY <1>a, <2>1 DEF Sendable, TypeOK
  <2>3. QED
    BY <1>b, <2>1, <2>2 DEF Repeats
<1>3. ASSUME NEW r \in Requests, Attempt(r) PROVE Repeats'
  <2>1. Attempted(r) /\ Served(r)
    BY <1>3, AttemptEffect
  <2>2. /\ UNCHANGED << phase, op, input, todo >>
        /\ \A p \in Posts \ {r} : /\ applied'[p] = applied[p] /\ lost'[p] = lost[p]
                                  /\ Sendable(p)' => Sendable(p)
    BY <1>a, <2>1 DEF Attempted, Served, Sendable
  <2>3. \A p \in Posts \ {r} :
          /\ applied'[p] <= 1 + lost'[p]
          /\ p \in todo' => applied'[p] = 0
          /\ Sendable(p)' => applied'[p] <= lost'[p]
    BY <2>2 DEF Repeats
  <2>4. CASE r = Connect
    <3>1. \A p \in Posts :
            /\ applied'[p] <= 1 + lost'[p]
            /\ p \in todo' => applied'[p] = 0
            /\ Sendable(p)' => applied'[p] <= lost'[p]
      BY <1>a, <2>3, <2>4
    <3>2. UNCHANGED << applied, lost >>
      BY <2>1, <2>4 DEF Served
    <3>3. QED
      BY <2>2, <3>1, <3>2 DEF Repeats
  <2>5. CASE r \in Posts
    <3>1. phase # "reconnect"
      BY <2>1, <2>5 DEF Attempted, Calls
    <3>2. /\ applied'[r] <= 1 + lost'[r]
          /\ r \in todo' => applied'[r] = 0
          /\ Sendable(r)' => applied'[r] <= lost'[r]
      BY <2>1, <2>2, <2>5, ServedRepeats
    <3>3. QED
      BY <2>2, <2>3, <3>1, <3>2 DEF Repeats
  <2>6. QED
    BY <2>4, <2>5 DEF Requests
<1>4. ASSUME NEW r \in Requests, Wake(r) PROVE Repeats'
  <2>1. /\ UNCHANGED << applied, lost, todo, phase, op, input, outcome >>
        /\ pc[r] = "sleep" /\ pc' = [pc EXCEPT ![r] = "send"]
    BY <1>4 DEF Wake
  <2>2. \A p \in Posts : Sendable(p)' => Sendable(p)
    BY <1>a, <2>1 DEF Sendable, TypeOK
  <2>3. QED
    BY <1>b, <2>1, <2>2 DEF Repeats
<1>5. ASSUME NEW q \in Posts, Acquire(q) PROVE Repeats'
  <2>1. /\ UNCHANGED << applied, lost, todo, phase, op, input, outcome >>
        /\ pc[q] = "permit" /\ pc' = [pc EXCEPT ![q] = "send"]
    BY <1>5 DEF Acquire
  <2>2. \A p \in Posts : Sendable(p)' => Sendable(p)
    BY <1>a, <2>1 DEF Sendable, TypeOK
  <2>3. QED
    BY <1>b, <2>1, <2>2 DEF Repeats
<1>6. ASSUME NEW q \in Posts, Join(q) PROVE Repeats'
  <2>1. /\ UNCHANGED << applied, lost, todo, phase, op, input >>
        /\ outcome' = [outcome EXCEPT ![q] = "none"]
        /\ pc' = [pc EXCEPT ![q] = "none"]
    BY <1>6 DEF Join, Take
  <2>2. \A p \in Posts : Sendable(p)' => Sendable(p)
    BY <1>a, <2>1 DEF Sendable, TypeOK
  <2>3. QED
    BY <1>b, <2>1, <2>2 DEF Repeats
<1>7. CASE SingleDone
  <2>1. PICK q \in Posts : SingleEnds(q)
    BY <1>7, SingleDoneEffect
  <2>2. UNCHANGED << applied, lost, todo, op, input >>
    BY <2>1 DEF SingleEnds
  <2>3. \A p \in Posts : Sendable(p)' => Sendable(p)
    BY <1>a, <2>1 DEF SingleEnds, Sendable, TypeOK
  <2>4. phase' = "reconnect" => applied[input'[1]] <= lost[input'[1]]
    BY <2>1 DEF SingleEnds, Repeats, Sendable
  <2>5. QED
    BY <1>b, <2>2, <2>3, <2>4 DEF Repeats
<1>8. CASE BatchDone
  <2>1. /\ UNCHANGED << applied, lost, todo, op, outcome >> /\ op # "single"
        /\ pc' = [pc EXCEPT ![Connect] = "send"] \/ UNCHANGED pc
    BY <1>8 DEF BatchDone, Reconnecting
  <2>2. \A p \in Posts : Sendable(p)' => Sendable(p)
    BY <1>a, <2>1 DEF Sendable, TypeOK
  <2>3. QED
    BY <1>b, <2>1, <2>2 DEF Repeats
<1>9. CASE Reconnected
  <2>1. Reconnects
    BY <1>9, ReconnectedEffect
  <2>2. /\ UNCHANGED << applied, lost, todo, op, input >> /\ phase = "reconnect"
        /\ phase' # "reconnect"
    BY <2>1 DEF Reconnects
  <2>3. \A p \in Posts : pc[p] = "none"
    BY <2>2 DEF Calls
  <2>4. \A p \in Posts : Sendable(p)' => op = "single" /\ p = input[1]
    BY <2>1, <2>3 DEF Reconnects, Sendable
  <2>5. QED
    BY <1>b, <2>2, <2>4 DEF Repeats
<1>10. CASE DropCall
  <2>1. UNCHANGED << applied, lost, todo >> /\ phase' = "idle"
    BY <1>10 DEF DropCall
  <2>2. \A p \in Posts : pc'[p] = "none"
    BY <1>10, <1>a DEF DropCall
  <2>3. QED
    BY <1>b, <2>1, <2>2 DEF Sendable
<1>11. CASE Expire \/ UNCHANGED vars
  <2>1. UNCHANGED << applied, lost, todo, op, input, phase, pc, outcome >>
    BY <1>11 DEF Expire, vars
  <2>2. QED
    BY <2>1 DEF Repeats, Sendable
<1>12. QED
  BY <1>1, <1>2, <1>3, <1>4, <1>5, <1>6, <1>7, <1>8, <1>9, <1>10, <1>11 DEF Next, OwnStep

(* A post is done twice only if the answer to the first was lost on the    *)
(* way.                                                                    *)
THEOREM RepeatedIsLost == Spec => []RepeatedOnlyWhenLost
<1>1. Init => Repeats
  <2> SUFFICES ASSUME Init PROVE Repeats
    OBVIOUS
  <2>1. /\ \A p \in Posts : applied[p] = 0 /\ lost[p] = 0 /\ pc[p] = "none"
        /\ phase = "idle"
    BY DEF Init, Requests
  <2>2. QED
    BY <2>1 DEF Repeats, Sendable
<1>2. Repeats => RepeatedOnlyWhenLost
  BY DEF Repeats, RepeatedOnlyWhenLost
<1>3. QED
  BY <1>1, <1>2, NextRepeats, Invariants, PTL DEF Spec
-----------------------------------------------------------------------------
(* Which sessions the site has refused during a call: a post that ends     *)
(* unauthorized was refused in this session, a connection the next one.    *)
RefusedTwice == \E n, m \in refused : n < m

Refusals ==
  /\ \A n \in refused : n <= session.number + 1
  /\ \A p \in Posts : pc[p] = "done" /\ outcome[p] = "Unauthorized" => session.number \in refused
  /\ pc[Connect] = "done" /\ outcome[Connect] = "Unauthorized" =>
       session.number + 1 \in refused
  /\ phase = "again" => \E n \in refused : n < session.number
  /\ phase = "reconnect" /\ op = "single" => session.number \in refused
  /\ phase = "idle" /\ op = "single" /\ answer = "Unauthorized" => RefusedTwice

(* An attempt that ends unauthorized is noted as a refusal. *)
LEMMA AttemptRefusal ==
  ASSUME TypeOK, NEW r \in Requests, Attempt(r)
  PROVE  LET one == IF r = Connect THEN session.number + 1 ELSE session.number IN
         /\ refused \subseteq refused' /\ refused' \subseteq refused \cup {one}
         /\ pc'[r] = "done" /\ outcome'[r] = "Unauthorized" => one \in refused'
<1>1. CASE IsRefused(r)
  BY <1>1 DEF IsRefused
<1>2. CASE ~IsRefused(r)
  <2>1. UNCHANGED refused
    BY <1>2 DEF Attempt, Succeeds, FailsForGood, FailsForNow
  <2>2. \/ \E out \in {"Ok", "Failed"} : End(r, out)
        \/ pc' = [pc EXCEPT ![r] = "sleep"] /\ UNCHANGED outcome
    BY <1>2 DEF Attempt, Succeeds, FailsForGood, FailsForNow, TryAgain
  <2>3. CASE \E out \in {"Ok", "Failed"} : End(r, out)
    <3>1. outcome'[r] \in {"Ok", "Failed"}
      BY <2>3, EndEffect DEF Outcomes
    <3>2. QED
      BY <2>1, <3>1
  <2>4. CASE pc' = [pc EXCEPT ![r] = "sleep"] /\ UNCHANGED outcome
    <3>1. pc'[r] = "sleep"
      BY <2>4 DEF TypeOK
    <3>2. QED
      BY <2>1, <2>4, <3>1
  <2>5. QED
    BY <2>2, <2>3, <2>4
<1>3. QED
  BY <1>1, <1>2

(* Every step keeps it. *)
LEMMA NextRefusals ==
  ASSUME TypeOK, Calls, Refusals, [Next]_vars
  PROVE  Refusals'
<1>a. Connect \in Requests /\ Connect \notin Posts /\ Posts \subseteq Requests
  BY SessionAssumption DEF Requests
<1>b. ASSUME UNCHANGED << refused, session, phase, op, answer >>,
             \A r \in Requests : \/ outcome'[r] = outcome[r] /\ (pc'[r] = "done" => pc[r] = "done")
                                 \/ outcome'[r] = "none"
      PROVE  Refusals'
  BY <1>a, <1>b DEF Refusals, RefusedTwice
<1>1. ASSUME Single \/ Batch PROVE Refusals'
  <2>1. PICK kind, posts : Started(kind, posts)
    BY <1>1, CallStarts
  <2>2. phase' = "request" /\ refused' = {} /\ UNCHANGED outcome
    BY <2>1 DEF Started, StartCall
  <2>3. /\ \A p \in Posts : pc'[p] \in {"permit", "none"}
        /\ pc'[Connect] = pc[Connect] /\ phase = "idle"
    BY <2>1, StartEffect DEF Started, StartCall
  <2>4. QED
    BY <2>2, <2>3 DEF Refusals, Calls
<1>2. ASSUME NEW k \in Keys, RotateKey(k) PROVE Refusals'
  <2>1. /\ op' = "rotate" /\ phase' = "reconnect" /\ refused' = {} /\ UNCHANGED outcome
        /\ pc' = [pc EXCEPT ![Connect] = "send"] /\ phase = "idle"
    BY <1>2 DEF RotateKey, Reconnecting
  <2>2. pc'[Connect] = "send" /\ \A p \in Posts : pc'[p] = "none"
    BY <1>a, <2>1 DEF Calls, TypeOK
  <2>3. QED
    BY <2>1, <2>2 DEF Refusals
<1>3. ASSUME NEW r \in Requests, Attempt(r) PROVE Refusals'
  <2>1. /\ pc[r] = "send" /\ UNCHANGED << phase, op, answer >>
        /\ session'.number = session.number
        /\ \A q \in Requests \ {r} : pc'[q] = pc[q] /\ outcome'[q] = outcome[q]
    BY <1>3, AttemptEffect DEF Attempted
  <2>2. LET one == IF r = Connect THEN session.number + 1 ELSE session.number IN
        /\ refused \subseteq refused' /\ refused' \subseteq refused \cup {one}
        /\ pc'[r] = "done" /\ outcome'[r] = "Unauthorized" => one \in refused'
    BY <1>3, AttemptRefusal
  <2>3. phase # "idle"
    BY <1>a, <2>1 DEF Calls, Requests
  <2>4. \A n \in refused' : n <= session'.number + 1
    <3>1. /\ session.number <= session.number + 1
          /\ session.number + 1 <= session.number + 1
      BY DEF TypeOK
    <3>2. QED
      BY <2>1, <2>2, <3>1 DEF Refusals
  <2>5. \A p \in Posts : pc'[p] = "done" /\ outcome'[p] = "Unauthorized" =>
          session'.number \in refused'
    BY <1>a, <2>1, <2>2 DEF Refusals
  <2>6. pc'[Connect] = "done" /\ outcome'[Connect] = "Unauthorized" =>
          session'.number + 1 \in refused'
    BY <1>a, <2>1, <2>2 DEF Refusals
  <2>7. /\ phase' = "again" => \E n \in refused' : n < session'.number
        /\ phase' = "reconnect" /\ op' = "single" => session'.number \in refused'
    BY <2>1, <2>2 DEF Refusals
  <2>8. QED
    BY <2>1, <2>3, <2>4, <2>5, <2>6, <2>7 DEF Refusals
<1>4. ASSUME NEW r \in Requests, Wake(r) PROVE Refusals'
  BY <1>4, <1>b DEF Wake, TypeOK
<1>5. ASSUME NEW q \in Posts, Acquire(q) PROVE Refusals'
  <2>1. /\ UNCHANGED << refused, phase, op, answer, outcome >>
        /\ session'.number = session.number
        /\ \A r \in Requests : pc'[r] = "done" => pc[r] = "done"
    BY <1>5, <1>a DEF Acquire, TypeOK
  <2>2. QED
    BY <1>a, <2>1 DEF Refusals, RefusedTwice
<1>6. ASSUME NEW q \in Posts, Join(q) PROVE Refusals'
  <2>1. /\ UNCHANGED << refused, session, phase, op, answer >>
        /\ \A r \in Requests : \/ outcome'[r] = outcome[r] /\ pc'[r] = pc[r]
                               \/ outcome'[r] = "none"
    BY <1>6, <1>a DEF Join, Take, TypeOK
  <2>2. QED
    BY <1>b, <2>1
<1>7. CASE SingleDone
  <2>1. PICK q \in Posts : SingleEnds(q)
    BY <1>7, SingleDoneEffect
  <2>2. UNCHANGED << refused, session, op >>
    BY <2>1 DEF SingleEnds
  <2>3. \A r \in Requests : outcome'[r] = outcome[r] \/ outcome'[r] = "none"
    BY <2>1 DEF SingleEnds, TypeOK
  <2>4. \A p \in Posts : pc'[p] = "done" => pc[p] = "done" /\ p # q
    BY <2>1 DEF SingleEnds
  <2>5. \A p \in Posts \ {q} : outcome'[p] = outcome[p]
    BY <2>1, <1>a DEF SingleEnds, TypeOK
  <2>6. outcome[q] = "Unauthorized" => session.number \in refused
    BY <2>1 DEF SingleEnds, Refusals
  <2>7. pc'[Connect] # "done"
    <3>1. pc[Connect] = "none"
      BY <1>a, <2>1 DEF SingleEnds, Calls
    <3>2. pc' = [[pc EXCEPT ![q] = "none"] EXCEPT ![Connect] = "send"]
          \/ pc' = [pc EXCEPT ![q] = "none"]
      BY <1>7, <2>1 DEF SingleDone, SingleEnds, Reconnecting
    <3>3. QED
      BY <1>a, <3>1, <3>2 DEF TypeOK
  <2>8. CASE outcome[q] = "Unauthorized" /\ phase = "request" /\ phase' = "reconnect"
    BY <2>2, <2>3, <2>4, <2>5, <2>6, <2>7, <2>8 DEF Refusals
  <2>9. CASE /\ ~(outcome[q] = "Unauthorized" /\ phase = "request")
             /\ phase' = "idle" /\ answer' = outcome[q]
    <3>1. outcome[q] = "Unauthorized" => RefusedTwice
      <4>1. ASSUME outcome[q] = "Unauthorized" PROVE RefusedTwice
        <5>1. PICK n \in refused : n < session.number
          BY <2>1, <2>9, <4>1 DEF SingleEnds, Refusals
        <5>2. QED
          BY <2>6, <4>1, <5>1 DEF RefusedTwice
      <4>2. QED
        BY <4>1
    <3>2. QED
      BY <2>2, <2>3, <2>4, <2>5, <2>7, <2>9, <3>1 DEF Refusals, RefusedTwice
  <2>10. QED
    BY <2>1, <2>8, <2>9 DEF SingleEnds
<1>8. CASE BatchDone
  <2>1. /\ UNCHANGED << refused, session, op, outcome >> /\ op # "single"
        /\ phase' \in {"idle", "reconnect"}
        /\ pc' = [pc EXCEPT ![Connect] = "send"] \/ UNCHANGED pc
    BY <1>8 DEF BatchDone, Reconnecting, Return
  <2>2. /\ \A p \in Posts : pc'[p] = pc[p]
        /\ pc'[Connect] = "done" => pc[Connect] = "done"
    BY <1>a, <2>1 DEF TypeOK
  <2>3. QED
    BY <2>1, <2>2 DEF Refusals
<1>9. CASE Reconnected
  <2>1. Reconnects
    BY <1>9, ReconnectedEffect
  <2>2. /\ UNCHANGED << refused, op >> /\ phase = "reconnect"
        /\ \A r \in Requests : outcome'[r] = outcome[r] \/ outcome'[r] = "none"
    BY <2>1, <1>a DEF Reconnects, TypeOK
  <2>3. pc'[Connect] # "done" /\ \A p \in Posts : pc'[p] # "done"
    BY <2>1, <2>2 DEF Calls, Reconnects
  <2>4. session.number \in Nat /\ refused \subseteq Nat
    BY DEF TypeOK
  <2>5. CASE /\ answer' = outcome[Connect] /\ phase' = "idle" /\ UNCHANGED session
    <3>1. op = "single" /\ answer' = "Unauthorized" => RefusedTwice'
      <4>1. ASSUME op = "single", answer' = "Unauthorized" PROVE RefusedTwice'
        <5>1. session.number \in refused /\ session.number + 1 \in refused
          BY <2>1, <2>5, <4>1 DEF Reconnects, Refusals
        <5>2. session.number < session.number + 1
          BY <2>4
        <5>3. QED
          BY <2>2, <5>1, <5>2 DEF RefusedTwice
      <4>2. QED
        BY <4>1
    <3>2. QED
      BY <2>2, <2>3, <2>5, <3>1 DEF Refusals
  <2>6. CASE /\ NewSession
             /\ \/ op # "single" /\ phase' = "idle"
                \/ op = "single" /\ phase' = "again"
    <3>1. session'.number = session.number + 1
      BY <2>6 DEF NewSession
    <3>2. \A n \in refused : n \in Nat /\ n <= session.number + 1
      BY <2>4 DEF Refusals
    <3>3. session.number < session'.number /\ \A n \in refused' : n <= session'.number + 1
      BY <2>2, <2>4, <3>1, <3>2
    <3>4. phase' = "again" => session.number \in refused'
      BY <2>1, <2>2, <2>6 DEF Reconnects, Refusals
    <3>5. QED
      BY <2>2, <2>3, <2>6, <3>3, <3>4 DEF Refusals
  <2>7. QED
    BY <2>1, <2>5, <2>6 DEF Reconnects
<1>10. CASE DropCall
  <2>1. /\ UNCHANGED refused /\ phase' = "idle" /\ answer' = "dropped"
        /\ session'.number = session.number
        /\ \A r \in Requests : pc'[r] = "none" /\ outcome'[r] = "none"
    BY <1>10 DEF DropCall, TypeOK
  <2>2. QED
    BY <1>a, <2>1 DEF Refusals
<1>11. CASE Expire \/ UNCHANGED vars
  <2>1. UNCHANGED << refused, session, phase, op, answer, outcome, pc >>
    BY <1>11 DEF Expire, vars
  <2>2. QED
    BY <1>b, <2>1
<1>12. QED
  BY <1>1, <1>2, <1>3, <1>4, <1>5, <1>6, <1>7, <1>8, <1>9, <1>10, <1>11 DEF Next, OwnStep

(* An authorisation error reaches the caller of one request only if the    *)
(* site refused the old session and then the new one, or its connection:   *)
(* one expired session alone never shows, whichever statuses the site uses.*)
THEOREM OnlyTwiceRefused == Spec => []RefusedOnlyTwice
<1>1. Init => Refusals
  <2> SUFFICES ASSUME Init PROVE Refusals
    OBVIOUS
  <2>1. /\ refused = {} /\ phase = "idle" /\ answer = "none"
        /\ \A r \in Requests : pc[r] = "none" /\ outcome[r] = "none"
    BY DEF Init
  <2>2. QED
    BY <2>1 DEF Refusals, Requests
<1>2. TypeOK /\ Refusals => RefusedOnlyTwice
  <2> SUFFICES ASSUME TypeOK, Refusals, RefusedTwice PROVE Cardinality(refused) >= 2
    BY DEF RefusedOnlyTwice, Refusals
  <2>1. PICK n \in refused, m \in refused : n < m
    BY DEF RefusedTwice
  <2>2. IsFiniteSet(refused)
    <3>1. refused \in SUBSET Nat /\ session.number \in Nat
          /\ session.number + 1 \in Nat /\ \A k \in refused : k <= session.number + 1
      BY DEF TypeOK, Refusals
    <3>2. QED
      BY <3>1, FS_BoundedSetOfNaturals
  <2>3. n # m
    BY <2>1 DEF TypeOK
  <2>4. Cardinality({n}) = 1 /\ IsFiniteSet({n})
    BY FS_Singleton
  <2>5. Cardinality({n} \cup {m}) = 2
    BY <2>3, <2>4, FS_AddElement
  <2>6. {n} \cup {m} \in SUBSET refused
    OBVIOUS
  <2>7. Cardinality({n} \cup {m}) <= Cardinality(refused)
    BY <2>2, <2>6, FS_Subset
  <2>8. Cardinality(refused) \in Nat
    BY <2>2, FS_CardinalityType
  <2>9. QED
    BY <2>5, <2>7, <2>8
<1>3. TypeOK /\ Calls /\ Refusals /\ [Next]_vars => Refusals'
  BY NextRefusals
<1>4. QED
  BY <1>1, <1>2, <1>3, Invariants, PTL DEF Spec
-----------------------------------------------------------------------------
(* The posts of a batch are those that have been joined and those that     *)
(* run, each once.                                                         *)
Joined  == {results[i][1] : i \in DOMAIN results}
Running == {p \in Posts : pc[p] # "none"}

BatchAnswers ==
  /\ Joined \cup Running = ToSet(input) /\ Joined \cap Running = {}
  /\ \A i, j \in DOMAIN results : results[i][1] = results[j][1] => i = j
  /\ \A i, j \in DOMAIN input : input[i] = input[j] => i = j
  /\ \A i \in DOMAIN results : results[i][2] = "Ok" => applied[results[i][1]] >= 1

InBatch == op \in {"batch", "session_batch"} /\ (phase = "idle" => answer = "Ok")

Answered ==
  /\ \A p \in Posts : pc[p] = "done" /\ outcome[p] = "Ok" => applied[p] >= 1
  /\ op = "single" /\ phase = "idle" /\ answer = "Ok" => applied[input[1]] >= 1
  /\ InBatch => BatchAnswers

(* What the site has done stays done, and a post that succeeds is done.    *)
LEMMA ServedAnswers ==
  ASSUME TypeOK, NEW r \in Requests, Attempt(r)
  PROVE  /\ \A p \in Posts : applied[p] >= 1 => applied'[p] >= 1
         /\ r # Connect /\ pc'[r] = "done" /\ outcome'[r] = "Ok" => applied'[r] >= 1
<1>1. Served(r) /\ \A p \in Posts : applied[p] \in Nat
  BY AttemptEffect DEF TypeOK
<1>2. \A p \in Posts : p = r => p # Connect
  BY SessionAssumption
<1>3. r # Connect => r \in Posts
  BY DEF Requests
<1>4. \A p \in Posts : applied'[p] = applied[p] \/ applied'[p] = applied[p] + 1
  BY <1>1, <1>2 DEF Served
<1>5. \A p \in Posts : applied[p] >= 1 => applied'[p] >= 1
  BY <1>1, <1>4
<1>6. ASSUME r # Connect, pc'[r] = "done", outcome'[r] = "Ok" PROVE applied'[r] >= 1
  <2>1. applied'[r] = applied[r] + 1 /\ applied[r] \in Nat
    BY <1>1, <1>3, <1>6 DEF Served
  <2>2. QED
    BY <2>1
<1>7. QED
  BY <1>5, <1>6

(* Taking a result from its task moves its post among the joined ones.     *)
LEMMA JoinAnswers ==
  ASSUME TypeOK, BatchAnswers, NEW q \in Posts, Join(q),
         outcome[q] = "Ok" => applied[q] >= 1
  PROVE  BatchAnswers'
<1> DEFINE n == Len(results)
<1>1. /\ pc[q] = "done" /\ pc' = [pc EXCEPT ![q] = "none"]
      /\ results' = Append(results, << q, outcome[q] >>)
      /\ UNCHANGED << input, applied >>
  BY DEF Join
<1>2. Running' = Running \ {q} /\ q \in Running
  <2>1. \A p \in Posts : p \in Requests
    BY DEF Requests
  <2>2. QED
    BY <1>1, <2>1 DEF Running, TypeOK
<1>3. /\ n \in Nat /\ DOMAIN results = 1..n /\ DOMAIN results' = 1..(n + 1)
      /\ \A i \in 1..n : results'[i] = results[i]
      /\ results'[n + 1] = << q, outcome[q] >>
  BY <1>1 DEF TypeOK
<1>4. results'[n + 1][1] = q /\ results'[n + 1][2] = outcome[q]
  BY <1>3
<1>5. \A i \in 1..(n + 1) : i \in 1..n \/ i = n + 1
  BY <1>3
<1>6. n + 1 \in 1..(n + 1) /\ 1..n \subseteq 1..(n + 1)
  BY <1>3
<1> HIDE DEF n
<1>7. Joined' = Joined \cup {q}
  BY <1>3, <1>4, <1>5, <1>6 DEF Joined
<1>8. \A i \in 1..n : results[i][1] # q
  BY <1>2, <1>3 DEF BatchAnswers, Joined
<1>9. \A i, j \in DOMAIN results' : results'[i][1] = results'[j][1] => i = j
  BY <1>3, <1>4, <1>5, <1>8 DEF BatchAnswers
<1>10. \A i \in DOMAIN results' : results'[i][2] = "Ok" => applied'[results'[i][1]] >= 1
  BY <1>1, <1>3, <1>4, <1>5 DEF BatchAnswers
<1>11. Joined' \cup Running' = ToSet(input') /\ Joined' \cap Running' = {}
  BY <1>1, <1>2, <1>7 DEF BatchAnswers
<1>12. QED
  BY <1>1, <1>9, <1>10, <1>11 DEF BatchAnswers

(* Every step keeps it. *)
LEMMA NextAnswered == TypeOK /\ Calls /\ Answered /\ [Next]_vars => Answered'
<1> SUFFICES ASSUME TypeOK, Calls, Answered, [Next]_vars PROVE Answered'
  OBVIOUS
<1>a. Connect \in Requests /\ Connect \notin Posts /\ Posts \subseteq Requests
  BY SessionAssumption DEF Requests
<1>b. ASSUME UNCHANGED << op, input, phase, answer, results >>,
             \A p \in Posts : pc'[p] = "none" <=> pc[p] = "none",
             \A p \in Posts : applied[p] >= 1 => applied'[p] >= 1,
             \A p \in Posts : pc'[p] = "done" /\ outcome'[p] = "Ok" => applied'[p] >= 1,
             phase # "idle" \/ UNCHANGED applied
      PROVE  Answered'
  <2>1. UNCHANGED InBatch /\ UNCHANGED Joined /\ UNCHANGED Running
    BY <1>b DEF InBatch, Joined, Running
  <2>2. \A i \in DOMAIN results : results[i][1] \in Posts
    BY DEF TypeOK
  <2>3. BatchAnswers => BatchAnswers'
    BY <1>b, <2>1, <2>2 DEF BatchAnswers
  <2>4. QED
    BY <1>b, <2>1, <2>3 DEF Answered
<1>1. ASSUME Single \/ Batch PROVE Answered'
  <2>1. PICK kind, posts : Started(kind, posts)
    BY <1>1, CallStarts
  <2>2. /\ phase' = "request" /\ results' = << >> /\ input' = posts
        /\ posts \in Seq(Posts) /\ ToSet(posts) \subseteq Posts
        /\ \A i, j \in DOMAIN posts : posts[i] = posts[j] => i = j
    BY <2>1 DEF Started, StartCall, TypeOK
  <2>3. \A p \in Posts : pc'[p] = IF p \in ToSet(posts) THEN "permit" ELSE "none"
    BY <2>1, StartEffect
  <2>4. Joined' = {} /\ DOMAIN results' = {}
    BY <2>2 DEF Joined
  <2>5. Running' = ToSet(posts)
    BY <2>2, <2>3 DEF Running
  <2>6. BatchAnswers'
    BY <2>2, <2>4, <2>5 DEF BatchAnswers
  <2>7. QED
    BY <2>2, <2>3, <2>6 DEF Answered
<1>2. ASSUME NEW k \in Keys, RotateKey(k) PROVE Answered'
  <2>1. /\ op' = "rotate" /\ UNCHANGED << applied, outcome >>
        /\ pc' = [pc EXCEPT ![Connect] = "send"]
    BY <1>2 DEF RotateKey, Reconnecting
  <2>2. \A p \in Posts : pc'[p] = pc[p]
    BY <1>a, <2>1 DEF TypeOK
  <2>3. QED
    BY <2>1, <2>2 DEF Answered, InBatch
<1>3. ASSUME NEW r \in Requests, Attempt(r) PROVE Answered'
  <2>1. Attempted(r)
    BY <1>3, AttemptEffect
  <2>2. /\ \A p \in Posts : pc'[p] = "none" <=> pc[p] = "none"
        /\ UNCHANGED << op, input, phase, answer, results >>
    BY <1>a, <2>1 DEF Attempted
  <2>3. \A p \in Posts : pc'[p] = "done" /\ outcome'[p] = "Ok" => applied'[p] >= 1
    BY <1>3, <1>a, <2>1, ServedAnswers DEF Attempted, Answered
  <2>4. phase # "idle"
    BY <1>a, <2>1 DEF Attempted, Calls, Requests
  <2>5. QED
    BY <1>3, <1>b, <2>2, <2>3, <2>4, ServedAnswers
<1>4. ASSUME NEW r \in Requests, Wake(r) \/ (r \in Posts /\ Acquire(r)) PROVE Answered'
  <2>1. /\ pc[r] \in {"sleep", "permit"} /\ pc' = [pc EXCEPT ![r] = "send"]
        /\ UNCHANGED << op, input, phase, answer, results, applied, outcome >>
    BY <1>4 DEF Wake, Acquire
  <2>2. \A p \in Posts : /\ pc'[p] = "none" <=> pc[p] = "none"
                         /\ pc'[p] = "done" => pc[p] = "done"
    BY <1>a, <2>1 DEF TypeOK
  <2>3. QED
    BY <1>b, <2>1, <2>2 DEF Answered
<1>5. ASSUME NEW q \in Posts, Join(q) PROVE Answered'
  <2>1. /\ op \in {"batch", "session_batch"} /\ phase = "request" /\ pc[q] = "done"
        /\ pc' = [pc EXCEPT ![q] = "none"] /\ outcome' = [outcome EXCEPT ![q] = "none"]
        /\ UNCHANGED << op, input, phase, answer, applied >>
    BY <1>5 DEF Join, Take
  <2>2. BatchAnswers'
    BY <1>5, <2>1, JoinAnswers DEF Answered, InBatch
  <2>3. \A p \in Posts : pc'[p] = "done" => p # q /\ pc[p] = "done" /\ outcome'[p] = outcome[p]
    BY <1>a, <2>1 DEF TypeOK
  <2>4. QED
    BY <2>1, <2>2, <2>3 DEF Answered
<1>6. CASE SingleDone
  <2>1. PICK q \in Posts : SingleEnds(q)
    BY <1>6, SingleDoneEffect
  <2>2. /\ op' = "single" /\ UNCHANGED << applied, input >> /\ q = input[1]
        /\ pc[q] = "done" /\ phase' = "idle" => answer' = outcome[q]
    BY <2>1 DEF SingleEnds
  <2>3. \A p \in Posts : pc'[p] = "done" => p # q /\ pc[p] = "done" /\ outcome'[p] = outcome[p]
    BY <1>a, <2>1 DEF SingleEnds, TypeOK
  <2>4. pc[q] = "done"
    BY <2>1 DEF SingleEnds
  <2>5. QED
    BY <2>2, <2>3, <2>4 DEF Answered, InBatch
<1>7. CASE BatchDone
  <2>1. /\ op \in {"batch", "session_batch"} /\ phase = "request"
        /\ UNCHANGED << op, input, results, outcome, applied >>
        /\ pc' = [pc EXCEPT ![Connect] = "send"] \/ UNCHANGED pc
    BY <1>7 DEF BatchDone, Reconnecting
  <2>2. \A p \in Posts : pc'[p] = pc[p]
    BY <1>a, <2>1 DEF TypeOK
  <2>3. UNCHANGED Joined /\ UNCHANGED Running
    BY <2>1, <2>2 DEF Joined, Running
  <2>4. BatchAnswers'
    BY <2>1, <2>3 DEF Answered, InBatch, BatchAnswers
  <2>5. QED
    BY <2>1, <2>2, <2>4 DEF Answered
<1>8. CASE Reconnected
  <2>1. Reconnects
    BY <1>8, ReconnectedEffect
  <2>2. /\ phase = "reconnect" /\ UNCHANGED << op, input, applied >>
        /\ \A p \in Posts : pc[p] = "none"
    BY <2>1 DEF Reconnects, Calls
  <2>3. \A p \in Posts : pc'[p] # "done"
    BY <2>1, <2>2 DEF Reconnects
  <2>4. CASE phase' = "idle" /\ answer' # "Ok"
    BY <2>3, <2>4 DEF Answered, InBatch
  <2>5. CASE op # "single" /\ UNCHANGED results /\ \A p \in Posts : pc'[p] = pc[p]
    <3>1. UNCHANGED Joined /\ UNCHANGED Running
      BY <2>5 DEF Joined, Running
    <3>2. BatchAnswers => BatchAnswers'
      BY <2>2, <2>5, <3>1 DEF BatchAnswers
    <3>3. QED
      BY <2>2, <2>3, <2>5, <3>2 DEF Answered, InBatch
  <2>6. CASE op = "single" /\ phase' = "again"
    BY <2>2, <2>3, <2>6 DEF Answered, InBatch
  <2>7. QED
    BY <2>1, <2>4, <2>5, <2>6 DEF Reconnects
<1>9. CASE DropCall
  <2>1. phase' = "idle" /\ answer' = "dropped" /\ \A r \in Requests : pc'[r] = "none"
    BY <1>9 DEF DropCall
  <2>2. QED
    BY <1>a, <2>1 DEF Answered, InBatch
<1>10. CASE Expire \/ UNCHANGED vars
  <2>1. UNCHANGED << op, input, phase, answer, results, applied, outcome, pc >>
    BY <1>10 DEF Expire, vars
  <2>2. QED
    BY <1>b, <2>1 DEF Answered
<1>11. QED
  BY <1>1, <1>2, <1>3, <1>4, <1>5, <1>6, <1>7, <1>8, <1>9, <1>10, <1>a DEF Next, OwnStep

(* A list of posts that differ has as many posts as its length. *)
LEMMA CountPosts ==
  ASSUME NEW n \in Nat, NEW q \in [1..n -> Posts], \A i, j \in 1..n : q[i] = q[j] => i = j
  PROVE  Cardinality({q[i] : i \in 1..n}) = n
<1>1. q \in Injection(1..n, Posts)
  BY DEF Injection, IsInjective
<1>2. q \in Bijection(1..n, Range(q))
  BY <1>1, Fun_InjMeansBijImage
<1>3. Range(q) = {q[i] : i \in 1..n}
  BY DEF Range
<1>4. QED
  BY <1>2, <1>3, FS_CountingElements DEF ExistsBijection

(* A call that returned Ok has an outcome for each of its posts, exactly   *)
(* one, and a post whose outcome is Ok has been done.                      *)
THEOREM AnswersAreComplete == Spec => []EveryPostAnswered
<1>1. Init => Answered
  <2> SUFFICES ASSUME Init PROVE Answered
    OBVIOUS
  <2>1. op = "single" /\ answer = "none" /\ \A p \in Posts : pc[p] = "none"
    BY DEF Init, Requests
  <2>2. QED
    BY <2>1 DEF Answered, InBatch
<1>2. TypeOK /\ Calls /\ Answered => EveryPostAnswered
  <2> SUFFICES ASSUME TypeOK, Calls, Answered, phase = "idle", answer = "Ok"
               PROVE  EveryPostAnswered
    BY DEF EveryPostAnswered
  <2>1. ASSUME op \in {"batch", "session_batch"}
        PROVE  /\ Len(results) = Len(input) /\ Joined = ToSet(input)
               /\ \A i \in DOMAIN results : results[i][2] = "Ok" => applied[results[i][1]] >= 1
    <3>1. BatchAnswers
      BY <2>1 DEF Answered, InBatch
    <3>2. Running = {}
      BY DEF Running, Calls
    <3>3. Joined = ToSet(input)
      BY <3>1, <3>2 DEF BatchAnswers
    <3> DEFINE posts == [i \in 1..Len(results) |-> results[i][1]]
    <3>4. /\ Len(results) \in Nat /\ DOMAIN results = 1..Len(results)
          /\ posts \in [1..Len(results) -> Posts]
      BY DEF TypeOK
    <3>5. /\ Len(input) \in Nat /\ DOMAIN input = 1..Len(input)
          /\ input \in [1..Len(input) -> Posts]
      BY DEF TypeOK
    <3>6. Cardinality(ToSet(input)) = Len(input)
      BY <3>1, <3>5, CountPosts DEF BatchAnswers, ToSet
    <3>7. /\ Joined = {posts[i] : i \in 1..Len(results)}
          /\ \A i, j \in 1..Len(results) : posts[i] = posts[j] => i = j
      BY <3>1, <3>4 DEF Joined, BatchAnswers
    <3> HIDE DEF posts
    <3>8. Cardinality(Joined) = Len(results)
      BY <3>4, <3>7, CountPosts
    <3>9. QED
      BY <3>1, <3>3, <3>6, <3>8 DEF BatchAnswers
  <2>2. op = "single" => applied[input[1]] >= 1
    BY DEF Answered
  <2>3. QED
    BY <2>1, <2>2 DEF EveryPostAnswered, Joined
<1>3. QED
  BY <1>1, <1>2, NextAnswered, Invariants, PTL DEF Spec
==============================================================================
