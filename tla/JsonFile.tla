------------------------------ MODULE JsonFile ------------------------------
(***************************************************************************)
(* The file behind JsonDeliveryStore (src/src/automation.rs) and           *)
(* JsonStateStore (src/src/storage.rs): every operation locks its handle,  *)
(* loads the file and, to change it, writes a temporary file beside it and *)
(* renames that over it.  Blocking file calls run on threads: one whose    *)
(* future is dropped still ends, when the handle is already free again.    *)
(***************************************************************************)
EXTENDS Integers, Sequences, FiniteSetsExt

CONSTANTS
  Orders,
  Tasks,      \* futures that call the store, one operation at a time
  Handles,    \* JsonDeliveryStore values on one path, each with its mutex
  HandleOf,   \* task -> its handle
  Faults      \* which of "io", "stat", "drop", "crash" may happen

ASSUME JsonFileAssumption ==
  /\ HandleOf \in [Tasks -> Handles]
  /\ Faults \subseteq {"io", "stat", "drop", "crash"}

VARIABLES
  main, tmp,   \* the file and the temporary file
  stage,       \* task -> the file call its operation has reached
  op, order,   \* task -> its operation, if any, and the operation's order
  map,         \* task -> the records it has loaded, changed for saving
  missed,      \* task -> its last load took the file for missing (history)
  fd,          \* task -> where the file is now that it has open to write
  dropped,     \* task -> its future is gone, its file call is not
  result,      \* task -> what its last operation returned
  overlap      \* an operation began while the file calls of a dropped one,
               \* or of another handle's, still ran (history)

files == << main, tmp >>
calls == << stage, op, order, map, missed, fd, dropped, result >>
vars  == << files, calls, overlap >>

Maps == [Orders -> {"absent", "pending", "delivered"}]
Ops  == {"contains", "claim", "commit", "release"}

EmptyMap == [o \in Orders |-> "absent"]
NoOrder  == CHOOSE o \in Orders : TRUE

(* The JSON text of a map, in blocks: one more for every record. *)
Text(m) == [i \in 1..(1 + Cardinality({o \in Orders : m[o] # "absent"})) |-> m]

NoFile  == [exists |-> FALSE, text |-> << >>]
File(t) == [exists |-> TRUE, text |-> t]

Init ==
  /\ main = NoFile /\ tmp = NoFile
  /\ stage = [t \in Tasks |-> "idle"]
  /\ op = [t \in Tasks |-> "none"]
  /\ order = [t \in Tasks |-> NoOrder]
  /\ map = [t \in Tasks |-> EmptyMap]
  /\ missed = [t \in Tasks |-> FALSE]
  /\ fd = [t \in Tasks |-> "none"]
  /\ dropped = [t \in Tasks |-> FALSE]
  /\ result = [t \in Tasks |-> "none"]
  /\ overlap = FALSE
-----------------------------------------------------------------------------
(* The operation of t still works on the file. *)
Works(t) == stage[t] \in {"load", "write", "fill", "rename"}

(* Mutant: the guard does not live until the file is saved. *)
Locked_ToLoad(h) ==
  \E t \in Tasks : HandleOf[t] = h /\ stage[t] = "load" /\ ~dropped[t]

(* The guard lives as long as the operation's future. *)
Locked(h) == \E t \in Tasks : HandleOf[t] = h /\ Works(t) /\ ~dropped[t]

GoTo(t, next) == /\ stage' = [stage EXCEPT ![t] = next]
                 /\ UNCHANGED << op, order, result, dropped >>

(* The operation ends and its locals with it; a dropped one returns        *)
(* nothing.                                                                *)
Return(t, r) ==
  /\ stage' = [stage EXCEPT ![t] = "idle"]
  /\ result' = [result EXCEPT ![t] = IF dropped[t] THEN "none" ELSE r]
  /\ dropped' = [dropped EXCEPT ![t] = FALSE]
  /\ op' = [op EXCEPT ![t] = "none"]
  /\ order' = [order EXCEPT ![t] = NoOrder]
  /\ map' = [map EXCEPT ![t] = EmptyMap]

IoError(t) == "io" \in Faults /\ Return(t, "Failed")

(* Bound: after an overlap the operations under way end, but none is new.  *)
Call(t, kind, o) ==
  /\ stage[t] = "idle" /\ ~overlap
  /\ op' = [op EXCEPT ![t] = kind]
  /\ order' = [order EXCEPT ![t] = o]
  /\ stage' = [stage EXCEPT ![t] = "lock"]
  /\ result' = [result EXCEPT ![t] = "none"]
  /\ missed' = [missed EXCEPT ![t] = FALSE]
  /\ UNCHANGED << files, map, fd, dropped, overlap >>

Acquire(t) ==
  /\ stage[t] = "lock" /\ ~Locked(HandleOf[t])
  /\ overlap' = (overlap \/ \E u \in Tasks :
                   Works(u) /\ (dropped[u] \/ HandleOf[u] # HandleOf[t]))
  /\ GoTo(t, "load")
  /\ UNCHANGED << files, map, missed, fd >>

(* A file is readable when it is the text of one map. *)
Readable(f) == f.exists /\ f.text # << >> /\ f.text = Text(f.text[1])
Content == IF Readable(main) THEN main.text[1] ELSE EmptyMap

Removed(m, o) == [m EXCEPT ![o] = "absent"]

(* load_all, and what the operation makes of the map; a file that cannot   *)
(* be read or parsed is an error, and "no" to contains_order.              *)
Save(t, m) == map' = [map EXCEPT ![t] = m] /\ GoTo(t, "write")

LoadFails(t) ==
  /\ main.exists /\ (~Readable(main) \/ "io" \in Faults)
  /\ Return(t, IF op[t] = "contains" THEN "No" ELSE "Failed")
  /\ UNCHANGED missed

Changes(t, m) ==
  LET o == order[t] IN
  \/ op[t] = "contains" /\ Return(t, IF m[o] = "absent" THEN "No" ELSE "Yes")
  \/ op[t] = "claim"   /\ m[o] # "absent"  /\ Return(t, "AlreadyDelivered")
  \/ op[t] = "claim"   /\ m[o] = "absent"  /\ Save(t, [m EXCEPT ![o] = "pending"])
  \/ op[t] = "commit"  /\ Save(t, [m EXCEPT ![o] = "delivered"])
  \/ op[t] = "release" /\ m[o] = "pending" /\ Save(t, Removed(m, o))
  \/ op[t] = "release" /\ m[o] # "pending" /\ Return(t, "Ok")

(* Path::exists says no on every error, and then load_all is the empty     *)
(* map, however much is in the file.                                       *)
Loaded(t) ==
  \/ /\ main.exists => Readable(main)
     /\ Changes(t, Content)
     /\ UNCHANGED missed
  \/ /\ main.exists /\ "stat" \in Faults
     /\ Changes(t, EmptyMap)
     /\ missed' = [missed EXCEPT ![t] = TRUE]

Load(t) ==
  /\ stage[t] = "load"
  /\ LoadFails(t) \/ Loaded(t)
  /\ UNCHANGED << files, fd, overlap >>

(* Mutant: the temporary file is opened without truncating it. *)
OpenTmp_Keeps(t) ==
  /\ stage[t] = "write"
  /\ \/ /\ tmp' = File(tmp.text)
        /\ fd' = [fd EXCEPT ![t] = "tmp"]
        /\ GoTo(t, "fill")
        /\ UNCHANGED map
     \/ IoError(t) /\ UNCHANGED << tmp, fd >>
  /\ UNCHANGED << main, missed, overlap >>

(* fs::write opens the temporary file, cutting what is in it, ... *)
OpenTmp(t) ==
  /\ stage[t] = "write"
  /\ \/ /\ tmp' = File(<< >>)
        /\ fd' = [fd EXCEPT ![t] = "tmp"]
        /\ GoTo(t, "fill")
        /\ UNCHANGED map
     \/ IoError(t) /\ UNCHANGED << tmp, fd >>
  /\ UNCHANGED << main, missed, overlap >>

(* ... and writes the text from its beginning, wherever the file is now.   *)
Over(old, new) ==
  [i \in 1..Max({Len(old), Len(new)}) |-> IF i <= Len(new) THEN new[i] ELSE old[i]]

Filled(f, new) == [f EXCEPT !.text = Over(@, new)]

FillTmp(t) ==
  /\ stage[t] = "fill"
  /\ \E n \in 0..Len(Text(map[t])) :
       LET part == SubSeq(Text(map[t]), 1, n) IN
       /\ main' = IF fd[t] = "main" THEN Filled(main, part) ELSE main
       /\ tmp'  = IF fd[t] = "tmp"  THEN Filled(tmp, part)  ELSE tmp
       /\ IF n < Len(Text(map[t])) THEN IoError(t)
          ELSE IF dropped[t] THEN Return(t, "none")
          ELSE GoTo(t, "rename") /\ UNCHANGED map
  /\ fd' = [fd EXCEPT ![t] = "none"]
  /\ UNCHANGED << missed, overlap >>

(* fs::rename moves the temporary file over the file, under every task     *)
(* that has one of them open.                                              *)
RenameDone(t) ==
  /\ tmp.exists
  /\ main' = tmp /\ tmp' = NoFile
  /\ fd' = [u \in Tasks |-> IF fd[u] = "tmp" THEN "main"
                            ELSE IF fd[u] = "main" THEN "gone" ELSE fd[u]]
  /\ Return(t, "Ok")

(* Mutants: a failed rename is not noticed; it is waited for.              *)
RenameTmp_IgnoresErrors(t) ==
  /\ stage[t] = "rename"
  /\ \/ RenameDone(t)
     \/ /\ ~tmp.exists \/ "io" \in Faults
        /\ Return(t, "Ok")
        /\ UNCHANGED << files, fd >>
  /\ UNCHANGED << missed, overlap >>

RenameTmp_Waits(t) ==
  /\ stage[t] = "rename"
  /\ RenameDone(t)
  /\ UNCHANGED << missed, overlap >>

RenameTmp(t) ==
  /\ stage[t] = "rename"
  /\ \/ RenameDone(t)
     \/ /\ ~tmp.exists \/ "io" \in Faults
        /\ Return(t, "Failed")
        /\ UNCHANGED << files, fd >>
  /\ UNCHANGED << missed, overlap >>
-----------------------------------------------------------------------------
(* The future is dropped: the lock is free, and the file call it waits for *)
(* goes on, or had not been started yet.                                   *)
DropCall(t) ==
  /\ "drop" \in Faults
  /\ stage[t] # "idle" /\ ~dropped[t]
  /\ \/ /\ stage[t] # "fill"
        /\ Return(t, "none")
     \/ /\ stage[t] \in {"write", "fill", "rename"}
        /\ dropped' = [dropped EXCEPT ![t] = TRUE]
        /\ UNCHANGED << stage, result, op, order, map >>
  /\ UNCHANGED << files, missed, fd, overlap >>

(* The process dies, its threads too; the files stay as they are. *)
Crash ==
  /\ "crash" \in Faults
  /\ stage' = [t \in Tasks |-> "idle"]
  /\ result' = [t \in Tasks |-> "none"]
  /\ op' = [t \in Tasks |-> "none"]
  /\ order' = [t \in Tasks |-> NoOrder]
  /\ map' = [t \in Tasks |-> EmptyMap]
  /\ missed' = [t \in Tasks |-> FALSE]
  /\ fd' = [t \in Tasks |-> "none"]
  /\ dropped' = [t \in Tasks |-> FALSE]
  /\ UNCHANGED << files, overlap >>

Advance(t) == Load(t) \/ OpenTmp(t) \/ FillTmp(t) \/ RenameTmp(t)

Next ==
  \/ \E t \in Tasks, kind \in Ops, o \in Orders : Call(t, kind, o)
  \/ \E t \in Tasks : Acquire(t) \/ Advance(t) \/ DropCall(t)
  \/ Crash

(* File calls end, and tokio's Mutex serves those who wait in their order. *)
Fairness == \A t \in Tasks : WF_vars(Advance(t)) /\ SF_vars(Acquire(t))

Spec == Init /\ [][Next]_vars /\ Fairness
-----------------------------------------------------------------------------
(* automation.rs:543, storage.rs:44 "with atomic writes": whenever the file *)
(* exists it is the whole text of one map, through failed writes, crashes   *)
(* between the write and the rename, left-over temporary files and dropped  *)
(* futures, as long as no operation begins while the file calls of a        *)
(* dropped one, or of another handle's, still run.                          *)
FileIsWhole == ~overlap /\ main.exists => Readable(main)

(* Every operation takes effect at once, at its rename, on the records that *)
(* are in the file then, or on none at all when it took the file for        *)
(* missing: what Delivery assumes of the store's operations.                *)
Atomic == INSTANCE AtomicStore WITH
            map <- IF overlap THEN EmptyMap ELSE Content,
            Forgetful <- "stat" \in Faults
ImplementsAtomicStore == Atomic!Spec

(* What an operation returns is true of the records in the file: Ok says    *)
(* that the change is there, AlreadyDelivered that the order has a record;  *)
(* after an error the change has not been made; and a claim or a release    *)
(* is wrong about its order only if its own load took the file for missing. *)
AnswersAreTrue ==
  [][\A t \in Tasks :
       LET o == order[t]
           before == Content[o]
           after  == Content'[o]
           ended(r) == stage[t] # "idle" /\ stage'[t] = "idle" /\ result'[t] = r
       IN ~overlap' =>
            /\ ended("Ok") /\ op[t] = "claim"   =>
                 (before = "absent" \/ missed[t]) /\ after = "pending"
            /\ ended("Ok") /\ op[t] = "commit"  => after = "delivered"
            /\ ended("Ok") /\ op[t] = "release" => after # "pending" \/ missed'[t]
            /\ ended("AlreadyDelivered") \/ ended("Yes") => after # "absent"
            /\ ended("Failed") => UNCHANGED main]_vars

(* automation.rs:478 of claim_pending: "fails if already recorded": no      *)
(* claim of an order that has a record returns Ok.                          *)
ClaimFailsIfRecorded ==
  [][\A t \in Tasks :
       op[t] = "claim" /\ stage'[t] = "idle" /\ result'[t] = "Ok" =>
         Content[order[t]] = "absent"]_vars

(* Every operation ends, also when its temporary file is taken away. *)
CallsReturn == \A t \in Tasks : stage[t] # "idle" ~> stage[t] = "idle"
=============================================================================
