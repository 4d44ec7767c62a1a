----------------------------- MODULE JsonFileProofs -----------------------------
(***************************************************************************)
(* Theorems about JsonFile for every set of orders, tasks and handles and  *)
(* every combination of failures, dropped futures and crashes.             *)
(***************************************************************************)
EXTENDS JsonFile, FiniteSetTheorems, TLAPS

(* Where an operation can be. *)
Stages == {"idle", "lock", "load", "write", "fill", "rename"}

(* The orders a map has a record of. *)
Present(m) == {o \in Orders : m[o] # "absent"}

(* A file exists or not, and has some text. *)
IsFile(f) == DOMAIN f = {"exists", "text"} /\ f.exists \in BOOLEAN

(* What the variables are, as far as the proofs need it. *)
TypeOK ==
  /\ overlap \in BOOLEAN
  /\ IsFile(main) /\ IsFile(tmp)
  /\ stage \in [Tasks -> Stages]
  /\ op \in [Tasks -> Ops \cup {"none"}]
  /\ \A t \in Tasks : stage[t] # "idle" => order[t] \in Orders /\ op[t] \in Ops
  /\ DOMAIN order = Tasks /\ DOMAIN map = Tasks /\ DOMAIN result = Tasks
  /\ fd \in [Tasks -> {"none", "tmp", "main", "gone"}]
  /\ dropped \in [Tasks -> BOOLEAN]
  /\ missed \in [Tasks -> BOOLEAN]

(* What the operation of t makes of a map. *)
Edited(t, before, after) ==
  \/ /\ op[t] = "claim" /\ before[order[t]] = "absent"
     /\ after = [before EXCEPT ![order[t]] = "pending"]
  \/ /\ op[t] = "commit"
     /\ after = [before EXCEPT ![order[t]] = "delivered"]
  \/ /\ op[t] = "release" /\ before[order[t]] = "pending"
     /\ after = Removed(before, order[t])

(* The map of a task that saves is what its operation makes of the records *)
(* now in the file, or of none when it took the file for missing.          *)
Changed(t) ==
  \/ Edited(t, Content, map[t])
  \/ missed[t] /\ "stat" \in Faults /\ Edited(t, EmptyMap, map[t])

(* The file is the text of a finite map. *)
Intact == main.exists => \E m \in Maps : main = File(Text(m)) /\ IsFiniteSet(Present(m))

(* One task at a time works on the files. *)
Alone == \A t, u \in Tasks : Works(t) /\ Works(u) => t = u

(* What a task has open, what the temporary file holds and what is saved. *)
InStep(t) ==
  /\ stage[t] # "fill" => fd[t] = "none"
  /\ stage[t] = "fill" => fd[t] = "tmp" /\ tmp = File(<< >>)
  /\ stage[t] = "rename" => tmp = File(Text(map[t]))
  /\ stage[t] \in {"write", "fill", "rename"} => Changed(t) /\ IsFiniteSet(Present(map[t]))

Kept == Intact /\ Alone /\ \A t \in Tasks : InStep(t)

(* The inductive invariant: all this as long as nothing has overlapped. *)
Whole == ~overlap => Kept
-----------------------------------------------------------------------------
(* A finite map has a text of one block and one more per record. *)
LEMMA TextOfMap ==
  ASSUME NEW m \in Maps, IsFiniteSet(Present(m))
  PROVE  /\ Text(m) \in Seq(Maps)
         /\ Len(Text(m)) \in Nat \ {0}
         /\ Text(m) = [i \in 1..Len(Text(m)) |-> m]
<1>1. Cardinality(Present(m)) \in Nat
  BY FS_CardinalityType
<1> DEFINE n == 1 + Cardinality(Present(m))
<1>2. n \in Nat \ {0}
  BY <1>1
<1>3. Text(m) = [i \in 1..n |-> m]
  BY DEF Text, Present
<1> HIDE DEF n
<1>4. Text(m) \in Seq(Maps) /\ Len(Text(m)) = n
  BY <1>2, <1>3
<1>5. QED
  BY <1>2, <1>3, <1>4

(* The file with the text of a finite map is readable, and read as it. *)
LEMMA TextIsReadable ==
  ASSUME NEW m \in Maps, IsFiniteSet(Present(m)), main = File(Text(m))
  PROVE  Readable(main) /\ Content = m
<1>1. Text(m) = [i \in 1..Len(Text(m)) |-> m] /\ Len(Text(m)) \in Nat \ {0}
  BY TextOfMap
<1>2. Text(m)[1] = m
  BY <1>1
<1>3. Text(m) # << >>
  <2>1. Len(Text(m)) # 0
    BY <1>1
  <2>2. QED
    BY <2>1
<1>4. main.exists /\ main.text = Text(m)
  BY DEF File
<1>5. Readable(main)
  BY <1>2, <1>3, <1>4 DEF Readable
<1>6. QED
  BY <1>2, <1>4, <1>5 DEF Content

(* What an operation makes of a finite map is a finite map. *)
LEMMA EditedMap ==
  ASSUME NEW m \in Maps, IsFiniteSet(Present(m)), NEW o \in Orders,
         NEW v \in {"absent", "pending", "delivered"}
  PROVE  [m EXCEPT ![o] = v] \in Maps /\ IsFiniteSet(Present([m EXCEPT ![o] = v]))
<1>1. [m EXCEPT ![o] = v] \in Maps
  BY DEF Maps
<1>2. Present([m EXCEPT ![o] = v]) \subseteq Present(m) \cup {o}
  BY DEF Maps, Present
<1>3. IsFiniteSet(Present(m) \cup {o})
  BY FS_AddElement
<1>4. QED
  BY <1>1, <1>2, <1>3, FS_Subset

(* So is the map of no records. *)
LEMMA EmptyIsFinite == EmptyMap \in Maps /\ IsFiniteSet(Present(EmptyMap))
<1>1. EmptyMap \in Maps /\ Present(EmptyMap) = {}
  BY DEF EmptyMap, Maps, Present
<1>2. QED
  BY <1>1, FS_EmptySet

(* An intact file's content is a finite map. *)
LEMMA IntactContent ==
  ASSUME Intact, main.exists \in BOOLEAN
  PROVE  /\ Content \in Maps /\ IsFiniteSet(Present(Content))
         /\ main.exists => Readable(main)
<1>1. CASE main.exists
  <2>1. PICK m \in Maps : main = File(Text(m)) /\ IsFiniteSet(Present(m))
    BY <1>1 DEF Intact
  <2>2. Readable(main) /\ Content = m
    BY <2>1, TextIsReadable
  <2>3. QED
    BY <2>1, <2>2
<1>2. CASE ~main.exists
  <2>1. Content = EmptyMap
    BY <1>2 DEF Content, Readable
  <2>2. QED
    BY <1>2, <2>1, EmptyIsFinite
<1>3. QED
  BY <1>1, <1>2

(* A file with another text. *)
LEMMA TextReplaced ==
  ASSUME NEW old, NEW new
  PROVE  [File(old) EXCEPT !.text = new] = File(new)
<1> DEFINE f == [File(old) EXCEPT !.text = new]
           g == File(new)
<1>1. f.exists /\ g.exists /\ f.text = new /\ g.text = new
  BY DEF File
<1>2. f = [x \in {"exists", "text"} |-> f[x]] /\ g = [x \in {"exists", "text"} |-> g[x]]
  BY DEF File
<1>3. f.exists = TRUE /\ g.exists = TRUE
  BY DEF File
<1> HIDE DEF f, g
<1>4. f = g
  BY <1>1, <1>2, <1>3
<1>5. QED
  BY <1>4 DEF f, g

(* A text written whole into an emptied file is all there is in it. *)
LEMMA FilledWhole ==
  ASSUME NEW m \in Maps, IsFiniteSet(Present(m))
  PROVE  Filled(File(<< >>), SubSeq(Text(m), 1, Len(Text(m)))) = File(Text(m))
<1> DEFINE s == Text(m)
<1>1. s \in Seq(Maps) /\ Len(s) \in Nat \ {0} /\ s = [i \in 1..Len(s) |-> m]
  BY TextOfMap
<1> HIDE DEF s
<1>2. SubSeq(s, 1, Len(s)) = s
  BY <1>1
<1>3. Max({0, Len(s)}) = Len(s)
  <2>1. Len(s) \in {0, Len(s)} /\ \A y \in {0, Len(s)} : Len(s) >= y
    BY <1>1
  <2>2. ~(0 >= Len(s))
    BY <1>1
  <2>3. QED
    BY <2>1, <2>2 DEF Max
<1>4. Over(<< >>, s) = s
  <2>1. Len(<< >>) = 0
    OBVIOUS
  <2>2. Over(<< >>, s) = [i \in 1..Len(s) |-> IF i <= Len(s) THEN s[i] ELSE << >>[i]]
    BY <1>3, <2>1 DEF Over
  <2>3. \A i \in 1..Len(s) : i <= Len(s)
    BY <1>1
  <2>4. QED
    BY <1>1, <2>2, <2>3
<1>5. Filled(File(<< >>), s) = File(s)
  <2>1. File(<< >>).text = << >>
    BY DEF File
  <2>2. Filled(File(<< >>), s) = [File(<< >>) EXCEPT !.text = s]
    BY <1>4, <2>1 DEF Filled
  <2>3. QED
    BY <2>2, TextReplaced
<1>6. QED
  BY <1>2, <1>5 DEF s
-----------------------------------------------------------------------------
(* The program starts with the types. *)
LEMMA InitType == Init => TypeOK
<1> SUFFICES ASSUME Init PROVE TypeOK
  OBVIOUS
<1>1. overlap \in BOOLEAN /\ IsFile(main) /\ IsFile(tmp)
  BY DEF Init, NoFile, IsFile
<1>2. stage \in [Tasks -> Stages] /\ \A t \in Tasks : stage[t] = "idle"
  BY DEF Init, Stages
<1>3. QED
  BY <1>1, <1>2 DEF Init, TypeOK

(* Return ends an operation. *)
LEMMA ReturnTypes ==
  ASSUME TypeOK, NEW t \in Tasks, NEW r, Return(t, r), IsFile(tmp'), IsFile(main'), overlap' \in BOOLEAN,
         fd' \in [Tasks -> {"none", "tmp", "main", "gone"}], missed' \in [Tasks -> BOOLEAN]
  PROVE  TypeOK'
<1>1. stage' \in [Tasks -> Stages] /\ op' \in [Tasks -> Ops \cup {"none"}]
  BY DEF TypeOK, Return, Stages
<1>2. \A u \in Tasks : stage'[u] # "idle" => order'[u] \in Orders /\ op'[u] \in Ops
  BY DEF TypeOK, Return
<1>3. DOMAIN order' = Tasks /\ DOMAIN result' = Tasks
  BY DEF TypeOK, Return
<1>4. DOMAIN map' = Tasks
  BY DEF TypeOK, Return
<1>5. dropped' \in [Tasks -> BOOLEAN]
  BY DEF TypeOK, Return
<1>6. QED
  BY <1>1, <1>2, <1>3, <1>4, <1>5 DEF TypeOK

(* GoTo goes on with an operation. *)
LEMMA GoToTypes ==
  ASSUME TypeOK, NEW t \in Tasks, stage[t] # "idle", NEW next \in Stages, GoTo(t, next),
         IsFile(tmp'), IsFile(main'), overlap' \in BOOLEAN,
         fd' \in [Tasks -> {"none", "tmp", "main", "gone"}],
         missed' \in [Tasks -> BOOLEAN], DOMAIN map' = Tasks
  PROVE  TypeOK'
<1>1. stage' \in [Tasks -> Stages]
  BY DEF TypeOK, GoTo
<1>2. \A u \in Tasks : stage'[u] # "idle" => order'[u] \in Orders /\ op'[u] \in Ops
  BY DEF TypeOK, GoTo
<1>3. QED
  BY <1>1, <1>2 DEF TypeOK, GoTo

(* Every step keeps the types. *)
LEMMA NextType ==
  ASSUME TypeOK, [Next]_vars
  PROVE  TypeOK'
<1>f. /\ overlap \in BOOLEAN /\ IsFile(main) /\ IsFile(tmp)
      /\ fd \in [Tasks -> {"none", "tmp", "main", "gone"}]
      /\ DOMAIN map = Tasks /\ missed \in [Tasks -> BOOLEAN]
      /\ \A t \in Tasks : stage[t] # "idle" => order[t] \in Orders /\ op[t] \in Ops
  BY DEF TypeOK
<1>g. IsFile(File(<< >>)) /\ IsFile(NoFile)
  BY DEF IsFile, File, NoFile
<1>1. ASSUME NEW t \in Tasks, NEW kind \in Ops, NEW o \in Orders, Call(t, kind, o)
      PROVE  TypeOK'
  <2>1. stage' \in [Tasks -> Stages] /\ op' \in [Tasks -> Ops \cup {"none"}]
    BY <1>1 DEF TypeOK, Call, Stages
  <2>2. \A u \in Tasks : stage'[u] # "idle" => order'[u] \in Orders /\ op'[u] \in Ops
    BY <1>1 DEF TypeOK, Call
  <2>3. DOMAIN order' = Tasks /\ DOMAIN result' = Tasks /\ missed' \in [Tasks -> BOOLEAN]
    BY <1>1 DEF TypeOK, Call
  <2>4. QED
    BY <1>1, <1>f, <2>1, <2>2, <2>3 DEF TypeOK, Call, files, IsFile
<1>2. ASSUME NEW t \in Tasks, Acquire(t) PROVE TypeOK'
  <2>1. overlap' \in BOOLEAN
    BY <1>2, <1>f DEF Acquire
  <2>2. "load" \in Stages /\ stage[t] # "idle" /\ GoTo(t, "load")
    BY <1>2 DEF Acquire, Stages
  <2>3. UNCHANGED << main, tmp, map, missed, fd >>
    BY <1>2 DEF Acquire, files
  <2>4. IsFile(main') /\ IsFile(tmp') /\ DOMAIN map' = Tasks
        /\ missed' \in [Tasks -> BOOLEAN]
        /\ fd' \in [Tasks -> {"none", "tmp", "main", "gone"}]
    BY <2>3, <1>f
  <2>5. QED
    BY <2>1, <2>2, <2>4, GoToTypes
<1>3. ASSUME NEW t \in Tasks, Load(t) PROVE TypeOK'
  <2>1. UNCHANGED << main, tmp, fd, overlap >>
    BY <1>3 DEF Load, files
  <2>2. /\ IsFile(main') /\ IsFile(tmp') /\ overlap' \in BOOLEAN
        /\ fd' \in [Tasks -> {"none", "tmp", "main", "gone"}]
        /\ missed' \in [Tasks -> BOOLEAN]
    <3>1. UNCHANGED missed \/ missed' = [missed EXCEPT ![t] = TRUE]
      BY <1>3 DEF Load, LoadFails, Loaded
    <3>2. QED
      BY <2>1, <1>f, <3>1
  <2>3. CASE \E r : Return(t, r)
    BY <2>2, <2>3, ReturnTypes
  <2>4. CASE \E m : Save(t, m)
    <3>1. PICK m : Save(t, m)
      BY <2>4
    <3>2. DOMAIN map' = Tasks
      BY <3>1, <1>f DEF Save
    <3>3. "write" \in Stages /\ stage[t] # "idle" /\ GoTo(t, "write")
      BY <1>3, <3>1 DEF Load, Save, Stages
    <3>4. QED
      BY <2>2, <3>2, <3>3, GoToTypes
  <2>5. (\E r : Return(t, r)) \/ \E m : Save(t, m)
    <3>1. LoadFails(t) => \E r : Return(t, r)
      BY DEF LoadFails
    <3>2. Loaded(t) => (\E r : Return(t, r)) \/ \E m : Save(t, m)
      <4>1. \A b : Changes(t, b) => (\E r : Return(t, r)) \/ \E m : Save(t, m)
        BY DEF Changes
      <4>2. QED
        BY <4>1 DEF Loaded
    <3>3. QED
      BY <1>3, <3>1, <3>2 DEF Load
  <2>6. QED
    BY <2>3, <2>4, <2>5
<1>4. ASSUME NEW t \in Tasks, OpenTmp(t) PROVE TypeOK'
  <2>1. UNCHANGED << main, missed, overlap >> /\ stage[t] # "idle"
    BY <1>4 DEF OpenTmp
  <2>2. CASE /\ tmp' = File(<< >>) /\ fd' = [fd EXCEPT ![t] = "tmp"]
             /\ GoTo(t, "fill") /\ UNCHANGED map
    <3>1. IsFile(main') /\ IsFile(tmp') /\ overlap' \in BOOLEAN /\ DOMAIN map' = Tasks
          /\ missed' \in [Tasks -> BOOLEAN]
      BY <1>f, <1>g, <2>1, <2>2
    <3>2. fd' \in [Tasks -> {"none", "tmp", "main", "gone"}] /\ "fill" \in Stages
      BY <1>f, <2>2 DEF Stages
    <3>3. QED
      BY <2>1, <2>2, <3>1, <3>2, GoToTypes
  <2>3. CASE IoError(t) /\ UNCHANGED << tmp, fd >>
    <3>1. IsFile(main') /\ IsFile(tmp') /\ overlap' \in BOOLEAN
          /\ missed' \in [Tasks -> BOOLEAN]
      BY <1>f, <2>1, <2>3
    <3>2. QED
      BY <1>f, <2>3, <3>1, ReturnTypes DEF IoError
  <2>4. QED
    BY <1>4, <2>2, <2>3 DEF OpenTmp
<1>5. ASSUME NEW t \in Tasks, FillTmp(t) PROVE TypeOK'
  <2>1. stage[t] # "idle" /\ overlap' \in BOOLEAN
        /\ fd' \in [Tasks -> {"none", "tmp", "main", "gone"}]
        /\ missed' \in [Tasks -> BOOLEAN]
    BY <1>5, <1>f DEF FillTmp
  <2>2. \A f, text : IsFile(f) => IsFile(Filled(f, text))
    BY DEF IsFile, Filled
  <2>3. PICK n \in 0..Len(Text(map[t])) :
          LET part == SubSeq(Text(map[t]), 1, n) IN
          /\ main' = IF fd[t] = "main" THEN Filled(main, part) ELSE main
          /\ tmp'  = IF fd[t] = "tmp"  THEN Filled(tmp, part)  ELSE tmp
          /\ IF n < Len(Text(map[t])) THEN IoError(t)
             ELSE IF dropped[t] THEN Return(t, "none")
             ELSE GoTo(t, "rename") /\ UNCHANGED map
    BY <1>5 DEF FillTmp
  <2>4. IsFile(main') /\ IsFile(tmp')
    BY <1>f, <2>2, <2>3
  <2>5. CASE \E r : Return(t, r)
    BY <2>1, <2>4, <2>5, ReturnTypes
  <2>6. CASE GoTo(t, "rename") /\ UNCHANGED map
    <3>1. "rename" \in Stages /\ DOMAIN map' = Tasks
      BY <1>f, <2>6 DEF Stages
    <3>2. QED
      BY <2>1, <2>4, <2>6, <3>1, GoToTypes
  <2>7. QED
    BY <2>3, <2>5, <2>6 DEF IoError
<1>6. ASSUME NEW t \in Tasks, RenameTmp(t) PROVE TypeOK'
  <2>1. overlap' \in BOOLEAN /\ missed' \in [Tasks -> BOOLEAN]
    BY <1>6, <1>f DEF RenameTmp
  <2>2. CASE RenameDone(t)
    <3>1. IsFile(main') /\ IsFile(tmp')
      BY <1>f, <1>g, <2>2 DEF RenameDone
    <3>2. fd' \in [Tasks -> {"none", "tmp", "main", "gone"}]
      BY <1>f, <2>2 DEF RenameDone
    <3>3. QED
      BY <2>1, <2>2, <3>1, <3>2, ReturnTypes DEF RenameDone
  <2>3. CASE Return(t, "Failed") /\ UNCHANGED << files, fd >>
    <3>1. IsFile(main') /\ IsFile(tmp')
      BY <1>f, <2>3 DEF files
    <3>2. QED
      BY <1>f, <2>1, <2>3, <3>1, ReturnTypes
  <2>4. QED
    BY <1>6, <2>2, <2>3 DEF RenameTmp
<1>7. ASSUME NEW t \in Tasks, DropCall(t) PROVE TypeOK'
  <2>1. UNCHANGED << main, tmp, missed, fd, overlap >>
    BY <1>7 DEF DropCall, files
  <2>2. IsFile(main') /\ IsFile(tmp') /\ overlap' \in BOOLEAN
        /\ missed' \in [Tasks -> BOOLEAN]
        /\ fd' \in [Tasks -> {"none", "tmp", "main", "gone"}]
    BY <1>f, <2>1
  <2>3. CASE Return(t, "none")
    BY <2>2, <2>3, ReturnTypes
  <2>4. CASE /\ dropped' = [dropped EXCEPT ![t] = TRUE]
             /\ UNCHANGED << stage, result, op, order, map >>
    <3>1. dropped' \in [Tasks -> BOOLEAN]
      BY <2>4 DEF TypeOK
    <3>2. QED
      BY <2>2, <2>4, <3>1 DEF TypeOK
  <2>5. QED
    BY <1>7, <2>3, <2>4 DEF DropCall
<1>8. ASSUME Crash PROVE TypeOK'
  <2>1. UNCHANGED << main, tmp, overlap >>
    BY <1>8 DEF Crash, files
  <2>2. IsFile(main') /\ IsFile(tmp') /\ overlap' \in BOOLEAN
    BY <1>f, <2>1
  <2>3. stage' \in [Tasks -> Stages] /\ \A t \in Tasks : stage'[t] = "idle"
    BY <1>8 DEF Crash, Stages
  <2>4. QED
    BY <1>8, <2>2, <2>3 DEF Crash, TypeOK
<1>9. CASE UNCHANGED vars
  BY <1>9 DEF vars, files, calls, TypeOK, IsFile
<1>10. QED
  BY <1>1, <1>2, <1>3, <1>4, <1>5, <1>6, <1>7, <1>8, <1>9 DEF Next, Advance
-----------------------------------------------------------------------------
(* Only the state of task t moves. *)
Others(t) ==
  \A u \in Tasks \ {t} :
    /\ stage'[u] = stage[u] /\ op'[u] = op[u] /\ order'[u] = order[u]
    /\ map'[u] = map[u] /\ fd'[u] = fd[u] /\ missed'[u] = missed[u]
    /\ dropped'[u] = dropped[u] /\ result'[u] = result[u]

(* A step of one task keeps the invariant when it keeps it for that task,  *)
(* works only if no other does, and leaves the files to one that works.    *)
LEMMA OneTask ==
  ASSUME Kept, NEW t \in Tasks, Others(t), Intact', InStep(t)',
         Works(t)' => Works(t) \/ \A u \in Tasks : ~Works(u),
         Works(t) \/ UNCHANGED files
  PROVE  Kept'
<1>1. \A u \in Tasks \ {t} : Works(u)' <=> Works(u)
  BY DEF Others, Works
<1>2. Alone'
  <2>1. ASSUME NEW u \in Tasks, NEW v \in Tasks, Works(u)', Works(v)', u # v PROVE FALSE
    BY <1>1, <2>1 DEF Kept, Alone
  <2>2. QED
    BY <2>1 DEF Alone
<1>3. ASSUME NEW u \in Tasks \ {t} PROVE InStep(u)'
  <2>1. InStep(u)
    BY DEF Kept
  <2>2. /\ stage'[u] = stage[u] /\ op'[u] = op[u] /\ order'[u] = order[u]
        /\ map'[u] = map[u] /\ fd'[u] = fd[u] /\ missed'[u] = missed[u]
    BY DEF Others
  <2>3. CASE Works(u)
    <3>1. UNCHANGED << main, tmp >>
      BY <2>3 DEF Kept, Alone, files
    <3>2. Content' = Content
      BY <3>1 DEF Content, Readable
    <3>3. Changed(u)' <=> Changed(u)
      BY <2>2, <3>2 DEF Changed, Edited, Removed
    <3>4. QED
      BY <2>1, <2>2, <3>1, <3>3 DEF InStep, Present
  <2>4. CASE ~Works(u)
    BY <2>1, <2>2, <2>4 DEF InStep, Works
  <2>5. QED
    BY <2>3, <2>4
<1>4. QED
  BY <1>2, <1>3 DEF Kept

(* Return moves one task. *)
LEMMA ReturnMoves ==
  ASSUME TypeOK, NEW t \in Tasks, NEW r, Return(t, r), fd' = [fd EXCEPT ![t] = "none"],
         \A u \in Tasks \ {t} : missed'[u] = missed[u]
  PROVE  Others(t) /\ InStep(t)' /\ ~Works(t)' /\ stage'[t] = "idle"
         /\ result'[t] = IF dropped[t] THEN "none" ELSE r
<1>1. stage'[t] = "idle" /\ fd'[t] = "none"
  BY DEF TypeOK, Return
<1>2. Others(t)
  BY DEF TypeOK, Return, Others
<1>3. InStep(t)' /\ ~Works(t)'
  BY <1>1 DEF InStep, Works
<1>4. result'[t] = IF dropped[t] THEN "none" ELSE r
  BY DEF TypeOK, Return
<1>5. QED
  BY <1>1, <1>2, <1>3, <1>4

(* GoTo moves one task. *)
LEMMA GoToMoves ==
  ASSUME TypeOK, NEW t \in Tasks, NEW next, GoTo(t, next),
         \A u \in Tasks \ {t} : fd'[u] = fd[u] /\ map'[u] = map[u] /\ missed'[u] = missed[u]
  PROVE  Others(t) /\ stage'[t] = next /\ UNCHANGED << op, order, result, dropped >>
BY DEF TypeOK, GoTo, Others

(* An unchanged file stays intact. *)
LEMMA IntactStays == Intact /\ UNCHANGED main => Intact'
BY DEF Intact, Present

(* Calling and taking the lock keep the invariant. *)
LEMMA KeptByStart ==
  ASSUME TypeOK, Kept, ~overlap', NEW t \in Tasks,
         Acquire(t) \/ \E kind \in Ops, o \in Orders : Call(t, kind, o)
  PROVE  Kept'
<1>f. InStep(t)
  BY DEF Kept
<1>1. ASSUME NEW kind \in Ops, NEW o \in Orders, Call(t, kind, o) PROVE Kept'
  <2>1. UNCHANGED << main, tmp, fd, map >>
    BY <1>1 DEF Call, files
  <2>2. Others(t) /\ stage'[t] = "lock"
    BY <1>1 DEF TypeOK, Call, Others, files
  <2>3. InStep(t)' /\ ~Works(t)'
    BY <1>1, <1>f, <2>1, <2>2 DEF InStep, Works, Call
  <2>4. Intact'
    BY <2>1, IntactStays DEF Kept
  <2>5. QED
    BY <2>1, <2>2, <2>3, <2>4, OneTask DEF files
<1>2. CASE Acquire(t)
  <2>1. UNCHANGED << main, tmp, fd, map, missed >> /\ GoTo(t, "load") /\ stage[t] = "lock"
    BY <1>2 DEF Acquire, files
  <2>2. Others(t) /\ stage'[t] = "load"
    BY <2>1, GoToMoves
  <2>3. InStep(t)'
    BY <1>f, <2>1, <2>2 DEF InStep
  <2>4. \A u \in Tasks : ~Works(u)
    <3>1. ASSUME NEW u \in Tasks, Works(u) PROVE FALSE
      <4>1. ~dropped[u] /\ HandleOf[u] = HandleOf[t]
        BY <1>2, <3>1 DEF Acquire, TypeOK
      <4>2. Locked(HandleOf[t])
        BY <3>1, <4>1 DEF Locked
      <4>3. QED
        BY <1>2, <4>2 DEF Acquire
    <3>2. QED
      BY <3>1
  <2>5. Intact'
    BY <2>1, IntactStays DEF Kept
  <2>6. QED
    BY <2>1, <2>2, <2>3, <2>4, <2>5, OneTask DEF files
<1>3. QED
  BY <1>1, <1>2

(* Loading keeps the invariant: what is to be saved is the loaded map      *)
(* changed by the operation.                                               *)
LEMMA KeptByLoad ==
  ASSUME TypeOK, Kept, NEW t \in Tasks, Load(t)
  PROVE  Kept'
<1>f. InStep(t) /\ Works(t) /\ fd[t] = "none" /\ order[t] \in Orders
  BY DEF Kept, InStep, Works, Load, TypeOK
<1>1. UNCHANGED << main, tmp, fd >>
  BY DEF Load, files
<1>2. Content' = Content /\ Intact'
  BY <1>1, IntactStays DEF Kept, Content, Readable
<1>o. \A u \in Tasks \ {t} : missed'[u] = missed[u]
  <2>1. UNCHANGED missed \/ missed' = [missed EXCEPT ![t] = TRUE]
    BY DEF Load, LoadFails, Loaded
  <2>2. QED
    BY <2>1 DEF TypeOK
<1>3. ASSUME NEW r, Return(t, r) PROVE Kept'
  <2>1. fd' = [fd EXCEPT ![t] = "none"]
    BY <1>1, <1>f DEF TypeOK
  <2>2. QED
    BY <1>2, <1>3, <1>f, <1>o, <2>1, ReturnMoves, OneTask
<1>4. ASSUME NEW m, Save(t, m), IsFiniteSet(Present(m)),
             \/ Edited(t, Content, m)
             \/ missed'[t] /\ "stat" \in Faults /\ Edited(t, EmptyMap, m)
      PROVE  Kept'
  <2>1. \A u \in Tasks \ {t} : fd'[u] = fd[u] /\ map'[u] = map[u] /\ missed'[u] = missed[u]
    BY <1>1, <1>4, <1>o DEF Save, TypeOK
  <2>2. map'[t] = m /\ fd'[t] = "none" /\ GoTo(t, "write")
    BY <1>1, <1>4, <1>f DEF Save, TypeOK
  <2>3. Others(t) /\ stage'[t] = "write" /\ UNCHANGED << op, order >>
    BY <2>1, <2>2, GoToMoves
  <2>4. Changed(t)'
    BY <1>2, <1>4, <2>2, <2>3 DEF Changed, Edited, Removed, EmptyMap
  <2>5. IsFiniteSet(Present(map[t])')
    BY <1>4, <2>2 DEF Present
  <2>6. InStep(t)'
    BY <2>2, <2>3, <2>4, <2>5 DEF InStep
  <2>7. QED
    BY <1>2, <1>f, <2>3, <2>6, OneTask
<1>5. Content \in Maps /\ IsFiniteSet(Present(Content))
  BY IntactContent DEF Kept, TypeOK, IsFile
<1>e. EmptyMap \in Maps /\ IsFiniteSet(Present(EmptyMap))
  BY EmptyIsFinite
<1>6. \A b \in {Content, EmptyMap}, v \in {"absent", "pending", "delivered"} :
        IsFiniteSet(Present([b EXCEPT ![order[t]] = v]))
  BY <1>5, <1>e, <1>f, EditedMap
<1>7. CASE LoadFails(t)
  BY <1>3, <1>7 DEF LoadFails
<1>8. CASE Loaded(t)
  <2>1. ASSUME NEW b, Changes(t, b)
        PROVE  (\E r : Return(t, r)) \/ \E m : Save(t, m) /\ Edited(t, b, m)
    BY <2>1 DEF Changes, Edited, Removed
  <2>2. PICK b \in {Content, EmptyMap} :
          Changes(t, b) /\ (b = Content \/ (missed'[t] /\ "stat" \in Faults))
    BY <1>8 DEF Loaded, TypeOK
  <2>3. CASE \E r : Return(t, r)
    BY <1>3, <2>3
  <2>4. ASSUME NEW m, Save(t, m), Edited(t, b, m) PROVE Kept'
    <3>1. IsFiniteSet(Present(m))
      BY <1>6, <2>2, <2>4 DEF Edited, Removed
    <3>2. QED
      BY <1>4, <2>2, <2>4, <3>1
  <2>5. QED
    BY <2>1, <2>2, <2>3, <2>4
<1>9. QED
  BY <1>7, <1>8 DEF Load

(* Opening the temporary file empties it and leaves the file alone. *)
LEMMA KeptByOpen ==
  ASSUME TypeOK, Kept, NEW t \in Tasks, OpenTmp(t)
  PROVE  Kept'
<1>f. InStep(t) /\ Works(t) /\ stage[t] = "write" /\ fd[t] = "none"
  BY DEF Kept, InStep, Works, OpenTmp
<1>1. UNCHANGED << main, missed >>
  BY DEF OpenTmp
<1>2. Content' = Content /\ Intact'
  BY <1>1, IntactStays DEF Kept, Content, Readable
<1>3. CASE tmp' = File(<< >>) /\ fd' = [fd EXCEPT ![t] = "tmp"]
           /\ GoTo(t, "fill") /\ UNCHANGED map
  <2>1. \A u \in Tasks \ {t} : fd'[u] = fd[u] /\ map'[u] = map[u] /\ missed'[u] = missed[u]
    BY <1>1, <1>3 DEF TypeOK
  <2>2. Others(t) /\ stage'[t] = "fill" /\ UNCHANGED << op, order >>
    BY <1>3, <2>1, GoToMoves
  <2>3. Changed(t)'
    BY <1>1, <1>2, <1>3, <1>f, <2>2 DEF InStep, Changed, Edited, Removed, EmptyMap
  <2>4. fd'[t] = "tmp" /\ tmp' = File(<< >>)
    BY <1>3 DEF TypeOK
  <2>5. IsFiniteSet(Present(map[t])')
    BY <1>3, <1>f DEF InStep, Present
  <2>6. InStep(t)'
    BY <2>2, <2>3, <2>4, <2>5 DEF InStep
  <2>7. QED
    BY <1>2, <1>f, <2>2, <2>6, OneTask
<1>4. CASE IoError(t) /\ UNCHANGED << tmp, fd >>
  <2>1. fd' = [fd EXCEPT ![t] = "none"] /\ Return(t, "Failed")
    BY <1>4, <1>f DEF TypeOK, IoError
  <2>2. QED
    BY <1>1, <1>2, <1>f, <2>1, ReturnMoves, OneTask
<1>5. QED
  BY <1>3, <1>4 DEF OpenTmp

(* A map that is to be saved is a finite map. *)
LEMMA SavedMap ==
  ASSUME TypeOK, Kept, NEW t \in Tasks, stage[t] \in {"write", "fill", "rename"}
  PROVE  map[t] \in Maps /\ IsFiniteSet(Present(map[t])) /\ order[t] \in Orders /\ Changed(t)
<1>1. Content \in Maps /\ EmptyMap \in Maps
  BY IntactContent, EmptyIsFinite DEF Kept, TypeOK, IsFile
<1>2. order[t] \in Orders
  BY DEF TypeOK
<1>3. Changed(t) /\ IsFiniteSet(Present(map[t]))
  BY DEF Kept, InStep
<1>4. \A b \in Maps : Edited(t, b, map[t]) => map[t] \in Maps
  BY <1>2 DEF Edited, Removed, Maps
<1>5. QED
  BY <1>1, <1>2, <1>3, <1>4 DEF Changed

(* Filling the temporary file: whole, or the operation fails. *)
LEMMA KeptByFill ==
  ASSUME TypeOK, Kept, NEW t \in Tasks, FillTmp(t)
  PROVE  Kept' /\ UNCHANGED main
<1>f. /\ InStep(t) /\ Works(t) /\ stage[t] = "fill" /\ fd[t] = "tmp"
      /\ tmp = File(<< >>) /\ Changed(t) /\ IsFiniteSet(Present(map[t]))
  BY DEF Kept, InStep, Works, FillTmp
<1>1. PICK n \in 0..Len(Text(map[t])) :
        LET part == SubSeq(Text(map[t]), 1, n) IN
        /\ main' = IF fd[t] = "main" THEN Filled(main, part) ELSE main
        /\ tmp'  = IF fd[t] = "tmp"  THEN Filled(tmp, part)  ELSE tmp
        /\ IF n < Len(Text(map[t])) THEN IoError(t)
           ELSE IF dropped[t] THEN Return(t, "none")
           ELSE GoTo(t, "rename") /\ UNCHANGED map
  BY DEF FillTmp
<1>2. UNCHANGED << main, missed >> /\ fd' = [fd EXCEPT ![t] = "none"]
  BY <1>1, <1>f DEF FillTmp
<1>3. Content' = Content /\ Intact'
  BY <1>2, IntactStays DEF Kept, Content, Readable
<1>4. CASE \E r : Return(t, r)
  BY <1>2, <1>3, <1>4, <1>f, ReturnMoves, OneTask
<1>5. CASE ~(n < Len(Text(map[t]))) /\ GoTo(t, "rename") /\ UNCHANGED map
  <2>1. \A u \in Tasks \ {t} : fd'[u] = fd[u] /\ map'[u] = map[u] /\ missed'[u] = missed[u]
    BY <1>2, <1>5 DEF TypeOK
  <2>2. Others(t) /\ stage'[t] = "rename" /\ UNCHANGED << op, order >> /\ fd'[t] = "none"
    BY <1>2, <1>5, <2>1, GoToMoves DEF TypeOK
  <2>3. Changed(t)' /\ IsFiniteSet(Present(map[t])')
    BY <1>2, <1>3, <1>5, <1>f, <2>2 DEF Changed, Edited, Removed, EmptyMap, Present
  <2>4. map[t] \in Maps
    BY <1>f, SavedMap
  <2>5. Len(Text(map[t])) \in Nat
    BY <1>f, <2>4, TextOfMap
  <2>6. n = Len(Text(map[t]))
    BY <1>5, <2>5
  <2>7. tmp' = Filled(File(<< >>), SubSeq(Text(map[t]), 1, Len(Text(map[t]))))
    BY <1>1, <1>f, <2>6
  <2>8. tmp' = File(Text(map[t]))
    BY <1>f, <2>4, <2>7, FilledWhole
  <2>9. File(Text(map[t]))' = File(Text(map[t]))
    BY <1>5 DEF Text
  <2>10. InStep(t)'
    BY <2>2, <2>3, <2>8, <2>9 DEF InStep
  <2>11. QED
    BY <1>2, <1>3, <1>f, <2>2, <2>10, OneTask
<1>6. QED
  BY <1>1, <1>2, <1>4, <1>5 DEF IoError

(* The rename puts the saved map in place: the file's content is then what *)
(* the operation makes of the content before.                              *)
LEMMA KeptByRename ==
  ASSUME TypeOK, Kept, NEW t \in Tasks, RenameTmp(t)
  PROVE  /\ Kept'
         /\ \/ UNCHANGED main /\ \E r : r # "Ok" /\ Return(t, r)
            \/ RenameDone(t) /\ Content' = map[t]
         /\ Others(t)
<1>f. InStep(t) /\ Works(t) /\ stage[t] = "rename" /\ tmp = File(Text(map[t]))
  BY DEF Kept, InStep, Works, RenameTmp
<1>u. UNCHANGED missed
  BY DEF RenameTmp
<1>g. \A u \in Tasks : fd[u] = "none"
  <2>1. \A u \in Tasks \ {t} : stage[u] # "fill"
    BY <1>f DEF Kept, Alone, Works
  <2>2. QED
    BY <1>f, <2>1 DEF Kept, InStep
<1>1. CASE RenameDone(t)
  <2>1. fd' = [fd EXCEPT ![t] = "none"]
    BY <1>1, <1>g DEF RenameDone, TypeOK
  <2>2. map[t] \in Maps /\ IsFiniteSet(Present(map[t]))
    BY <1>f, SavedMap
  <2>3. PICK m : m = map[t]
    OBVIOUS
  <2>4. main' = File(Text(m)) /\ m \in Maps /\ IsFiniteSet(Present(m))
    BY <1>1, <1>f, <2>2, <2>3 DEF RenameDone
  <2>5. Intact'
    BY <2>4 DEF Intact, Text, File, Present
  <2>6. Content' = m
    <3>1. (Text(m) = [i \in 1..Len(Text(m)) |-> m]) /\ Len(Text(m)) \in Nat \ {0}
      BY <2>4, TextOfMap
    <3>2. Text(m)[1] = m /\ Text(m) # << >>
      <4>1. Len(Text(m)) # 0 /\ 1 \in 1..Len(Text(m))
        BY <3>1
      <4>2. QED
        BY <3>1, <4>1
    <3>3. main'.exists /\ main'.text = Text(m)
      BY <2>4 DEF File
    <3>4. Text(main'.text[1]) = Text(m)
      BY <3>2, <3>3
    <3>5. QED
      BY <3>2, <3>3, <3>4 DEF Content, Readable, Text
  <2>7. Others(t) /\ InStep(t)' /\ ~Works(t)'
    BY <1>1, <1>u, <2>1, ReturnMoves DEF RenameDone
  <2>8. QED
    BY <1>1, <1>f, <2>3, <2>5, <2>6, <2>7, OneTask
<1>2. CASE Return(t, "Failed") /\ UNCHANGED << files, fd >>
  <2>1. UNCHANGED << main, tmp >> /\ fd' = [fd EXCEPT ![t] = "none"]
    BY <1>2, <1>f DEF files, InStep, TypeOK
  <2>2. Intact'
    BY <2>1, IntactStays DEF Kept
  <2>3. QED
    BY <1>2, <1>f, <1>u, <2>1, <2>2, ReturnMoves, OneTask
<1>3. QED
  BY <1>1, <1>2 DEF RenameTmp

(* Dropping a future keeps the invariant. *)
LEMMA KeptByDrop ==
  ASSUME TypeOK, Kept, NEW t \in Tasks, DropCall(t)
  PROVE  Kept'
<1>f. InStep(t)
  BY DEF Kept
<1>1. UNCHANGED << main, tmp, missed, fd >>
  BY DEF DropCall, files
<1>2. Intact'
  BY <1>1, IntactStays DEF Kept
<1>3. CASE stage[t] # "fill" /\ Return(t, "none")
  <2>1. fd' = [fd EXCEPT ![t] = "none"]
    BY <1>1, <1>3, <1>f DEF InStep, TypeOK
  <2>2. QED
    BY <1>1, <1>2, <1>3, <2>1, ReturnMoves, OneTask DEF files
<1>4. CASE UNCHANGED << stage, result, op, order, map >>
  <2>1. Content' = Content
    BY <1>1 DEF Content, Readable
  <2>2. \A u \in Tasks : InStep(u)' <=> InStep(u)
    BY <1>1, <1>4, <2>1 DEF InStep, Changed, Edited, Removed, EmptyMap, Present, Text
  <2>3. Alone'
    BY <1>4 DEF Kept, Alone, Works
  <2>4. QED
    BY <1>2, <2>2, <2>3 DEF Kept
<1>5. QED
  BY <1>3, <1>4 DEF DropCall

(* A crash ends every operation and leaves the files. *)
LEMMA KeptByCrash ==
  ASSUME Kept, Crash
  PROVE  Kept'
<1>1. Intact'
  BY IntactStays DEF Kept, Crash, files
<1>2. \A t \in Tasks : stage'[t] = "idle" /\ fd'[t] = "none"
  BY DEF Crash
<1>3. Alone' /\ \A t \in Tasks : InStep(t)'
  BY <1>2 DEF Alone, Works, InStep
<1>4. QED
  BY <1>1, <1>3 DEF Kept

(* Every step keeps the invariant. *)
LEMMA NextWhole ==
  ASSUME TypeOK, Whole, [Next]_vars
  PROVE  Whole'
<1> SUFFICES ASSUME ~overlap' PROVE Kept'
  BY DEF Whole
<1>1. CASE Next
  <2>1. ~overlap
    <3>1. (\E t \in Tasks, kind \in Ops, o \in Orders : Call(t, kind, o)) => UNCHANGED overlap
      BY DEF Call
    <3>2. (\E t \in Tasks : Acquire(t)) => (overlap => overlap')
      BY DEF Acquire
    <3>3. (\E t \in Tasks : Advance(t) \/ DropCall(t)) \/ Crash => UNCHANGED overlap
      BY DEF Advance, Load, OpenTmp, FillTmp, RenameTmp, DropCall, Crash
    <3>4. QED
      BY <1>1, <3>1, <3>2, <3>3 DEF Next
  <2>2. Kept
    BY <2>1 DEF Whole
  <2>3. (\E t \in Tasks, kind \in Ops, o \in Orders : Call(t, kind, o)) => Kept'
    BY <2>2, KeptByStart
  <2>4. \A t \in Tasks : Acquire(t) => Kept'
    BY <2>2, KeptByStart
  <2>5. \A t \in Tasks : Load(t) \/ OpenTmp(t) \/ DropCall(t) => Kept'
    BY <2>2, KeptByLoad, KeptByOpen, KeptByDrop
  <2>6. \A t \in Tasks : FillTmp(t) \/ RenameTmp(t) => Kept'
    BY <2>2, KeptByFill, KeptByRename
  <2>7. Crash => Kept'
    BY <2>2, KeptByCrash
  <2>8. QED
    BY <1>1, <2>3, <2>4, <2>5, <2>6, <2>7 DEF Next, Advance
<1>2. CASE UNCHANGED vars
  <2>1. UNCHANGED << main, tmp, stage, op, order, map, missed, fd, dropped, overlap >>
    BY <1>2 DEF vars, files, calls
  <2>2. Kept /\ Content' = Content
    BY <2>1 DEF Whole, Content, Readable
  <2>3. Intact' /\ Alone'
    BY <2>1, <2>2, IntactStays DEF Kept, Alone, Works
  <2>4. \A t \in Tasks : InStep(t)' <=> InStep(t)
    BY <2>1, <2>2 DEF InStep, Changed, Edited, Removed, EmptyMap, Present, Text
  <2>5. QED
    BY <2>2, <2>3, <2>4 DEF Kept
<1>3. QED
  BY <1>1, <1>2

(* The invariant holds at the start. *)
LEMMA InitWhole == Init => Whole
<1> SUFFICES ASSUME Init PROVE Kept
  BY DEF Whole
<1>1. Intact /\ \A t \in Tasks : stage[t] = "idle" /\ fd[t] = "none"
  BY DEF Init, Intact, NoFile
<1>2. QED
  BY <1>1 DEF Kept, Alone, Works, InStep

(* The invariant of the store's files. *)
LEMMA WholeHolds == Spec => [](TypeOK /\ Whole)
<1>1. Init => TypeOK /\ Whole
  BY InitType, InitWhole
<1>2. TypeOK /\ Whole /\ [Next]_vars => (TypeOK /\ Whole)'
  BY NextType, NextWhole
<1>3. QED
  BY <1>1, <1>2, PTL DEF Spec
-----------------------------------------------------------------------------
(* automation.rs:543, storage.rs:44 "with atomic writes": unless an         *)
(* operation has begun while the file calls of a dropped one, or of another *)
(* handle's, still ran, the file is at every moment the whole text of one   *)
(* map, through failed and cut writes, crashes and left-over files.         *)
THEOREM WholeAlways == Spec => []FileIsWhole
<1>1. TypeOK /\ Whole => FileIsWhole
  BY IntactContent DEF Whole, Kept, TypeOK, IsFile, FileIsWhole
<1>2. QED
  BY <1>1, WholeHolds, PTL

(* What every step does to the content: nothing, or it is the rename that  *)
(* ends an operation.                                                      *)
LEMMA ContentSteps ==
  ASSUME TypeOK, Whole, [Next]_vars, ~overlap'
  PROVE  \/ UNCHANGED << main, overlap >> /\ Content' = Content
         \/ \E t \in Tasks : RenameTmp(t) /\ RenameDone(t) /\ Content' = map[t]
<1>1. ~overlap /\ UNCHANGED overlap
  <2>1. (\E t \in Tasks, kind \in Ops, o \in Orders : Call(t, kind, o)) => UNCHANGED overlap
    BY DEF Call
  <2>2. (\E t \in Tasks : Acquire(t)) => (overlap => overlap')
    BY DEF Acquire
  <2>3. (\E t \in Tasks : Advance(t) \/ DropCall(t)) \/ Crash => UNCHANGED overlap
    BY DEF Advance, Load, OpenTmp, FillTmp, RenameTmp, DropCall, Crash
  <2>4. overlap => overlap'
    BY <2>1, <2>2, <2>3 DEF Next, vars
  <2>5. overlap \in BOOLEAN /\ overlap' \in BOOLEAN
    BY NextType DEF TypeOK
  <2>6. QED
    BY <2>4, <2>5
<1>2. Kept
  BY <1>1 DEF Whole
<1>3. CASE \E t \in Tasks : RenameTmp(t)
  <2>1. PICK t \in Tasks : RenameTmp(t)
    BY <1>3
  <2>2. UNCHANGED main \/ (RenameDone(t) /\ Content' = map[t])
    BY <1>2, <2>1, KeptByRename
  <2>3. UNCHANGED main => Content' = Content
    BY DEF Content, Readable
  <2>4. QED
    BY <1>1, <2>1, <2>2, <2>3
<1>4. CASE ~\E t \in Tasks : RenameTmp(t)
  <2>1. (\E t \in Tasks, kind \in Ops, o \in Orders : Call(t, kind, o)) => UNCHANGED main
    BY DEF Call, files
  <2>2. (\E t \in Tasks : Acquire(t) \/ Load(t) \/ OpenTmp(t) \/ DropCall(t)) => UNCHANGED main
    BY DEF Acquire, Load, OpenTmp, DropCall, files
  <2>3. (\E t \in Tasks : FillTmp(t)) => UNCHANGED main
    BY <1>2, KeptByFill
  <2>4. Crash \/ UNCHANGED vars => UNCHANGED main
    BY DEF Crash, vars, files
  <2>5. UNCHANGED main
    BY <1>4, <2>1, <2>2, <2>3, <2>4 DEF Next, Advance
  <2>6. QED
    BY <1>1, <2>5 DEF Content, Readable
<1>5. QED
  BY <1>3, <1>4

(* As long as nothing overlaps, a rename is an operation of the abstract   *)
(* store and everything else leaves its map alone.                         *)
LEMMA NextAtomic ==
  ASSUME TypeOK, Whole, [Next]_vars
  PROVE  [Atomic!Next]_(Atomic!vars)
<1> DEFINE abstract == IF overlap THEN EmptyMap ELSE Content
<1>o. overlap' \in BOOLEAN
  BY NextType DEF TypeOK
<1>1. CASE overlap'
  <2>1. overlap' = TRUE
    BY <1>1, <1>o
  <2>2. QED
    BY <2>1 DEF Atomic!Next, Atomic!Overlap
<1>2. CASE ~overlap' /\ UNCHANGED << main, overlap >> /\ Content' = Content
  <2>1. abstract' = abstract
    BY <1>2
  <2>2. QED
    BY <1>2, <2>1 DEF Atomic!vars
<1>3. ASSUME ~overlap', NEW t \in Tasks, RenameTmp(t), RenameDone(t), Content' = map[t]
      PROVE  Atomic!Next
  <2>1. UNCHANGED overlap /\ ~overlap
    BY <1>3 DEF RenameTmp
  <2>2. stage[t] = "rename" /\ Kept
    BY <1>3, <2>1 DEF RenameTmp, Whole
  <2>3. order[t] \in Orders /\ Changed(t)
    BY <2>2, SavedMap
  <2>4. abstract = Content /\ abstract' = map[t]
    BY <1>3, <2>1
  <2>5. ASSUME NEW b, Edited(t, b, map[t]) PROVE Atomic!Operation(b)
    <3>1. \/ b[order[t]] = "absent" /\ abstract' = [b EXCEPT ![order[t]] = "pending"]
          \/ abstract' = [b EXCEPT ![order[t]] = "delivered"]
          \/ b[order[t]] = "pending" /\ abstract' = [b EXCEPT ![order[t]] = "absent"]
      BY <2>4, <2>5 DEF Edited, Removed
    <3>2. QED
      BY <2>1, <2>3, <3>1 DEF Atomic!Operation, Atomic!Claimed, Atomic!Committed, Atomic!Released
  <2>6. CASE Edited(t, Content, map[t])
    BY <2>4, <2>5, <2>6 DEF Atomic!Next
  <2>7. CASE "stat" \in Faults /\ Edited(t, EmptyMap, map[t])
    <3>1. Atomic!EmptyMap = EmptyMap
      BY DEF Atomic!EmptyMap, EmptyMap
    <3>2. QED
      BY <2>5, <2>7, <3>1 DEF Atomic!Next, Atomic!Forget
  <2>8. QED
    BY <2>3, <2>6, <2>7 DEF Changed
<1>4. QED
  BY <1>1, <1>2, <1>3, ContentSteps

(* Each operation on the file takes effect at once, on the records that    *)
(* are in the file then, or not at all: what Delivery's store promises is  *)
(* kept by a lock, a temporary file and a rename.                          *)
THEOREM AtomicStoreImplemented == Spec => ImplementsAtomicStore
<1>1. Init => Atomic!Init
  <2> SUFFICES ASSUME Init PROVE Atomic!Init
    OBVIOUS
  <2>1. overlap = FALSE /\ Content = EmptyMap
    BY DEF Init, NoFile, Content, Readable
  <2>2. QED
    BY <2>1 DEF Atomic!Init, Atomic!EmptyMap, EmptyMap
<1>2. TypeOK /\ Whole /\ [Next]_vars => [Atomic!Next]_(Atomic!vars)
  BY NextAtomic
<1>3. QED
  BY <1>1, <1>2, WholeHolds, PTL DEF Spec, ImplementsAtomicStore, Atomic!Spec
-----------------------------------------------------------------------------
(* Only a step of an operation ends it, and how it can end.                *)
LEMMA Endings ==
  ASSUME TypeOK, Whole, Next, ~overlap', NEW t \in Tasks,
         stage[t] # "idle", stage'[t] = "idle", result'[t] # "none"
  PROVE  \/ RenameTmp(t) /\ Content' = map[t] /\ Changed(t) /\ result'[t] = "Ok"
         \/ UNCHANGED main /\ result'[t] = "Failed"
         \/ UNCHANGED main /\ Load(t) /\ result'[t] = "No"
         \/ UNCHANGED main /\ Loaded(t)
<1>1. Kept
  <2>1. ~overlap
    BY ContentSteps DEF RenameTmp
  <2>2. QED
    BY <2>1 DEF Whole
<1>r. ASSUME NEW u \in Tasks, NEW r, Return(u, r)
      PROVE  u = t /\ result'[t] = r
  BY <1>r DEF Return, TypeOK
<1>g. ASSUME NEW u \in Tasks, NEW next \in Stages \ {"idle"}, GoTo(u, next) PROVE FALSE
  BY <1>g DEF GoTo, TypeOK
<1>2. ASSUME NEW u \in Tasks, NEW kind \in Ops, NEW o \in Orders, Call(u, kind, o) PROVE FALSE
  BY <1>2 DEF Call, TypeOK
<1>3. ASSUME NEW u \in Tasks, Acquire(u) PROVE FALSE
  BY <1>3, <1>g DEF Acquire, Stages
<1>4. ASSUME NEW u \in Tasks, Load(u)
      PROVE  \/ UNCHANGED main /\ result'[t] \in {"Failed", "No"} /\ Load(t)
             \/ UNCHANGED main /\ Loaded(t)
  <2>1. UNCHANGED main
    BY <1>4 DEF Load, files
  <2>2. CASE LoadFails(u)
    <3>1. \E r \in {"Failed", "No"} : Return(u, r)
      BY <2>2 DEF LoadFails
    <3>2. u = t /\ result'[t] \in {"Failed", "No"}
      BY <3>1, <1>r
    <3>3. QED
      BY <1>4, <2>1, <3>2
  <2>3. CASE Loaded(u)
    <3>1. ASSUME NEW m, Save(u, m) PROVE FALSE
      BY <3>1, <1>g DEF Save, Stages
    <3>2. \E r : Return(u, r)
      <4>1. \A b : Changes(u, b) => \E r : Return(u, r)
        BY <3>1 DEF Changes
      <4>2. QED
        BY <2>3, <4>1 DEF Loaded
    <3>3. u = t
      BY <3>2, <1>r
    <3>4. QED
      BY <2>1, <2>3, <3>3
  <2>4. QED
    BY <1>4, <2>2, <2>3 DEF Load
<1>5. ASSUME NEW u \in Tasks, OpenTmp(u) PROVE UNCHANGED main /\ result'[t] = "Failed"
  <2>1. UNCHANGED main /\ (IoError(u) \/ GoTo(u, "fill"))
    BY <1>5 DEF OpenTmp
  <2>2. QED
    BY <2>1, <1>g, <1>r DEF IoError, Stages
<1>6. ASSUME NEW u \in Tasks, FillTmp(u) PROVE UNCHANGED main /\ result'[t] = "Failed"
  <2>1. UNCHANGED main
    BY <1>1, <1>6, KeptByFill
  <2>2. IoError(u) \/ Return(u, "none") \/ GoTo(u, "rename")
    BY <1>6 DEF FillTmp
  <2>3. ~GoTo(u, "rename")
    BY <1>g DEF Stages
  <2>4. ~Return(u, "none")
    BY <1>r
  <2>5. QED
    BY <2>1, <2>2, <2>3, <2>4, <1>r DEF IoError
<1>7. ASSUME NEW u \in Tasks, RenameTmp(u)
      PROVE  \/ RenameTmp(t) /\ Content' = map[t] /\ Changed(t) /\ result'[t] = "Ok"
             \/ UNCHANGED main /\ result'[t] = "Failed"
  <2>1. CASE RenameDone(u)
    <3>1. u = t /\ result'[t] = "Ok"
      BY <1>r, <2>1 DEF RenameDone
    <3>2. Changed(t)
      BY <1>1, <1>7, <3>1, SavedMap DEF RenameTmp
    <3>3. Content' = map[t]
      <4>1. ASSUME NEW r, r # "Ok", Return(t, r) PROVE FALSE
        BY <3>1, <4>1, <1>r
      <4>2. QED
        BY <1>1, <1>7, <3>1, <4>1, KeptByRename
    <3>4. QED
      BY <1>7, <3>1, <3>2, <3>3
  <2>2. CASE Return(u, "Failed") /\ UNCHANGED << files, fd >>
    BY <2>2, <1>r DEF files
  <2>3. QED
    BY <1>7, <2>1, <2>2 DEF RenameTmp
<1>8. ASSUME NEW u \in Tasks, DropCall(u) PROVE FALSE
  <2>1. ~Return(u, "none")
    BY <1>r
  <2>2. UNCHANGED stage
    BY <1>8, <2>1 DEF DropCall
  <2>3. QED
    BY <2>2
<1>9. ASSUME Crash PROVE FALSE
  BY <1>9 DEF Crash
<1>10. CASE \E u \in Tasks : Advance(u)
  BY <1>4, <1>5, <1>6, <1>7, <1>10 DEF Advance
<1>11. QED
  BY <1>2, <1>3, <1>8, <1>9, <1>10 DEF Next

(* What the step that ends an operation answers is true of the records.   *)
LEMMA TrueAnswer ==
  ASSUME TypeOK, Whole, Next, ~overlap', NEW t \in Tasks,
         stage[t] # "idle", stage'[t] = "idle", result'[t] # "none"
  PROVE  /\ result'[t] = "Ok" /\ op[t] = "claim"
              => (Content[order[t]] = "absent" \/ missed[t]) /\ Content'[order[t]] = "pending"
         /\ result'[t] = "Ok" /\ op[t] = "commit"  => Content'[order[t]] = "delivered"
         /\ result'[t] = "Ok" /\ op[t] = "release"
              => Content'[order[t]] # "pending" \/ missed'[t]
         /\ result'[t] \in {"AlreadyDelivered", "Yes"} => Content'[order[t]] # "absent"
         /\ result'[t] = "Failed" => UNCHANGED main
<1>1. ~overlap /\ order[t] \in Orders
  <2>1. ~overlap
    BY ContentSteps DEF RenameTmp
  <2>2. QED
    BY <2>1 DEF TypeOK
<1>2. Content \in Maps
  BY <1>1, IntactContent DEF Whole, Kept, TypeOK, IsFile
<1>3. CASE Content' = map[t] /\ Changed(t) /\ result'[t] = "Ok"
  <2>1. EmptyMap \in Maps
    BY EmptyIsFinite
  <2>2. ASSUME NEW b \in Maps, Edited(t, b, map[t])
        PROVE  /\ op[t] = "claim" => b[order[t]] = "absent" /\ Content'[order[t]] = "pending"
               /\ op[t] = "commit" => Content'[order[t]] = "delivered"
               /\ op[t] = "release" => Content'[order[t]] = "absent"
    BY <1>1, <1>3, <2>2 DEF Edited, Removed, Maps
  <2>3. QED
    BY <1>2, <1>3, <2>1, <2>2 DEF Changed
<1>4. CASE UNCHANGED main /\ result'[t] \in {"Failed", "No"}
  BY <1>4
<1>5. CASE UNCHANGED main /\ Loaded(t)
  <2>1. Content' = Content
    BY <1>5 DEF Content, Readable
  <2>2. ASSUME NEW m, Save(t, m) PROVE FALSE
    BY <2>2 DEF Save, GoTo, TypeOK
  <2>3. ASSUME NEW r, Return(t, r) PROVE result'[t] = r
    BY <2>3 DEF Return, TypeOK
  <2>4. ASSUME NEW b, Changes(t, b)
        PROVE  \/ op[t] = "contains" /\ b[order[t]] = "absent" /\ result'[t] = "No"
               \/ op[t] = "contains" /\ b[order[t]] # "absent" /\ result'[t] = "Yes"
               \/ op[t] = "claim" /\ b[order[t]] # "absent" /\ result'[t] = "AlreadyDelivered"
               \/ op[t] = "release" /\ b[order[t]] # "pending" /\ result'[t] = "Ok"
    BY <2>2, <2>3, <2>4 DEF Changes
  <2>5. Changes(t, Content) \/ (Changes(t, EmptyMap) /\ missed'[t])
    BY <1>5 DEF Loaded, TypeOK
  <2>6. EmptyMap[order[t]] = "absent"
    BY <1>1 DEF EmptyMap
  <2>7. QED
    BY <2>1, <2>4, <2>5, <2>6
<1>6. QED
  BY <1>3, <1>4, <1>5, Endings

(* The answers of the store's operations: Ok says that the change is in    *)
(* the file, AlreadyDelivered and Yes that the order has a record there,   *)
(* and after an error the file is as it was.                               *)
THEOREM AnswersTellTheFile == Spec => AnswersAreTrue
<1> DEFINE Answer(t) ==
             LET o == order[t]
                 before == Content[o]
                 after  == Content'[o]
                 ended(r) == stage[t] # "idle" /\ stage'[t] = "idle" /\ result'[t] = r
             IN ~overlap' =>
                  /\ ended("Ok") /\ op[t] = "claim"   =>
                       (before = "absent" \/ missed[t]) /\ after = "pending"
                  /\ ended("Ok") /\ op[t] = "commit"  => after = "delivered"
                  /\ ended("Ok") /\ op[t] = "release" => after # "pending" \/ missed'[t]
                  /\ ended("AlreadyDelivered") \/ ended("Yes") => after # "absent"
                  /\ ended("Failed") => UNCHANGED main
<1>1. TypeOK /\ Whole /\ [Next]_vars => [\A t \in Tasks : Answer(t)]_vars
  <2> SUFFICES ASSUME TypeOK, Whole, Next, ~overlap', NEW t \in Tasks,
                      stage[t] # "idle", stage'[t] = "idle", result'[t] # "none"
               PROVE  Answer(t)
    OBVIOUS
  <2>1. QED
    BY TrueAnswer
<1>2. QED
  BY <1>1, WholeHolds, PTL DEF Spec, AnswersAreTrue
=============================================================================
