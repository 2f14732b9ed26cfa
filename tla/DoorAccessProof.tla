--------------------------- MODULE DoorAccessProof ---------------------------
(***************************************************************************)
(* Proofs about DoorAccess, for every set of requests, doors, people, rows *)
(* and scans, and every number of doors and rows in hand.                  *)
(*                                                                         *)
(* KeptOK is the inductive invariant: what a request holds before it       *)
(* writes, and what a transaction has written and not committed, is as     *)
(* good as a row.  AloneOK adds how far a request that no other overlapped *)
(* has come.                                                               *)
(***************************************************************************)
EXTENDS DoorAccess, TLAPS

\* The scan of an assignment is of the type that its status asks for.
Signed(a) == scan[a.by] = IF a.status = "ACTIVE" THEN "GRANT" ELSE "REVOCATION"

\* Its door is there, and so is the person if it names one.
Stands(a) ==
    /\ door[a.door] # "none"
    /\ a.who # NoOne => person[a.who] # "none"

\* A grant works on doors for a person, a revocation on rows; past "attach" the task
\* has a scan of its type.
GoodTask(t) ==
    /\ t.todo \subseteq t.all
    /\ t.op = "grant" =>
          /\ t.type = "GRANT" /\ t.who \in People /\ t.all \subseteq Doors
          /\ t.pc \in {"people", "attach", "match", "write"}
    /\ t.op = "revoke" =>
          /\ t.type = "REVOCATION" /\ t.all \subseteq Rows
          /\ t.pc \in {"attach", "close"}
    /\ t.pc \in {"match", "write", "close"} => t.scan \in Scans /\ scan[t.scan] = t.type
    /\ t.pc = "write" => t.place \in Doors

\* Only a task in its transaction, and with work left, has written rows that it has
\* not committed.
Writing(t) ==
    /\ t \in Task
    /\ \/ t.pc \in {"match", "write"}
       \/ t.pc = "close" /\ t.todo # {}

\* The records of scans are those whose file was saved, and stays or was taken away.
Recorded == file \cup undone = {s \in Scans : scan[s] # "none"}

KeptOK ==
    /\ TypeOK
    /\ req = [r \in Requests |-> req[r]] /\ mine = [r \in Requests |-> mine[r]]
    /\ Recorded
    /\ \A i \in Rows : row[i] # Gone => Signed(row[i])
    /\ \A r \in Requests :
          /\ req[r] \in Task => GoodTask(req[r])
          /\ DOMAIN mine[r] # {} => Writing(req[r])
          /\ \A i \in DOMAIN mine[r] : Signed(mine[r][i]) /\ Stands(mine[r][i])

\* The others are idle.
OnItsOwn(r) == \A q \in Requests \ {r} : At(q, "idle")

\* Two rows of v that have one door and person have both been there before.
AddsNone(v) ==
    \A i, j \in Rows :
       /\ i # j /\ v[i] # Gone /\ v[j] # Gone
       /\ v[i].who = v[j].who /\ v[i].door = v[j].door
       => row[i] # Gone /\ row[j] # Gone

\* What the transaction of r sees, and what it will when it has written a to row i.
View(r) == [j \in Rows |-> Row(r, j)]
After(r, i, a) == [j \in Rows |-> IF j = i THEN a ELSE Row(r, j)]

\* The doors of a grant that are not left have their open row among those it has written.
Opened(r) ==
    \A d \in req[r].all \ (req[r].todo \cup {req[r].place}) : \E i \in DOMAIN mine[r] :
       /\ mine[r][i].status = "ACTIVE" /\ mine[r][i].by = req[r].scan
       /\ mine[r][i].door = d /\ mine[r][i].who = req[r].who

\* What a grant found is still so when it writes.
FoundStill(r) ==
    IF req[r].found = NoRow
    THEN \A i \in Rows : Row(r, i) # Gone =>
            Row(r, i).door # req[r].place \/ Row(r, i).who # req[r].who
    ELSE /\ Row(r, req[r].found) # Gone
         /\ Row(r, req[r].found).door = req[r].place
         /\ Row(r, req[r].found).who = req[r].who

\* The rows of a revocation that are not left are closed.
Closed(r) == \A i \in req[r].all \ req[r].todo : Row(r, i).status = "REVOKED"

Progress(r) ==
    /\ OnItsOwn(r)
    /\ req[r] \in Task =>
          /\ AddsNone(View(r))
          /\ req[r].pc # "write" => req[r].place = NoDoor
          /\ req[r].op = "grant" => Opened(r)
          /\ req[r].op = "revoke" => Closed(r)
          /\ req[r].pc = "write" => FoundStill(r)

AloneOK == \A r \in Requests : alone[r] => Progress(r)
-----------------------------------------------------------------------------
(* The scans are kept.                                                     *)

\* In the beginning there is nothing.
LEMMA KeptInit == Init => KeptOK
  BY DoorsAssumption DEF Init, HandlersInit, KeptOK, TypeOK, Recorded, Empty, Gone, Idle, Task, GoodTask, Types

\* Idle is no task, and a delete is none of a grant or a revocation.
LEMMA KindsOfTask ==
    /\ Idle \notin Task /\ Idle \notin DeleteTask
    /\ \A t \in DeleteTask : t \notin Task
    /\ \A t \in Task \cup DeleteTask : t.pc # "idle"
  BY DEF Idle, Task, DeleteTask

\* A request that changes only its own record.
LEMMA OnlyHandler ==
    ASSUME KeptOK, NEW r \in Requests, NEW t \in {Idle} \cup Task \cup DeleteTask,
           req' = [req EXCEPT ![r] = t], alone' \in [Requests -> BOOLEAN], UNCHANGED doors,
           t \in Task => GoodTask(t), DOMAIN mine[r] # {} => Writing(t)
    PROVE  KeptOK'
<1>1. \A q \in Requests : req'[q] = IF q = r THEN t ELSE req[q]
  BY DEF KeptOK
<1>2. TypeOK'
  BY <1>1 DEF KeptOK, TypeOK, doors
<1>3. \A q \in Requests : (req[q] \in Task => GoodTask(req[q]))'
  BY <1>1 DEF KeptOK, GoodTask, doors
<1>4. \A q \in Requests : (DOMAIN mine[q] # {} => Writing(req[q]))'
  BY <1>1 DEF KeptOK, Writing, doors
<1> QED BY <1>1, <1>2, <1>3, <1>4 DEF KeptOK, doors, Signed, Stands, Recorded

\* No other than an idle request starts, and its transaction is empty.
LEMMA StartsIdle ==
    ASSUME KeptOK, NEW r \in Requests, NEW t, Begin(r, t)
    PROVE  /\ req' = [req EXCEPT ![r] = t] /\ alone' \in [Requests -> BOOLEAN]
           /\ DOMAIN mine[r] = {}
<1>1. ~Writing(req[r])
  BY KindsOfTask DEF Begin, At, Writing
<1> QED BY <1>1 DEF KeptOK, Begin, At

\* The history is a flag per request.
LEMMA FlagsType ==
    ASSUME KeptOK, NEW r \in Requests
    PROVE  /\ Finish(r) => req' = [req EXCEPT ![r] = Idle] /\ alone' \in [Requests -> BOOLEAN]
           /\ \A t : Continue(r, t) =>
                 req' = [req EXCEPT ![r] = t] /\ alone' \in [Requests -> BOOLEAN]
           /\ Instant => UNCHANGED req /\ alone' \in [Requests -> BOOLEAN]
<1>1. alone \in [Requests -> BOOLEAN]
  BY DEF KeptOK, TypeOK
<1>2. Finish(r) => req' = [req EXCEPT ![r] = Idle] /\ alone' \in [Requests -> BOOLEAN]
  BY <1>1 DEF Finish
<1>3. \A t : Continue(r, t) => req' = [req EXCEPT ![r] = t] /\ alone' \in [Requests -> BOOLEAN]
  BY <1>1 DEF Continue
<1>4. Instant => UNCHANGED req /\ alone' \in [Requests -> BOOLEAN]
  BY <1>1 DEF Instant
<1> QED BY <1>2, <1>3, <1>4

\* A request that begins with a task of its own.
LEMMA StartKept ==
    ASSUME KeptOK, NEW r \in Requests, NEW t \in Task \cup DeleteTask, Begin(r, t),
           UNCHANGED doors, t \in Task => GoodTask(t)
    PROVE  KeptOK'
  BY StartsIdle, OnlyHandler

\* One that goes on, with nothing written.
LEMMA ContinueKept ==
    ASSUME KeptOK, NEW r \in Requests, NEW t \in Task, Continue(r, t), UNCHANGED doors,
           GoodTask(t), DOMAIN mine[r] # {} => Writing(t)
    PROVE  KeptOK'
  BY FlagsType, OnlyHandler

\* A statement on doors, people and rows: a request ends, or none is touched.
LEMMA TablesKept ==
    ASSUME KeptOK, alone' \in [Requests -> BOOLEAN],
           UNCHANGED <<scan, file, undone, mine>>,
           \/ UNCHANGED req
           \/ \E r \in Requests : DOMAIN mine[r] = {} /\ req' = [req EXCEPT ![r] = Idle],
           door' \in [Doors -> {"none", "ACTIVE", "INACTIVE"}],
           person' \in [People -> {"none", "ACTIVE", "BLACKLISTED", "employee"}],
           row' \in [Rows -> Assignment \cup {Gone}],
           (\A i \in Rows : row[i] # Gone => Signed(row[i]) /\ Stands(row[i]))',
           \A r \in Requests : \A i \in DOMAIN mine[r] : Stands(mine[r][i])'
    PROVE  KeptOK'
<1>1. (\A i \in Rows : row[i] # Gone =>
          door[row[i].door] # "none" /\ (row[i].who # NoOne => person[row[i].who] # "none"))'
  BY DEF Stands
<1>2. /\ req' = [q \in Requests |-> req'[q]]
      /\ \A q \in Requests : DOMAIN mine[q] # {} \/ req'[q] # Idle => req'[q] = req[q]
  BY DEF KeptOK
<1>3. TypeOK'
  BY <1>1, <1>2 DEF KeptOK, TypeOK
<1>4. \A q \in Requests : (req[q] \in Task => GoodTask(req[q]))'
  BY <1>2, KindsOfTask DEF KeptOK, GoodTask
<1>5. \A q \in Requests : (DOMAIN mine[q] # {} => Writing(req[q]))'
  BY <1>2 DEF KeptOK, Writing
<1> QED BY <1>2, <1>3, <1>4, <1>5 DEF KeptOK, Recorded, Signed

\* A door or a person is set: nothing that stood falls.
LEMMA SetDoorKept ==
    ASSUME KeptOK, NEW d \in Doors, NEW status \in {"ACTIVE", "INACTIVE"}, SetDoor(d, status)
    PROVE  KeptOK'
<1>1. /\ alone' \in [Requests -> BOOLEAN] /\ UNCHANGED <<req, scan, file, undone, mine, row, person>>
      /\ door' = [door EXCEPT ![d] = status]
  BY DEF SetDoor, Instant
<1>2. door \in [Doors -> {"none", "ACTIVE", "INACTIVE"}]
  BY DEF KeptOK, TypeOK
<1>3. \A e \in Doors : door[e] # "none" => door'[e] # "none"
  BY <1>1, <1>2
<1>4. (\A i \in Rows : row[i] # Gone => Signed(row[i]) /\ Stands(row[i]))'
  <2> SUFFICES ASSUME NEW i \in Rows, row[i] # Gone PROVE Signed(row[i])' /\ Stands(row[i])'
    BY <1>1
  <2>1. row[i] \in Assignment
    BY DEF KeptOK, TypeOK
  <2>2. row[i].door \in Doors
    BY <2>1 DEF Assignment
  <2> QED BY <1>1, <1>3, <2>2 DEF KeptOK, TypeOK, Stands, Signed
<1>5. ASSUME NEW r \in Requests, NEW i \in DOMAIN mine[r] PROVE Stands(mine[r][i])'
  <2>1. mine[r][i] \in Assignment
    BY DEF KeptOK, TypeOK
  <2>2. mine[r][i].door \in Doors
    BY <2>1 DEF Assignment
  <2> QED BY <1>1, <1>3, <2>2 DEF KeptOK, Stands
<1> QED BY <1>1, <1>2, <1>4, <1>5, TablesKept DEF KeptOK, TypeOK

\* A change of a person's status cites no scan.
LEMMA SetPersonKept ==
    ASSUME KeptOK, NEW p \in People, NEW status \in {"ACTIVE", "BLACKLISTED", "employee"},
           SetPerson(p, status)
    PROVE  KeptOK'
<1>1. /\ alone' \in [Requests -> BOOLEAN] /\ UNCHANGED <<req, scan, file, undone, mine, row, door>>
      /\ person' = [person EXCEPT ![p] = status]
  BY DEF SetPerson, Instant
<1>2. person \in [People -> {"none", "ACTIVE", "BLACKLISTED", "employee"}]
  BY DEF KeptOK, TypeOK
<1>3. \A e \in People : person[e] # "none" => person'[e] # "none"
  BY <1>1, <1>2
<1>4. (\A i \in Rows : row[i] # Gone => Signed(row[i]) /\ Stands(row[i]))'
  <2> SUFFICES ASSUME NEW i \in Rows, row[i] # Gone PROVE Signed(row[i])' /\ Stands(row[i])'
    BY <1>1
  <2>1. row[i] \in Assignment
    BY DEF KeptOK, TypeOK
  <2>2. row[i].who \in People \cup {NoOne}
    BY <2>1 DEF Assignment
  <2> QED BY <1>1, <1>3, <2>2 DEF KeptOK, TypeOK, Stands, Signed
<1>5. ASSUME NEW r \in Requests, NEW i \in DOMAIN mine[r] PROVE Stands(mine[r][i])'
  <2>1. mine[r][i] \in Assignment
    BY DEF KeptOK, TypeOK
  <2>2. mine[r][i].who \in People \cup {NoOne}
    BY <2>1 DEF Assignment
  <2> QED BY <1>1, <1>3, <2>2 DEF KeptOK, Stands
<1> QED BY <1>1, <1>2, <1>4, <1>5, TablesKept DEF KeptOK, TypeOK

\* A door goes with its assignments, and no transaction has written one of it.
LEMMA DeleteDoorKept ==
    ASSUME KeptOK, NEW r \in Requests, DeleteDoor(r)
    PROVE  KeptOK'
<1> DEFINE d == req[r].target
<1>1. /\ alone' \in [Requests -> BOOLEAN] /\ UNCHANGED <<scan, file, undone, mine, person>>
      /\ req' = [req EXCEPT ![r] = Idle] /\ \A a \in Uncommitted : a.door # d
      /\ door' = [door EXCEPT ![d] = "none"]
      /\ row' = [i \in Rows |-> IF row[i] # Gone /\ row[i].door = d THEN Gone ELSE row[i]]
  BY FlagsType DEF DeleteDoor
<1>2. req[r].pc = "deleteDoor"
  BY DEF DeleteDoor, At
<1>3. DOMAIN mine[r] = {}
  BY <1>2 DEF KeptOK, Writing, Task
<1>4. door \in [Doors -> {"none", "ACTIVE", "INACTIVE"}] /\ row \in [Rows -> Assignment \cup {Gone}]
  BY DEF KeptOK, TypeOK
<1>5. (\A i \in Rows : row[i] # Gone => Signed(row[i]) /\ Stands(row[i]))'
  <2> SUFFICES ASSUME NEW i \in Rows, row'[i] # Gone PROVE Signed(row[i])' /\ Stands(row[i])'
    OBVIOUS
  <2>1. row'[i] = row[i] /\ row[i] # Gone /\ row[i].door # d
    BY <1>1
  <2> QED BY <1>1, <1>4, <2>1 DEF KeptOK, TypeOK, Stands, Signed
<1>6. ASSUME NEW q \in Requests, NEW i \in DOMAIN mine[q] PROVE Stands(mine[q][i])'
  <2>1. mine[q][i] \in Uncommitted
    BY DEF Uncommitted
  <2> QED BY <1>1, <1>4, <2>1 DEF KeptOK, Stands
<1>7. row' \in [Rows -> Assignment \cup {Gone}]
  BY <1>1, <1>4
<1>8. door' \in [Doors -> {"none", "ACTIVE", "INACTIVE"}]
  BY <1>1, <1>4
<1> HIDE DEF d
<1>9. person' \in [People -> {"none", "ACTIVE", "BLACKLISTED", "employee"}]
  BY <1>1 DEF KeptOK, TypeOK
<1> QED BY <1>1, <1>3, <1>5, <1>6, <1>7, <1>8, <1>9, TablesKept

\* A person leaves the assignments, and no transaction has written one of theirs.
LEMMA RemovePersonKept ==
    ASSUME KeptOK, NEW p, RemovePerson(p), alone' \in [Requests -> BOOLEAN],
           \/ UNCHANGED req
           \/ \E r \in Requests : DOMAIN mine[r] = {} /\ req' = [req EXCEPT ![r] = Idle]
    PROVE  KeptOK'
<1>1. /\ UNCHANGED <<scan, file, undone, mine, door>> /\ \A a \in Uncommitted : a.who # p
      /\ person' = [person EXCEPT ![p] = "none"]
      /\ row' = [i \in Rows |-> IF row[i] # Gone /\ row[i].who = p
                                THEN [row[i] EXCEPT !.who = NoOne] ELSE row[i]]
  BY DEF RemovePerson
<1>2. /\ person \in [People -> {"none", "ACTIVE", "BLACKLISTED", "employee"}]
      /\ row \in [Rows -> Assignment \cup {Gone}]
  BY DEF KeptOK, TypeOK
<1>3. ASSUME NEW i \in Rows PROVE row'[i] \in Assignment \cup {Gone}
  <2>1. row[i] \in Assignment => [row[i] EXCEPT !.who = NoOne] \in Assignment
    BY DEF Assignment
  <2> QED BY <1>1, <1>2, <2>1
<1>4. ASSUME NEW i \in Rows, row'[i] # Gone PROVE Signed(row[i])' /\ Stands(row[i])'
  <2>1. row[i] # Gone /\ row[i] \in Assignment
    BY <1>1, <1>2, <1>4
  <2>2. /\ row'[i].by = row[i].by /\ row'[i].status = row[i].status
        /\ row'[i].door = row[i].door
        /\ row'[i].who = IF row[i].who = p THEN NoOne ELSE row[i].who
    BY <1>1, <2>1 DEF Assignment
  <2> QED BY <1>1, <1>2, <2>1, <2>2 DEF KeptOK, TypeOK, Stands, Signed
<1>5. ASSUME NEW q \in Requests, NEW i \in DOMAIN mine[q] PROVE Stands(mine[q][i])'
  <2>1. mine[q][i] \in Uncommitted
    BY DEF Uncommitted
  <2> QED BY <1>1, <1>2, <2>1 DEF KeptOK, Stands
<1>6. row' \in [Rows -> Assignment \cup {Gone}]
  BY <1>1, <1>3
<1>7. person' \in [People -> {"none", "ACTIVE", "BLACKLISTED", "employee"}]
  BY <1>1, <1>2
<1>8. door' \in [Doors -> {"none", "ACTIVE", "INACTIVE"}]
  BY <1>1 DEF KeptOK, TypeOK
<1> QED BY <1>1, <1>4, <1>5, <1>6, <1>7, <1>8, TablesKept

\* An external is deleted by a request, which has no transaction.
LEMMA DeleteExternalKept ==
    ASSUME KeptOK, NEW r \in Requests, DeleteExternal(r)
    PROVE  KeptOK'
<1>1. req[r].pc = "deleteExternal" /\ RemovePerson(req[r].target) /\ Finish(r)
  BY DEF DeleteExternal, At
<1>2. DOMAIN mine[r] = {}
  BY <1>1 DEF KeptOK, Writing, Task
<1> QED BY <1>1, <1>2, FlagsType, RemovePersonKept

\* A refused request gives back what it wrote; the file it saved goes, or stays.
LEMMA AbortKept ==
    ASSUME KeptOK, NEW r \in Requests, Abort(r)
    PROVE  KeptOK'
<1> DEFINE saved == {s \in file : req[r] \in Task /\ req[r].own /\ s = req[r].scan}
<1>1. /\ mine' = [mine EXCEPT ![r] = Empty] /\ UNCHANGED <<door, person, row, scan>>
      /\ \/ file' = file \ saved /\ undone' = undone \cup saved
         \/ UNCHANGED <<file, undone>>
  BY DEF Abort
<1>2. req' = [req EXCEPT ![r] = Idle] /\ alone' \in [Requests -> BOOLEAN]
  BY FlagsType DEF Abort
<1>3. saved \subseteq file
  OBVIOUS
<1> HIDE DEF saved
<1>4. \A q \in Requests : req'[q] = IF q = r THEN Idle ELSE req[q]
  BY <1>2 DEF KeptOK
<1>5. \A q \in Requests : mine'[q] = IF q = r THEN Empty ELSE mine[q]
  BY <1>1 DEF KeptOK
<1>6. DOMAIN Empty = {}
  BY DEF Empty
<1>7. (file' \cup undone') = (file \cup undone) /\ file' \subseteq Scans /\ undone' \subseteq Scans \ file'
  BY <1>1, <1>3 DEF KeptOK, TypeOK
<1>8. TypeOK'
  BY <1>1, <1>2, <1>4, <1>5, <1>6, <1>7 DEF KeptOK, TypeOK
<1>9. \A q \in Requests : (req[q] \in Task => GoodTask(req[q]))'
  BY <1>1, <1>4, KindsOfTask DEF KeptOK, GoodTask
<1>10. \A q \in Requests : (DOMAIN mine[q] # {} => Writing(req[q]))'
  BY <1>4, <1>5, <1>6 DEF KeptOK, Writing
<1>11. \A q \in Requests : \A i \in DOMAIN mine'[q] : (Signed(mine[q][i]) /\ Stands(mine[q][i]))'
  BY <1>1, <1>5, <1>6 DEF KeptOK, Signed, Stands
<1> QED BY <1>1, <1>2, <1>7, <1>8, <1>9, <1>10, <1>11 DEF KeptOK, Recorded, Signed

\* A scan that is kept is new: what was signed stays signed.
LEMMA KeepFacts ==
    ASSUME KeptOK, NEW s \in Scans, NEW type \in Types, Keep(s, type)
    PROVE  /\ UNCHANGED <<door, person, row, mine, undone>>
           /\ file' = file \cup {s} /\ scan' = [scan EXCEPT ![s] = type]
           /\ scan \in [Scans -> Types \cup {"none"}]
           /\ scan' \in [Scans -> Types \cup {"none"}]
           /\ Recorded' /\ file' \subseteq Scans /\ undone' \subseteq Scans \ file'
           /\ \A x \in Scans : scan[x] # "none" => scan'[x] = scan[x]
<1>1. /\ UNCHANGED <<door, person, row, mine, undone>> /\ scan[s] = "none"
      /\ file' = file \cup {s} /\ scan' = [scan EXCEPT ![s] = type]
  BY DEF Keep
<1>2. scan \in [Scans -> Types \cup {"none"}] /\ file \subseteq Scans /\ undone \subseteq Scans \ file
  BY DEF KeptOK, TypeOK
<1>3. type # "none"
  BY DEF Types
<1>4. s \notin undone
  BY <1>1 DEF KeptOK, Recorded
<1>5. Recorded'
  BY <1>1, <1>2, <1>3 DEF KeptOK, Recorded
<1> QED BY <1>1, <1>2, <1>4, <1>5

\* It is recorded for a request that goes on with it, or by itself.
LEMMA KeepKept ==
    ASSUME KeptOK, NEW s \in Scans, NEW type \in Types, Keep(s, type),
           alone' \in [Requests -> BOOLEAN],
           \/ UNCHANGED req
           \/ \E r \in Requests, t \in Task :
                 /\ req' = [req EXCEPT ![r] = t] /\ GoodTask(t)'
                 /\ DOMAIN mine[r] # {} => Writing(t)
    PROVE  KeptOK'
<1>1. /\ UNCHANGED <<door, person, row, mine, undone>> /\ Recorded'
      /\ scan \in [Scans -> Types \cup {"none"}] /\ scan' \in [Scans -> Types \cup {"none"}]
      /\ file' \subseteq Scans /\ undone' \subseteq Scans \ file'
      /\ \A x \in Scans : scan[x] # "none" => scan'[x] = scan[x]
  BY KeepFacts
<1>2. /\ req' = [q \in Requests |-> req'[q]]
      /\ \A q \in Requests : \/ req'[q] = req[q]
                             \/ /\ req'[q] \in Task /\ GoodTask(req[q])'
                                /\ DOMAIN mine[q] # {} => Writing(req'[q])
  BY DEF KeptOK, GoodTask
<1>3. TypeOK'
  BY <1>1, <1>2 DEF KeptOK, TypeOK
<1>4. ASSUME NEW t \in Task, GoodTask(t) PROVE GoodTask(t)'
  <2>1. t.type # "none"
    BY DEF Task, Types
  <2> QED BY <1>1, <1>4, <2>1 DEF GoodTask
<1>5. \A q \in Requests : (req[q] \in Task => GoodTask(req[q]))'
  BY <1>2, <1>4 DEF KeptOK
<1>6. \A q \in Requests : (DOMAIN mine[q] # {} => Writing(req[q]))'
  BY <1>1, <1>2 DEF KeptOK, Writing
<1>7. ASSUME NEW a \in Assignment, Signed(a) PROVE Signed(a)'
  <2>1. a.by \in Scans
    BY DEF Assignment
  <2> QED BY <1>1, <1>7, <2>1 DEF Signed
<1>8. \A i \in Rows : (row[i] # Gone => Signed(row[i]))'
  BY <1>1, <1>7 DEF KeptOK, TypeOK
<1>9. \A q \in Requests : \A i \in DOMAIN mine'[q] : (Signed(mine[q][i]) /\ Stands(mine[q][i]))'
  BY <1>1, <1>7 DEF KeptOK, TypeOK, Stands
<1> QED BY <1>1, <1>2, <1>3, <1>5, <1>6, <1>8, <1>9 DEF KeptOK

\* A document that is uploaded takes no scan from anybody.
LEMMA UploadKept ==
    ASSUME KeptOK, NEW s \in Scans, NEW type \in Types, UploadDocument(s, type)
    PROVE  KeptOK'
  BY KeepKept DEF UploadDocument, Instant

\* The task that a request goes on with once it has a scan of its type.
LEMMA AttachTask ==
    ASSUME KeptOK, NEW r \in Requests, At(r, "attach"), NEW s \in Scans,
           NEW own \in BOOLEAN
    PROVE  /\ req[r] \in Task /\ DOMAIN mine[r] = {}
           /\ \E t \in Task :
                 /\ t = [req[r] EXCEPT !.pc = Attached(r), !.scan = s, !.own = own]
                 /\ scan[s] = req[r].type => GoodTask(t)
                 /\ scan'[s] = req[r].type => GoodTask(t)'
<1>1. req[r] \in Task /\ req[r].pc = "attach"
  BY DEF KeptOK, TypeOK, At, Idle, DeleteTask
<1>2. GoodTask(req[r])
  BY <1>1 DEF KeptOK
<1>3. DOMAIN mine[r] = {}
  BY <1>1 DEF KeptOK, Writing
<1>4. Attached(r) = IF req[r].op = "grant" THEN "match" ELSE "close"
  BY DEF Attached
<1>5. PICK t : t = [req[r] EXCEPT !.pc = Attached(r), !.scan = s, !.own = own]
  OBVIOUS
<1>6. t \in Task
  BY <1>1, <1>4, <1>5 DEF Task
<1>7. /\ t.pc = Attached(r) /\ t.scan = s /\ t.op = req[r].op /\ t.type = req[r].type
      /\ t.who = req[r].who /\ t.all = req[r].all /\ t.todo = req[r].todo
      /\ t.op \in {"grant", "revoke"}
  BY <1>1, <1>5 DEF Task
<1>8. scan[s] = req[r].type => GoodTask(t)
  BY <1>2, <1>4, <1>7 DEF GoodTask
<1>9. scan'[s] = req[r].type => GoodTask(t)'
  BY <1>2, <1>4, <1>7 DEF GoodTask
<1> QED BY <1>1, <1>3, <1>5, <1>6, <1>8, <1>9

\* The scan that a request saved has its type and its file.
LEMMA SaveScanKept ==
    ASSUME KeptOK, NEW r \in Requests, NEW s \in Scans, SaveScan(r, s)
    PROVE  KeptOK'
<1>1. /\ At(r, "attach") /\ Keep(s, req[r].type)
      /\ Continue(r, [req[r] EXCEPT !.pc = Attached(r), !.scan = s, !.own = TRUE])
  BY DEF SaveScan
<1>2. req[r] \in Task /\ DOMAIN mine[r] = {}
  BY <1>1, AttachTask
<1>3. req[r].type \in Types
  BY <1>2 DEF Task
<1>4. scan'[s] = req[r].type
  BY <1>1, <1>3, KeepFacts
<1>5. PICK t \in Task : /\ t = [req[r] EXCEPT !.pc = Attached(r), !.scan = s, !.own = TRUE]
                        /\ GoodTask(t)'
  BY <1>1, <1>4, AttachTask
<1>6. Continue(r, t)
  BY <1>1, <1>5
<1>7. req' = [req EXCEPT ![r] = t] /\ alone' \in [Requests -> BOOLEAN]
  BY <1>6, FlagsType
<1>8. \E q \in Requests, u \in Task :
         req' = [req EXCEPT ![q] = u] /\ GoodTask(u)' /\ (DOMAIN mine[q] # {} => Writing(u))
  BY <1>2, <1>5, <1>7
<1>9. ASSUME NEW type \in Types, Keep(s, type) PROVE KeptOK'
  BY <1>7, <1>8, <1>9, KeepKept
<1>10. PICK type \in Types : Keep(s, type)
  BY <1>1, <1>3
<1> QED BY <1>9, <1>10

\* A scan that a request finds recorded has the type it looked for.
LEMMA FindScanKept ==
    ASSUME KeptOK, NEW r \in Requests, NEW s \in Scans, FindScan(r, s)
    PROVE  KeptOK'
<1>1. /\ At(r, "attach") /\ scan[s] = req[r].type /\ UNCHANGED doors
      /\ Continue(r, [req[r] EXCEPT !.pc = Attached(r), !.scan = s])
  BY DEF FindScan
<1>2. req[r] \in Task
  BY <1>1 DEF KeptOK, TypeOK, At, Idle, DeleteTask
<1>3. PICK own \in BOOLEAN : own = req[r].own
  BY <1>2 DEF Task
<1>4. [req[r] EXCEPT !.pc = Attached(r), !.scan = s]
         = [req[r] EXCEPT !.pc = Attached(r), !.scan = s, !.own = own]
  BY <1>2, <1>3 DEF Task
<1>5. At(r, "attach")
  BY <1>1
<1>6. PICK t \in Task : /\ t = [req[r] EXCEPT !.pc = Attached(r), !.scan = s, !.own = own]
                        /\ scan[s] = req[r].type => GoodTask(t)
                        /\ scan'[s] = req[r].type => GoodTask(t)'
  BY <1>5, AttachTask
<1>7. DOMAIN mine[r] = {}
  BY <1>5, AttachTask
<1>8. Continue(r, t) /\ GoodTask(t)
  BY <1>1, <1>4, <1>6
<1> QED BY <1>1, <1>7, <1>8, ContinueKept

\* The statements of a grant before it writes.
LEMMA CheckPersonKept ==
    ASSUME KeptOK, NEW r \in Requests, CheckPerson(r)
    PROVE  KeptOK'
<1> DEFINE t == [req[r] EXCEPT !.pc = "attach"]
<1>1. At(r, "people") /\ Continue(r, t) /\ UNCHANGED doors
  BY DEF CheckPerson, Goto
<1>2. req[r] \in Task /\ req[r].pc = "people"
  BY <1>1 DEF KeptOK, TypeOK, At, Idle, DeleteTask
<1>3. GoodTask(req[r]) /\ DOMAIN mine[r] = {}
  BY <1>2 DEF KeptOK, Writing
<1>4. t \in Task
  BY <1>2 DEF Task
<1>5. GoodTask(t)
  BY <1>2, <1>3 DEF Task, GoodTask
<1> HIDE DEF t
<1> QED BY <1>1, <1>3, <1>4, <1>5, ContinueKept

\* Looking for the assignment of a door changes none.
LEMMA FindAssignmentKept ==
    ASSUME KeptOK, NEW r \in Requests, NEW d \in Doors, FindAssignment(r, d)
    PROVE  KeptOK'
<1>1. PICK i \in Rows \cup {NoRow} :
         Continue(r, [req[r] EXCEPT !.pc = "write", !.place = d, !.found = i,
                                    !.todo = @ \ {d}])
  BY DEF FindAssignment, Existing
<1> DEFINE t == [req[r] EXCEPT !.pc = "write", !.place = d, !.found = i, !.todo = @ \ {d}]
<1>2. At(r, "match") /\ Continue(r, t) /\ UNCHANGED doors
  BY <1>1 DEF FindAssignment
<1>3. req[r] \in Task /\ req[r].pc = "match"
  BY <1>2 DEF KeptOK, TypeOK, At, Idle, DeleteTask
<1>4. GoodTask(req[r])
  BY <1>3 DEF KeptOK
<1>5. t \in Task
  BY <1>3 DEF Task
<1>6. GoodTask(t)
  BY <1>3, <1>4 DEF Task, GoodTask
<1>7. Writing(t)
  BY <1>3, <1>5 DEF Task, Writing
<1> HIDE DEF t
<1> QED BY <1>2, <1>5, <1>6, <1>7, ContinueKept

\* What a transaction sees in a row is as good as the row.
LEMMA RowFacts ==
    ASSUME KeptOK, NEW r \in Requests, NEW i \in Rows
    PROVE  /\ Row(r, i) \in Assignment \cup {Gone}
           /\ Row(r, i) # Gone => Signed(Row(r, i)) /\ Stands(Row(r, i))
<1>1. row[i] \in Assignment \cup {Gone} /\ (row[i] # Gone => Signed(row[i]) /\ Stands(row[i]))
  BY DEF KeptOK, TypeOK, Stands
<1>2. i \in DOMAIN mine[r] =>
         mine[r][i] \in Assignment /\ Signed(mine[r][i]) /\ Stands(mine[r][i])
  BY DEF KeptOK, TypeOK
<1> QED BY <1>1, <1>2 DEF Row

\* The task of a request that has written a row and has more to write.
Onward(r, todo, next) ==
    [req[r] EXCEPT !.pc = next, !.todo = todo, !.place = NoDoor, !.found = NoRow]

\* The statement that writes a row either commits all that the transaction sees, or is
\* seen by the transaction alone.
LEMMA PutFacts ==
    ASSUME KeptOK, NEW r \in Requests, NEW i \in Rows, NEW a, NEW todo, NEW next,
           Put(r, i, a, todo, next)
    PROVE  /\ UNCHANGED <<door, person, scan, file, undone>>
           /\ \A q \in Requests \ {r} : mine'[q] = mine[q]
           /\ mine' = [q \in Requests |-> mine'[q]]
           /\ todo = {} =>
                 /\ Finish(r) /\ DOMAIN mine'[r] = {}
                 /\ row' = [j \in Rows |-> IF j = i THEN a ELSE Row(r, j)]
           /\ todo # {} =>
                 /\ UNCHANGED row
                 /\ Continue(r, Onward(r, todo, next))
                 /\ DOMAIN mine'[r] = DOMAIN mine[r] \cup {i}
                 /\ \A j \in DOMAIN mine'[r] : mine'[r][j] = IF j = i THEN a ELSE mine[r][j]
<1> DEFINE written == [j \in DOMAIN mine[r] \cup {i} |-> IF j = i THEN a ELSE mine[r][j]]
<1>1. UNCHANGED <<door, person, scan, file, undone>>
  BY DEF Put
<1>2. /\ DOMAIN written = DOMAIN mine[r] \cup {i}
      /\ \A j \in DOMAIN written : written[j] = IF j = i THEN a ELSE mine[r][j]
  OBVIOUS
<1>3. \/ /\ todo = {} /\ mine' = [mine EXCEPT ![r] = Empty] /\ Finish(r)
         /\ row' = [j \in Rows |-> IF j \in DOMAIN written THEN written[j] ELSE row[j]]
      \/ /\ todo # {} /\ mine' = [mine EXCEPT ![r] = written] /\ UNCHANGED row
         /\ Continue(r, Onward(r, todo, next))
  BY DEF Put, Onward
<1> HIDE DEF written
<1>4. DOMAIN Empty = {}
  BY DEF Empty
<1>5. ASSUME row' = [j \in Rows |-> IF j \in DOMAIN written THEN written[j] ELSE row[j]]
      PROVE  row' = [j \in Rows |-> IF j = i THEN a ELSE Row(r, j)]
  BY <1>2, <1>5 DEF Row
<1> QED BY <1>1, <1>2, <1>3, <1>4, <1>5 DEF KeptOK

\* Writing a signed row keeps what is kept.
LEMMA PutKept ==
    ASSUME KeptOK, NEW r \in Requests, NEW i \in Rows, NEW a \in Assignment, NEW todo, NEW next,
           Put(r, i, a, todo, next), Signed(a), Stands(a),
           req[r] \in Task, todo \subseteq req[r].todo,
           \/ next = "match" /\ req[r].op = "grant" /\ req[r].pc = "write"
           \/ next = "close" /\ req[r].op = "revoke" /\ req[r].pc = "close"
    PROVE  KeptOK'
<1>1. /\ UNCHANGED <<door, person, scan, file, undone>>
      /\ \A q \in Requests \ {r} : mine'[q] = mine[q]
      /\ mine' = [q \in Requests |-> mine'[q]]
  BY PutFacts
<1>2. ASSUME todo = {}, Finish(r), DOMAIN mine'[r] = {},
             row' = [j \in Rows |-> IF j = i THEN a ELSE Row(r, j)]
      PROVE  KeptOK'
  <2>1. /\ req' = [req EXCEPT ![r] = Idle] /\ alone' \in [Requests -> BOOLEAN]
    BY <1>2, FlagsType
  <2>2. \A q \in Requests : req'[q] = IF q = r THEN Idle ELSE req[q]
    BY <2>1 DEF KeptOK
  <2>3. \A j \in Rows : /\ row'[j] \in Assignment \cup {Gone}
                        /\ row'[j] # Gone => Signed(row[j])' /\ Stands(row[j])'
    BY <1>1, <1>2, RowFacts DEF Signed, Stands
  <2>4. row' \in [Rows -> Assignment \cup {Gone}]
    BY <1>2, <2>3
  <2>5. \A q \in Requests : DOMAIN mine'[q] # {} => q # r
    BY <1>2
  <2>6. TypeOK'
    BY <1>1, <1>2, <2>1, <2>2, <2>3, <2>4 DEF KeptOK, TypeOK, Stands
  <2>7. \A q \in Requests : (req[q] \in Task => GoodTask(req[q]))'
    BY <1>1, <2>2, KindsOfTask DEF KeptOK, GoodTask
  <2>8. \A q \in Requests : (DOMAIN mine[q] # {} => Writing(req[q]))'
    BY <1>1, <2>2, <2>5 DEF KeptOK, Writing
  <2>9. \A q \in Requests : \A j \in DOMAIN mine'[q] : (Signed(mine[q][j]) /\ Stands(mine[q][j]))'
    BY <1>1, <1>2 DEF KeptOK, Signed, Stands
  <2> QED BY <1>1, <2>1, <2>3, <2>6, <2>7, <2>8, <2>9 DEF KeptOK, Recorded
<1>3. ASSUME todo # {}, UNCHANGED row, DOMAIN mine'[r] = DOMAIN mine[r] \cup {i},
             \A j \in DOMAIN mine'[r] : mine'[r][j] = IF j = i THEN a ELSE mine[r][j],
             Continue(r, Onward(r, todo, next))
      PROVE  KeptOK'
  <2>1. PICK t : t = Onward(r, todo, next)
    OBVIOUS
  <2>2. req' = [req EXCEPT ![r] = t] /\ alone' \in [Requests -> BOOLEAN]
    BY <1>3, <2>1, FlagsType
  <2>3. t \in Task
    BY <2>1 DEF Task, Onward
  <2>4. /\ t.pc = next /\ t.scan = req[r].scan /\ t.op = req[r].op /\ t.type = req[r].type
        /\ t.who = req[r].who /\ t.all = req[r].all /\ t.todo = todo
    BY <2>1 DEF Task, Onward
  <2>5. GoodTask(req[r])
    BY DEF KeptOK
  <2>6. GoodTask(t) /\ Writing(t)
    BY <1>3, <2>3, <2>4, <2>5 DEF GoodTask, Writing
  <2>7. \A q \in Requests : req'[q] = IF q = r THEN t ELSE req[q]
    BY <2>2 DEF KeptOK
  <2>8. \A q \in Requests : \A j \in DOMAIN mine'[q] :
           mine'[q][j] \in Assignment /\ Signed(mine'[q][j]) /\ Stands(mine'[q][j])
    BY <1>1, <1>3 DEF KeptOK, TypeOK
  <2>9. \A q \in Requests : DOMAIN mine'[q] \subseteq Rows
    BY <1>1, <1>3 DEF KeptOK, TypeOK
  <2>10. TypeOK'
    BY <1>1, <1>3, <2>2, <2>3, <2>7, <2>8, <2>9 DEF KeptOK, TypeOK
  <2>11. \A q \in Requests : (req[q] \in Task => GoodTask(req[q]))'
    BY <1>1, <2>6, <2>7 DEF KeptOK, GoodTask
  <2>12. \A q \in Requests : (DOMAIN mine[q] # {} => Writing(req[q]))'
    BY <1>1, <2>6, <2>7 DEF KeptOK, Writing
  <2>13. \A q \in Requests : \A j \in DOMAIN mine'[q] : (Signed(mine[q][j]) /\ Stands(mine[q][j]))'
    BY <1>1, <2>8 DEF Signed, Stands
  <2> QED BY <1>1, <1>3, <2>2, <2>10, <2>11, <2>12, <2>13 DEF KeptOK, Recorded, Signed
<1>4. CASE todo = {}
  BY <1>2, <1>4, PutFacts
<1>5. CASE todo # {}
  BY <1>3, <1>5, PutFacts
<1> QED BY <1>4, <1>5

\* The row that a grant opens again is signed by its scan, and as good as it was.
LEMMA ReopenedFacts ==
    ASSUME KeptOK, NEW r \in Requests, At(r, "write")
    PROVE  /\ req[r] \in Task /\ req[r].pc = "write" /\ req[r].op = "grant"
           /\ GoodTask(req[r])
           /\ \A a \in Assignment : Stands(a) =>
                 /\ Reopened(r, a) \in Assignment /\ Signed(Reopened(r, a)) /\ Stands(Reopened(r, a))
                 /\ Reopened(r, a).door = a.door /\ Reopened(r, a).who = a.who
                 /\ Reopened(r, a).status = "ACTIVE" /\ Reopened(r, a).by = req[r].scan
<1>1. req[r] \in Task /\ req[r].pc = "write"
  BY DEF KeptOK, TypeOK, At, Idle, DeleteTask
<1>2. GoodTask(req[r])
  BY <1>1 DEF KeptOK
<1>3. req[r].op \in {"grant", "revoke"}
  BY <1>1 DEF Task
<1>4. req[r].op = "grant" /\ req[r].scan \in Scans /\ scan[req[r].scan] = "GRANT"
  BY <1>1, <1>2, <1>3 DEF GoodTask
<1>5. ASSUME NEW a \in Assignment, Stands(a)
      PROVE  /\ Reopened(r, a) \in Assignment /\ Signed(Reopened(r, a)) /\ Stands(Reopened(r, a))
             /\ Reopened(r, a).door = a.door /\ Reopened(r, a).who = a.who
             /\ Reopened(r, a).status = "ACTIVE" /\ Reopened(r, a).by = req[r].scan
  <2>1. /\ Reopened(r, a) \in Assignment
        /\ Reopened(r, a).door = a.door /\ Reopened(r, a).who = a.who
        /\ Reopened(r, a).status = "ACTIVE" /\ Reopened(r, a).by = req[r].scan
    BY <1>4 DEF Reopened, Assignment
  <2> QED BY <1>4, <1>5, <2>1 DEF Signed, Stands
<1> QED BY <1>1, <1>2, <1>4, <1>5

\* An assignment that is opened again cites the scan of the request.
LEMMA UpdateAssignmentKept ==
    ASSUME KeptOK, NEW r \in Requests, UpdateAssignment(r)
    PROVE  KeptOK'
<1> DEFINE i == req[r].found
<1>1. /\ At(r, "write") /\ i # NoRow /\ Row(r, i) # Gone
      /\ Put(r, i, Reopened(r, Row(r, i)), req[r].todo, "match")
  BY DEF UpdateAssignment
<1>2. req[r] \in Task /\ req[r].pc = "write" /\ req[r].op = "grant"
  BY <1>1, ReopenedFacts
<1>3. i \in Rows
  BY <1>1, <1>2 DEF Task
<1> HIDE DEF i
<1>4. Row(r, i) \in Assignment /\ Stands(Row(r, i))
  BY <1>1, <1>3, RowFacts
<1>5. PICK a \in Assignment : a = Reopened(r, Row(r, i)) /\ Signed(a) /\ Stands(a)
  BY <1>1, <1>4, ReopenedFacts
<1>6. Put(r, i, a, req[r].todo, "match")
  BY <1>1, <1>5
<1> QED BY <1>2, <1>3, <1>5, <1>6, PutKept

\* So does a new one.
LEMMA CreateAssignmentKept ==
    ASSUME KeptOK, NEW r \in Requests, NEW i \in Rows, CreateAssignment(r, i)
    PROVE  KeptOK'
<1> DEFINE new == [status |-> "ACTIVE", door |-> req[r].place, who |-> req[r].who,
                   by |-> req[r].scan]
<1>1. /\ At(r, "write") /\ Put(r, i, new, req[r].todo, "match")
      /\ door[req[r].place] # "none" /\ person[req[r].who] # "none"
  BY DEF CreateAssignment
<1>2. req[r] \in Task /\ req[r].pc = "write" /\ req[r].op = "grant" /\ GoodTask(req[r])
  BY <1>1, ReopenedFacts
<1>3. /\ req[r].place \in Doors /\ req[r].who \in People
      /\ req[r].scan \in Scans /\ scan[req[r].scan] = "GRANT"
  BY <1>2 DEF GoodTask
<1>4. new \in Assignment /\ Signed(new) /\ Stands(new)
  BY <1>1, <1>3 DEF Assignment, Signed, Stands
<1> HIDE DEF new
<1> QED BY <1>1, <1>2, <1>4, PutKept

\* A row that a revocation closes is signed by its scan.
LEMMA ClosedFacts ==
    ASSUME KeptOK, NEW r \in Requests, At(r, "close")
    PROVE  /\ req[r] \in Task /\ req[r].pc = "close" /\ req[r].op = "revoke"
           /\ GoodTask(req[r])
           /\ \A a \in Assignment : Stands(a) => \E b \in Assignment :
                 /\ b = [a EXCEPT !.status = "REVOKED", !.by = req[r].scan]
                 /\ Signed(b) /\ Stands(b)
                 /\ b.door = a.door /\ b.who = a.who /\ b.status = "REVOKED"
<1>1. req[r] \in Task /\ req[r].pc = "close"
  BY DEF KeptOK, TypeOK, At, Idle, DeleteTask
<1>2. GoodTask(req[r])
  BY <1>1 DEF KeptOK
<1>3. req[r].op \in {"grant", "revoke"}
  BY <1>1 DEF Task
<1>4. req[r].op = "revoke" /\ req[r].scan \in Scans /\ scan[req[r].scan] = "REVOCATION"
  BY <1>1, <1>2, <1>3 DEF GoodTask
<1>5. ASSUME NEW a \in Assignment, Stands(a)
      PROVE  \E b \in Assignment :
                /\ b = [a EXCEPT !.status = "REVOKED", !.by = req[r].scan]
                /\ Signed(b) /\ Stands(b)
                /\ b.door = a.door /\ b.who = a.who /\ b.status = "REVOKED"
  <2>1. PICK b : b = [a EXCEPT !.status = "REVOKED", !.by = req[r].scan]
    OBVIOUS
  <2>2. /\ b \in Assignment /\ b.door = a.door /\ b.who = a.who
        /\ b.status = "REVOKED" /\ b.by = req[r].scan
    BY <1>4, <2>1 DEF Assignment
  <2>3. Signed(b) /\ Stands(b)
    BY <1>4, <1>5, <2>2 DEF Signed, Stands
  <2> QED BY <2>1, <2>2, <2>3
<1> QED BY <1>1, <1>2, <1>4, <1>5

\* And one that is closed.
LEMMA RevokeKept ==
    ASSUME KeptOK, NEW r \in Requests, NEW i \in Rows, Revoke(r, i)
    PROVE  KeptOK'
<1>1. /\ At(r, "close") /\ Row(r, i) # Gone
      /\ Put(r, i, [Row(r, i) EXCEPT !.status = "REVOKED", !.by = req[r].scan],
             req[r].todo \ {i}, "close")
  BY DEF Revoke
<1>2. req[r] \in Task /\ req[r].pc = "close" /\ req[r].op = "revoke"
  BY <1>1, ClosedFacts
<1>3. Row(r, i) \in Assignment /\ Stands(Row(r, i))
  BY <1>1, RowFacts
<1>4. PICK b \in Assignment : /\ b = [Row(r, i) EXCEPT !.status = "REVOKED", !.by = req[r].scan]
                              /\ Signed(b) /\ Stands(b)
  BY <1>1, <1>3, ClosedFacts
<1>5. Put(r, i, b, req[r].todo \ {i}, "close")
  BY <1>1, <1>4
<1>6. req[r].todo \ {i} \subseteq req[r].todo
  OBVIOUS
<1> QED BY <1>2, <1>4, <1>5, <1>6, PutKept

\* A revocation that found nothing open has written nothing.
LEMMA RevokeNothingKept ==
    ASSUME KeptOK, NEW r \in Requests, RevokeNothing(r)
    PROVE  KeptOK' /\ DOMAIN mine[r] = {}
<1>1. At(r, "close") /\ req[r].todo = {} /\ Finish(r) /\ UNCHANGED doors
  BY DEF RevokeNothing
<1>2. DOMAIN mine[r] = {}
  BY <1>1 DEF KeptOK, Writing, At
<1> QED BY <1>1, <1>2, KindsOfTask, FlagsType, OnlyHandler

\* Requests begin with a good task.
LEMMA ArriveKept ==
    ASSUME KeptOK, NEW r \in Requests, Arrive(r)
    PROVE  KeptOK' /\ UNCHANGED doors /\ \E t \in Task \cup DeleteTask : Begin(r, t)
<1>1. ASSUME NEW p \in People, NEW S \in SUBSET Doors, StartGrant(r, p, S)
      PROVE  KeptOK' /\ UNCHANGED doors /\ \E t \in Task \cup DeleteTask : Begin(r, t)
  <2>1. PICK t : t = Asked("people", "grant", "GRANT", p, S, S)
    OBVIOUS
  <2>2. t \in Task /\ GoodTask(t)
    BY <2>1 DEF Asked, Task, GoodTask, Types
  <2>3. Begin(r, t) /\ UNCHANGED doors
    BY <1>1, <2>1 DEF StartGrant
  <2> QED BY <2>2, <2>3, StartKept
<1>2. ASSUME NEW S \in SUBSET Rows, StartRevoke(r, S)
      PROVE  KeptOK' /\ UNCHANGED doors /\ \E t \in Task \cup DeleteTask : Begin(r, t)
  <2> DEFINE open == {i \in S : row[i].status = "ACTIVE"}
  <2>1. PICK t : t = Asked("attach", "revoke", "REVOCATION", NoOne, S, open)
    OBVIOUS
  <2>2. Begin(r, t) /\ UNCHANGED doors
    BY <1>2, <2>1 DEF StartRevoke
  <2>3. open \subseteq S
    OBVIOUS
  <2> HIDE DEF open
  <2>4. t \in Task /\ GoodTask(t)
    BY <2>1, <2>3 DEF Asked, Task, GoodTask, Types
  <2> QED BY <2>2, <2>4, StartKept
<1>3. ASSUME NEW d \in Doors, StartDeleteDoor(r, d)
      PROVE  KeptOK' /\ UNCHANGED doors /\ \E t \in Task \cup DeleteTask : Begin(r, t)
  <2>1. PICK t : t = [pc |-> "deleteDoor", target |-> d]
    OBVIOUS
  <2>2. t \in DeleteTask
    BY <2>1 DEF DeleteTask
  <2>3. Begin(r, t) /\ UNCHANGED doors
    BY <1>3, <2>1 DEF StartDeleteDoor
  <2> QED BY <2>2, <2>3, StartKept, KindsOfTask
<1>4. ASSUME NEW p \in People, StartDeleteExternal(r, p)
      PROVE  KeptOK' /\ UNCHANGED doors /\ \E t \in Task \cup DeleteTask : Begin(r, t)
  <2>1. PICK t : t = [pc |-> "deleteExternal", target |-> p]
    OBVIOUS
  <2>2. t \in DeleteTask
    BY <2>1 DEF DeleteTask
  <2>3. Begin(r, t) /\ UNCHANGED doors
    BY <1>4, <2>1 DEF StartDeleteExternal
  <2> QED BY <2>2, <2>3, StartKept, KindsOfTask
<1> QED BY <1>1, <1>2, <1>3, <1>4 DEF Arrive, Batches

\* Every step keeps it.
LEMMA KeptStep == KeptOK /\ [Next]_vars => KeptOK'
<1> SUFFICES ASSUME KeptOK, [Next]_vars PROVE KeptOK'
  OBVIOUS
<1>1. CASE UNCHANGED vars
  BY <1>1 DEF vars, handlers, doors, KeptOK, TypeOK, Recorded, Signed, Stands, GoodTask, Writing
<1>2. ASSUME NEW r \in Requests, Statement(r) PROVE KeptOK'
  BY <1>2, CheckPersonKept, SaveScanKept, FindScanKept, FindAssignmentKept,
     UpdateAssignmentKept, CreateAssignmentKept, RevokeKept, RevokeNothingKept,
     DeleteDoorKept, DeleteExternalKept DEF Statement
<1>3. ASSUME NEW p \in People, RemoveEmployee(p) PROVE KeptOK'
  BY <1>3, RemovePersonKept DEF RemoveEmployee, Instant
<1> QED BY <1>1, <1>2, <1>3, ArriveKept, AbortKept, SetDoorKept, SetPersonKept, UploadKept
        DEF Next

\* Types are correct, and no door is opened or closed without the signed scan of the right
\* type that was saved to the disk.
THEOREM KeptAlways == Spec => []KeptOK
  BY KeptInit, KeptStep, PTL DEF Spec

\* Every row of the access tables, and what each request and transaction keeps, is well typed.
THEOREM TypesCorrect == Spec => []TypeOK
<1>1. KeptOK => TypeOK
  BY DEF KeptOK
<1> QED BY <1>1, KeptAlways, PTL

\* grantAccess, revokeAccess: for any number of requests, in whatever order their
\* statements run and whichever of them fail, an assignment cites a recorded scan of the
\* type that its status asks for, whose file is there unless its own request removed it.
THEOREM ScansAreKept == Spec => []ScansKept
<1>1. KeptOK => ScansKept
  BY DEF KeptOK, TypeOK, ScansKept, Signed, Recorded, Assignment
<1> QED BY <1>1, KeptAlways, PTL
-----------------------------------------------------------------------------
(* A request that no other overlaps.                                       *)

\* In the beginning no request runs.
LEMMA AloneInit == Init => AloneOK
  BY DEF Init, HandlersInit, AloneOK

\* While a request takes a step, no other is alone; when it ends, none is.
LEMMA OnlyOneAlone ==
    ASSUME KeptOK, AloneOK, NEW r \in Requests, ~At(r, "idle")
    PROVE  /\ \A q \in Requests \ {r} : ~alone[q]
           /\ Finish(r) => AloneOK'
           /\ \A t \in Task : Continue(r, t) =>
                 /\ req'[r] = t
                 /\ (alone[r] => Progress(r)') => AloneOK'
                 /\ alone[r] => Progress(r) /\ OnItsOwn(r)'
<1>1. \A q \in Requests \ {r} : ~alone[q]
  BY DEF AloneOK, Progress, OnItsOwn
<1>2. Finish(r) => \A q \in Requests : ~alone'[q]
  BY <1>1 DEF Finish, KeptOK, TypeOK
<1>3. Finish(r) => AloneOK'
  BY <1>2 DEF AloneOK
<1>4. ASSUME NEW t \in Task, Continue(r, t)
      PROVE  /\ req'[r] = t
             /\ (alone[r] => Progress(r)') => AloneOK'
             /\ alone[r] => Progress(r) /\ OnItsOwn(r)'
  <2>1. alone' = alone /\ \A q \in Requests : req'[q] = IF q = r THEN t ELSE req[q]
    BY <1>4 DEF Continue, KeptOK
  <2>2. (alone[r] => Progress(r)') => AloneOK'
    BY <1>1, <2>1 DEF AloneOK
  <2>3. alone[r] => Progress(r) /\ OnItsOwn(r)'
    BY <2>1 DEF AloneOK, Progress, OnItsOwn, At
  <2> QED BY <2>1, <2>2, <2>3
<1> QED BY <1>1, <1>3, <1>4

\* A grant that begins has all its doors left, a revocation all rows that it has not
\* found closed.
LEMMA ArriveAlone ==
    ASSUME KeptOK, AloneOK, NEW r \in Requests, Arrive(r)
    PROVE  AloneOK'
<1>1. ASSUME NEW t, Begin(r, t), UNCHANGED doors,
             t \in Task => /\ t.place = NoDoor /\ t.pc # "write"
                           /\ t.op = "grant" => t.all = t.todo
                           /\ t.op = "revoke" => \A i \in t.all \ t.todo : Row(r, i).status = "REVOKED"
      PROVE  AloneOK'
  <2>1. /\ \A q \in Requests : req'[q] = IF q = r THEN t ELSE req[q]
        /\ \A q \in Requests : alone'[q] => q = r /\ OnItsOwn(r)
    BY <1>1 DEF Begin, KeptOK, OnItsOwn
  <2>2. SUFFICES ASSUME OnItsOwn(r) PROVE Progress(r)'
    BY <2>1 DEF AloneOK
  <2>3. OnItsOwn(r)'
    BY <2>1, <2>2 DEF OnItsOwn, At
  <2>4. DOMAIN mine[r] = {}
    BY <1>1, StartsIdle
  <2>5. AddsNone(View(r))'
    BY <1>1, <2>4 DEF AddsNone, View, Row, doors
  <2>6. ASSUME t \in Task
        PROVE  /\ t.op = "grant" => Opened(r)'
               /\ t.op = "revoke" => Closed(r)'
    BY <1>1, <2>1, <2>6 DEF Opened, Closed, Row, doors
  <2> QED BY <1>1, <2>1, <2>3, <2>5, <2>6 DEF Progress
<1>2. ASSUME NEW p \in People, NEW S \in SUBSET Doors, StartGrant(r, p, S)
      PROVE  AloneOK'
  <2>1. PICK t : t = Asked("people", "grant", "GRANT", p, S, S)
    OBVIOUS
  <2>2. Begin(r, t) /\ UNCHANGED doors
    BY <1>2, <2>1 DEF StartGrant
  <2>3. t.place = NoDoor /\ t.pc = "people" /\ t.op = "grant" /\ t.all = t.todo
    BY <2>1 DEF Asked
  <2> QED BY <1>1, <2>2, <2>3
<1>3. ASSUME NEW S \in SUBSET Rows, StartRevoke(r, S)
      PROVE  AloneOK'
  <2> DEFINE open == {i \in S : row[i].status = "ACTIVE"}
  <2>1. PICK t : t = Asked("attach", "revoke", "REVOCATION", NoOne, S, open)
    OBVIOUS
  <2>2. Begin(r, t) /\ UNCHANGED doors
    BY <1>3, <2>1 DEF StartRevoke
  <2>3. /\ t.place = NoDoor /\ t.pc = "attach" /\ t.op = "revoke" /\ t.all = S
        /\ t.todo = open
    BY <2>1 DEF Asked
  <2>4. DOMAIN mine[r] = {}
    BY <2>2, StartsIdle
  <2>5. ASSUME NEW i \in S \ open PROVE Row(r, i).status = "REVOKED"
    <3>1. row[i] \in Assignment
      BY <1>3 DEF StartRevoke, KeptOK, TypeOK
    <3>2. row[i].status # "ACTIVE"
      BY <2>5
    <3> QED BY <2>4, <3>1, <3>2 DEF Row, Assignment
  <2> HIDE DEF open
  <2> QED BY <1>1, <2>2, <2>3, <2>5
<1>4. ASSUME NEW d \in Doors, StartDeleteDoor(r, d) PROVE AloneOK'
  <2>1. PICK t : t = [pc |-> "deleteDoor", target |-> d]
    OBVIOUS
  <2>2. t \in DeleteTask
    BY <2>1 DEF DeleteTask
  <2>3. Begin(r, t) /\ UNCHANGED doors
    BY <1>4, <2>1 DEF StartDeleteDoor
  <2> QED BY <1>1, <2>2, <2>3, KindsOfTask
<1>5. ASSUME NEW p \in People, StartDeleteExternal(r, p) PROVE AloneOK'
  <2>1. PICK t : t = [pc |-> "deleteExternal", target |-> p]
    OBVIOUS
  <2>2. t \in DeleteTask
    BY <2>1 DEF DeleteTask
  <2>3. Begin(r, t) /\ UNCHANGED doors
    BY <1>5, <2>1 DEF StartDeleteExternal
  <2> QED BY <1>1, <2>2, <2>3, KindsOfTask
<1> QED BY <1>2, <1>3, <1>4, <1>5 DEF Arrive, Batches

\* A request that has written nothing, and goes on with the same work, is as far as it was.
LEMMA GoesOnAlone ==
    ASSUME KeptOK, AloneOK, NEW r \in Requests, ~At(r, "idle"), NEW t \in Task,
           Continue(r, t), UNCHANGED <<row, mine>>, DOMAIN mine[r] = {}, req[r] \in Task,
           req[r].pc # "write", t.pc # "write",
           t.op = req[r].op, t.all = req[r].all, t.todo = req[r].todo, t.place = req[r].place
    PROVE  AloneOK'
<1>1. SUFFICES ASSUME alone[r] PROVE Progress(r)'
  BY OnlyOneAlone
<1>2. Progress(r) /\ OnItsOwn(r)' /\ req'[r] = t
  BY <1>1, OnlyOneAlone
<1>3. AddsNone(View(r))'
  BY <1>2 DEF Progress, AddsNone, View, Row
<1>4. (t.op = "grant" => Opened(r)') /\ (t.op = "revoke" => Closed(r)')
  BY <1>2 DEF Progress, Opened, Closed, Row
<1> QED BY <1>2, <1>3, <1>4 DEF Progress

\* Checking the person and attaching the scan are no progress yet on the doors.
LEMMA BeforeWritingAlone ==
    ASSUME KeptOK, AloneOK, NEW r \in Requests,
           CheckPerson(r) \/ \E s \in Scans : SaveScan(r, s) \/ FindScan(r, s)
    PROVE  AloneOK'
<1>1. req[r] \in Task /\ req[r].pc \in {"people", "attach"} /\ req[r].op \in {"grant", "revoke"}
  <2>1. req[r].pc \in {"people", "attach"}
    BY DEF CheckPerson, SaveScan, FindScan, At
  <2>2. req[r] \in Task
    BY <2>1 DEF KeptOK, TypeOK, Idle, DeleteTask
  <2> QED BY <2>1, <2>2 DEF Task
<1>2. DOMAIN mine[r] = {} /\ ~At(r, "idle")
  BY <1>1 DEF KeptOK, Writing, At
<1>3. UNCHANGED <<row, mine>>
  BY DEF CheckPerson, SaveScan, FindScan, Keep, doors
<1>4. \E t \in Task :
         /\ Continue(r, t) /\ t.pc # "write"
         /\ t.op = req[r].op /\ t.all = req[r].all /\ t.todo = req[r].todo
         /\ t.place = req[r].place
  <2>1. CASE CheckPerson(r)
    <3>1. PICK t : t = [req[r] EXCEPT !.pc = "attach"]
      OBVIOUS
    <3>2. t \in Task /\ t.pc # "write" /\ t.op = req[r].op /\ t.all = req[r].all
      BY <1>1, <3>1 DEF Task
    <3>3. t.todo = req[r].todo /\ t.place = req[r].place /\ Continue(r, t)
      BY <1>1, <2>1, <3>1 DEF Task, CheckPerson, Goto
    <3> QED BY <3>2, <3>3
  <2>2. ASSUME NEW s \in Scans, SaveScan(r, s) \/ FindScan(r, s)
        PROVE  \E t \in Task :
                  /\ Continue(r, t) /\ t.pc # "write"
                  /\ t.op = req[r].op /\ t.all = req[r].all /\ t.todo = req[r].todo
                  /\ t.place = req[r].place
    <3>1. PICK own \in BOOLEAN :
             Continue(r, [req[r] EXCEPT !.pc = Attached(r), !.scan = s, !.own = own])
      <4>1. req[r].own \in BOOLEAN
        BY <1>1 DEF Task
      <4>2. [req[r] EXCEPT !.pc = Attached(r), !.scan = s]
               = [req[r] EXCEPT !.pc = Attached(r), !.scan = s, !.own = req[r].own]
        BY <1>1 DEF Task
      <4> QED BY <2>2, <4>1, <4>2 DEF SaveScan, FindScan
    <3>2. PICK t : t = [req[r] EXCEPT !.pc = Attached(r), !.scan = s, !.own = own]
      OBVIOUS
    <3>3. t \in Task /\ t.pc # "write" /\ t.op = req[r].op /\ t.all = req[r].all
      BY <1>1, <3>2 DEF Task, Attached
    <3>4. t.todo = req[r].todo /\ t.place = req[r].place
      BY <1>1, <3>2 DEF Task
    <3> QED BY <3>1, <3>2, <3>3, <3>4
  <2> QED BY <2>1, <2>2
<1>5. PICK t \in Task :
         /\ Continue(r, t) /\ t.pc # "write"
         /\ t.op = req[r].op /\ t.all = req[r].all /\ t.todo = req[r].todo
         /\ t.place = req[r].place
  BY <1>4
<1> QED BY <1>1, <1>2, <1>3, <1>5, GoesOnAlone

\* What it finds for a door is what is there.
LEMMA FindAssignmentAlone ==
    ASSUME KeptOK, AloneOK, NEW r \in Requests, NEW d \in Doors, FindAssignment(r, d)
    PROVE  AloneOK'
<1>1. PICK i \in IF Existing(r, d) = {} THEN {NoRow} ELSE Existing(r, d) :
         Continue(r, [req[r] EXCEPT !.pc = "write", !.place = d, !.found = i,
                                    !.todo = @ \ {d}])
  BY DEF FindAssignment
<1>2. At(r, "match") /\ UNCHANGED doors
  BY DEF FindAssignment
<1>3. req[r] \in Task /\ req[r].pc = "match"
  BY <1>2 DEF KeptOK, TypeOK, At, Idle, DeleteTask
<1>4. GoodTask(req[r])
  BY <1>3 DEF KeptOK
<1>5. i \in Rows \cup {NoRow}
  BY <1>1 DEF Existing
<1>6. PICK t : t = [req[r] EXCEPT !.pc = "write", !.place = d, !.found = i, !.todo = @ \ {d}]
  OBVIOUS
<1>7. /\ t \in Task /\ t.pc = "write" /\ t.place = d /\ t.found = i /\ t.who = req[r].who
      /\ t.op = req[r].op /\ t.all = req[r].all /\ t.todo = req[r].todo \ {d}
      /\ t.scan = req[r].scan
  BY <1>3, <1>5, <1>6 DEF Task
<1>8. Continue(r, t) /\ ~At(r, "idle")
  BY <1>1, <1>2, <1>6 DEF At
<1>9. SUFFICES ASSUME alone[r] PROVE Progress(r)'
  BY <1>7, <1>8, OnlyOneAlone
<1>10. Progress(r) /\ OnItsOwn(r)' /\ req'[r] = t
  BY <1>7, <1>8, <1>9, OnlyOneAlone
<1>11. AddsNone(View(r))'
  BY <1>2, <1>3, <1>10 DEF Progress, AddsNone, View, Row, doors
<1>12. req[r].op = "grant" /\ req[r].place = NoDoor
  BY <1>3, <1>4, <1>10 DEF Progress, GoodTask, Task
<1>13. Opened(r)'
  <2>1. t.all \ (t.todo \cup {t.place}) \subseteq req[r].all \ (req[r].todo \cup {req[r].place})
    BY <1>4, <1>7, <1>12, DoorsAssumption DEF GoodTask
  <2>2. Opened(r)
    BY <1>3, <1>10, <1>12 DEF Progress
  <2> QED BY <1>2, <1>7, <1>10, <2>1, <2>2 DEF Opened, doors
<1>14. FoundStill(r)'
  <2>1. CASE Existing(r, d) = {}
    <3>1. i = NoRow
      BY <1>1, <2>1
    <3>2. \A j \in Rows : Row(r, j) # Gone => Row(r, j).door # d \/ Row(r, j).who # req[r].who
      BY <2>1 DEF Existing
    <3> QED BY <1>2, <1>7, <1>10, <3>1, <3>2 DEF FoundStill, Row, doors
  <2>2. CASE Existing(r, d) # {}
    <3>1. i \in Existing(r, d)
      BY <1>1, <2>2
    <3>2. i # NoRow
      BY <3>1, DoorsAssumption DEF Existing
    <3>3. Row(r, i) # Gone /\ Row(r, i).door = d /\ Row(r, i).who = req[r].who
      BY <3>1 DEF Existing
    <3> QED BY <1>2, <1>7, <1>10, <3>2, <3>3 DEF FoundStill, Row, doors
  <2> QED BY <2>1, <2>2
<1> QED BY <1>7, <1>10, <1>11, <1>12, <1>13, <1>14 DEF Progress

\* A grant that writes what it found, or a new row where it found none, has then opened
\* its doors but those that are left.
LEMMA GrantWrites ==
    ASSUME KeptOK, AloneOK, NEW r \in Requests, alone[r],
           UpdateAssignment(r) \/ \E i \in Rows : CreateAssignment(r, i)
    PROVE  \E i \in Rows, a \in Assignment :
              /\ Put(r, i, a, req[r].todo, "match")
              /\ AddsNone(After(r, i, a))
              /\ \A d \in req[r].all \ req[r].todo : \E j \in DOMAIN mine[r] \cup {i} :
                    /\ After(r, i, a)[j].status = "ACTIVE"
                    /\ After(r, i, a)[j].by = req[r].scan
                    /\ After(r, i, a)[j].door = d /\ After(r, i, a)[j].who = req[r].who
<1>1. At(r, "write")
  BY DEF UpdateAssignment, CreateAssignment
<1>2. req[r] \in Task /\ req[r].pc = "write" /\ req[r].op = "grant" /\ GoodTask(req[r])
  BY <1>1, ReopenedFacts
<1>3. AddsNone(View(r)) /\ Opened(r) /\ FoundStill(r)
  BY <1>2 DEF AloneOK, Progress
<1>4. DOMAIN mine[r] \subseteq Rows
  BY DEF KeptOK, TypeOK
<1>5. PICK i \in Rows, a \in Assignment :
         /\ Put(r, i, a, req[r].todo, "match")
         /\ a.status = "ACTIVE" /\ a.by = req[r].scan
         /\ a.door = req[r].place /\ a.who = req[r].who
         /\ \/ /\ Row(r, i) # Gone
               /\ Row(r, i).door = req[r].place /\ Row(r, i).who = req[r].who
            \/ /\ i \notin DOMAIN mine[r]
               /\ \A j \in Rows : Row(r, j) # Gone =>
                     Row(r, j).door # req[r].place \/ Row(r, j).who # req[r].who
  <2>1. CASE UpdateAssignment(r)
    <3>1. PICK i : i = req[r].found
      OBVIOUS
    <3>2. i \in Rows
      BY <1>2, <2>1, <3>1 DEF UpdateAssignment, Task
    <3>3. Row(r, i) # Gone /\ Row(r, i).door = req[r].place /\ Row(r, i).who = req[r].who
      BY <1>3, <2>1, <3>1 DEF UpdateAssignment, FoundStill
    <3>4. Row(r, i) \in Assignment /\ Stands(Row(r, i))
      BY <3>2, <3>3, RowFacts
    <3>5. PICK a \in Assignment :
             /\ a = Reopened(r, Row(r, i)) /\ a.status = "ACTIVE" /\ a.by = req[r].scan
             /\ a.door = Row(r, i).door /\ a.who = Row(r, i).who
      BY <1>1, <3>4, ReopenedFacts
    <3>6. Put(r, i, a, req[r].todo, "match")
      BY <2>1, <3>1, <3>5 DEF UpdateAssignment
    <3> QED BY <3>2, <3>3, <3>5, <3>6
  <2>2. ASSUME NEW i \in Rows, CreateAssignment(r, i)
        PROVE  /\ \E a \in Assignment :
                     /\ Put(r, i, a, req[r].todo, "match")
                     /\ a.status = "ACTIVE" /\ a.by = req[r].scan
                     /\ a.door = req[r].place /\ a.who = req[r].who
               /\ i \notin DOMAIN mine[r]
               /\ \A j \in Rows : Row(r, j) # Gone =>
                     Row(r, j).door # req[r].place \/ Row(r, j).who # req[r].who
    <3>1. i \notin DOMAIN mine[r]
      BY <1>2, <2>2 DEF CreateAssignment, Forgotten, Remembers
    <3>2. \A j \in Rows : Row(r, j) # Gone =>
             Row(r, j).door # req[r].place \/ Row(r, j).who # req[r].who
      BY <1>3, <2>2 DEF CreateAssignment, FoundStill
    <3>3. PICK a : a = [status |-> "ACTIVE", door |-> req[r].place, who |-> req[r].who,
                        by |-> req[r].scan]
      OBVIOUS
    <3>4. /\ a \in Assignment /\ a.status = "ACTIVE" /\ a.by = req[r].scan
          /\ a.door = req[r].place /\ a.who = req[r].who
      BY <1>2, <3>3 DEF GoodTask, Assignment
    <3>5. Put(r, i, a, req[r].todo, "match")
      BY <2>2, <3>3 DEF CreateAssignment
    <3> QED BY <3>1, <3>2, <3>4, <3>5
  <2> QED BY <2>1, <2>2
<1>6. \A j \in Rows : After(r, i, a)[j] = IF j = i THEN a ELSE Row(r, j)
  BY DEF After
<1>7. a # Gone
  BY DEF Assignment, Gone
<1>8. AddsNone(After(r, i, a))
  <2> DEFINE v == After(r, i, a)
  <2> SUFFICES ASSUME NEW j \in Rows, NEW k \in Rows, j # k, v[j] # Gone, v[k] # Gone,
                      v[j].who = v[k].who, v[j].door = v[k].door
               PROVE  row[j] # Gone /\ row[k] # Gone
    BY DEF AddsNone
  <2>1. CASE /\ Row(r, i) # Gone
             /\ Row(r, i).door = req[r].place /\ Row(r, i).who = req[r].who
    <3>1. \A x \in Rows : v[x] # Gone =>
             Row(r, x) # Gone /\ Row(r, x).who = v[x].who /\ Row(r, x).door = v[x].door
      BY <1>5, <1>6, <2>1
    <3> HIDE DEF v
    <3> QED BY <1>3, <3>1 DEF AddsNone, View
  <2>2. CASE \A x \in Rows : Row(r, x) # Gone =>
                Row(r, x).door # req[r].place \/ Row(r, x).who # req[r].who
    <3>1. j # i /\ k # i
      BY <1>5, <1>6, <2>2
    <3>2. v[j] = Row(r, j) /\ v[k] = Row(r, k)
      BY <1>6, <3>1
    <3> HIDE DEF v
    <3> QED BY <1>3, <3>2 DEF AddsNone, View
  <2> QED BY <1>5, <2>1, <2>2
<1>9. ASSUME NEW d \in req[r].all \ req[r].todo
      PROVE  \E j \in DOMAIN mine[r] \cup {i} :
                /\ After(r, i, a)[j].status = "ACTIVE"
                /\ After(r, i, a)[j].by = req[r].scan
                /\ After(r, i, a)[j].door = d /\ After(r, i, a)[j].who = req[r].who
  <2>1. CASE d = req[r].place
    BY <1>5, <1>6, <2>1
  <2>2. CASE d # req[r].place
    <3>1. PICK j \in DOMAIN mine[r] :
             /\ mine[r][j].status = "ACTIVE" /\ mine[r][j].by = req[r].scan
             /\ mine[r][j].door = d /\ mine[r][j].who = req[r].who
      BY <1>3, <2>2 DEF Opened
    <3>2. j \in Rows /\ Row(r, j) = mine[r][j]
      BY <1>4 DEF Row
    <3>3. j # i
      BY <1>5, <2>2, <3>1, <3>2
    <3>4. After(r, i, a)[j] = mine[r][j]
      BY <1>6, <3>2, <3>3
    <3> QED BY <3>1, <3>4
  <2> QED BY <2>1, <2>2
<1> QED BY <1>5, <1>8, <1>9

\* A revocation that writes a row has then closed its rows but those that are left.
LEMMA RevokeWrites ==
    ASSUME KeptOK, AloneOK, NEW r \in Requests, alone[r], NEW i \in Rows, Revoke(r, i)
    PROVE  \E a \in Assignment :
              /\ Put(r, i, a, req[r].todo \ {i}, "close")
              /\ AddsNone(After(r, i, a))
              /\ \A j \in req[r].all \ (req[r].todo \ {i}) :
                    After(r, i, a)[j].status = "REVOKED"
<1>1. /\ At(r, "close") /\ Row(r, i) # Gone
      /\ Put(r, i, [Row(r, i) EXCEPT !.status = "REVOKED", !.by = req[r].scan],
             req[r].todo \ {i}, "close")
  BY DEF Revoke
<1>2. req[r] \in Task /\ req[r].pc = "close" /\ req[r].op = "revoke" /\ GoodTask(req[r])
  BY <1>1, ClosedFacts
<1>3. AddsNone(View(r)) /\ Closed(r)
  BY <1>2 DEF AloneOK, Progress
<1>4. Row(r, i) \in Assignment /\ Stands(Row(r, i))
  BY <1>1, RowFacts
<1>5. PICK a \in Assignment :
         /\ a = [Row(r, i) EXCEPT !.status = "REVOKED", !.by = req[r].scan]
         /\ a.door = Row(r, i).door /\ a.who = Row(r, i).who /\ a.status = "REVOKED"
  BY <1>1, <1>4, ClosedFacts
<1>6. Put(r, i, a, req[r].todo \ {i}, "close")
  BY <1>1, <1>5
<1>7. \A j \in Rows : After(r, i, a)[j] = IF j = i THEN a ELSE Row(r, j)
  BY DEF After
<1>8. AddsNone(After(r, i, a))
  <2> DEFINE v == After(r, i, a)
  <2>1. \A x \in Rows : v[x] # Gone =>
           Row(r, x) # Gone /\ Row(r, x).who = v[x].who /\ Row(r, x).door = v[x].door
    BY <1>1, <1>5, <1>7
  <2> HIDE DEF v
  <2>2. AddsNone(v)
    BY <1>3, <2>1 DEF AddsNone, View
  <2> QED BY <2>2 DEF v
<1>9. ASSUME NEW j \in req[r].all \ (req[r].todo \ {i})
      PROVE  After(r, i, a)[j].status = "REVOKED"
  <2>1. j \in Rows
    BY <1>2 DEF GoodTask
  <2>2. j # i => Row(r, j).status = "REVOKED"
    BY <1>3 DEF Closed
  <2> QED BY <1>5, <1>7, <2>1, <2>2
<1> QED BY <1>6, <1>8, <1>9

\* What a transaction that goes on sees is what it saw, with the row that it wrote.
LEMMA SeesAfter ==
    ASSUME KeptOK, AloneOK, NEW r \in Requests, alone[r], NEW i \in Rows, NEW a,
           NEW todo, NEW next, Put(r, i, a, todo, next), todo # {}, AddsNone(After(r, i, a))
    PROVE  AddsNone(View(r))' /\ \A j \in Rows : Row(r, j)' = After(r, i, a)[j]
<1>1. /\ UNCHANGED row /\ DOMAIN mine'[r] = DOMAIN mine[r] \cup {i}
      /\ \A j \in DOMAIN mine'[r] : mine'[r][j] = IF j = i THEN a ELSE mine[r][j]
  BY PutFacts
<1>2. \A j \in Rows : Row(r, j)' = After(r, i, a)[j]
  BY <1>1 DEF Row, After
<1>3. View(r)' = After(r, i, a)
  BY <1>1 DEF View, After, Row
<1>4. AddsNone(View(r))' <=> AddsNone(After(r, i, a))
  BY <1>1, <1>2 DEF AddsNone, View
<1> QED BY <1>2, <1>4

\* A grant that runs alone has opened the doors it has done, and still finds what it read.
LEMMA GrantAlone ==
    ASSUME KeptOK, AloneOK, NEW r \in Requests,
           UpdateAssignment(r) \/ \E i \in Rows : CreateAssignment(r, i)
    PROVE  AloneOK'
<1>1. At(r, "write")
  BY DEF UpdateAssignment, CreateAssignment
<1>2. /\ req[r] \in Task /\ req[r].pc = "write" /\ req[r].op = "grant" /\ GoodTask(req[r])
      /\ ~At(r, "idle")
  BY <1>1, ReopenedFacts DEF At
<1>3. CASE ~alone[r]
  <2>0. PICK i \in Rows : \E a : Put(r, i, a, req[r].todo, "match")
    <3>1. UpdateAssignment(r) => req[r].found \in Rows
      BY <1>2 DEF UpdateAssignment, Task
    <3> QED BY <3>1 DEF UpdateAssignment, CreateAssignment
  <2>1. PICK a : Put(r, i, a, req[r].todo, "match")
    BY <2>0
  <2>2. CASE req[r].todo = {}
    <3>1. Finish(r)
      BY <2>1, <2>2, PutFacts
    <3> QED BY <1>2, <3>1, OnlyOneAlone
  <2>3. CASE req[r].todo # {}
    <3>1. Continue(r, Onward(r, req[r].todo, "match"))
      BY <2>1, <2>3, PutFacts
    <3>2. Onward(r, req[r].todo, "match") \in Task
      BY <1>2 DEF Onward, Task
    <3> QED BY <1>2, <1>3, <3>1, <3>2, OnlyOneAlone
  <2> QED BY <2>2, <2>3
<1>4. CASE alone[r]
  <2>1. PICK i \in Rows, a \in Assignment :
           /\ Put(r, i, a, req[r].todo, "match")
           /\ AddsNone(After(r, i, a))
           /\ \A d \in req[r].all \ req[r].todo : \E j \in DOMAIN mine[r] \cup {i} :
                 /\ After(r, i, a)[j].status = "ACTIVE"
                 /\ After(r, i, a)[j].by = req[r].scan
                 /\ After(r, i, a)[j].door = d /\ After(r, i, a)[j].who = req[r].who
    BY <1>4, GrantWrites
  <2>2. CASE req[r].todo = {}
    <3>1. Finish(r)
      BY <2>1, <2>2, PutFacts
    <3> QED BY <1>2, <3>1, OnlyOneAlone
  <2>3. CASE req[r].todo # {}
    <3>1. PICK t : t = Onward(r, req[r].todo, "match")
      OBVIOUS
    <3>2. /\ t \in Task /\ t.pc = "match" /\ t.todo = req[r].todo /\ t.place = NoDoor
          /\ t.op = "grant" /\ t.all = req[r].all /\ t.scan = req[r].scan /\ t.who = req[r].who
      BY <1>2, <3>1 DEF Onward, Task
    <3>3. Continue(r, t) /\ DOMAIN mine'[r] = DOMAIN mine[r] \cup {i}
      BY <2>1, <2>3, <3>1, PutFacts
    <3>4. SUFFICES Progress(r)'
      BY <1>2, <3>2, <3>3, OnlyOneAlone
    <3>5. OnItsOwn(r)' /\ req'[r] = t
      BY <1>2, <1>4, <3>2, <3>3, OnlyOneAlone
    <3>6. AddsNone(View(r))' /\ \A j \in Rows : Row(r, j)' = After(r, i, a)[j]
      BY <1>4, <2>1, <2>3, SeesAfter
    <3>7. \A j \in DOMAIN mine'[r] : mine'[r][j] = After(r, i, a)[j]
      <4>1. DOMAIN mine'[r] \subseteq Rows
        BY <3>3 DEF KeptOK, TypeOK
      <4> QED BY <3>6, <4>1 DEF Row
    <3>8. Opened(r)'
      BY <2>1, <3>2, <3>3, <3>5, <3>7 DEF Opened
    <3> QED BY <3>2, <3>5, <3>6, <3>8 DEF Progress
  <2> QED BY <2>2, <2>3
<1> QED BY <1>3, <1>4

\* A revocation that runs alone has closed the assignments it has done.
LEMMA RevokeAlone ==
    ASSUME KeptOK, AloneOK, NEW r \in Requests, NEW i \in Rows, Revoke(r, i)
    PROVE  AloneOK'
<1> DEFINE left == req[r].todo \ {i}
<1>1. At(r, "close")
  BY DEF Revoke
<1>2. /\ req[r] \in Task /\ req[r].pc = "close" /\ req[r].op = "revoke" /\ GoodTask(req[r])
      /\ ~At(r, "idle")
  BY <1>1, ClosedFacts DEF At
<1>3. left \subseteq req[r].todo
  OBVIOUS
<1>4. PICK a : Put(r, i, a, left, "close")
  BY DEF Revoke
<1>5. alone[r] =>
         \E b \in Assignment :
              /\ Put(r, i, b, left, "close")
              /\ AddsNone(After(r, i, b))
              /\ \A j \in req[r].all \ left : After(r, i, b)[j].status = "REVOKED"
  BY RevokeWrites
<1> HIDE DEF left
<1>6. CASE left = {}
  <2>1. Finish(r)
    BY <1>4, <1>6, PutFacts
  <2> QED BY <1>2, <2>1, OnlyOneAlone
<1>7. CASE left # {}
  <2>1. PICK t : t = Onward(r, left, "close")
    OBVIOUS
  <2>2. /\ t \in Task /\ t.pc = "close" /\ t.todo = left /\ t.place = NoDoor
        /\ t.op = "revoke" /\ t.all = req[r].all
    BY <1>2, <1>3, <2>1 DEF Onward, Task
  <2>3. Continue(r, t)
    BY <1>4, <1>7, <2>1, PutFacts
  <2>4. SUFFICES ASSUME alone[r] PROVE Progress(r)'
    BY <1>2, <2>2, <2>3, OnlyOneAlone
  <2>5. OnItsOwn(r)' /\ req'[r] = t
    BY <1>2, <2>2, <2>3, <2>4, OnlyOneAlone
  <2>6. PICK b \in Assignment :
           /\ Put(r, i, b, left, "close")
           /\ AddsNone(After(r, i, b))
           /\ \A j \in req[r].all \ left : After(r, i, b)[j].status = "REVOKED"
    BY <1>5, <2>4
  <2>7. AddsNone(View(r))' /\ \A j \in Rows : Row(r, j)' = After(r, i, b)[j]
    BY <1>7, <2>4, <2>6, SeesAfter
  <2>8. Closed(r)'
    BY <1>2, <2>2, <2>5, <2>6, <2>7 DEF Closed, GoodTask
  <2> QED BY <2>2, <2>5, <2>7, <2>8 DEF Progress
<1> QED BY <1>6, <1>7

\* A statement by which no request goes on leaves none alone.
LEMMA EndsAlone ==
    ASSUME KeptOK, AloneOK, NEW r \in Requests,
           Abort(r) \/ RevokeNothing(r) \/ DeleteDoor(r) \/ DeleteExternal(r)
    PROVE  AloneOK'
  BY OnlyOneAlone DEF Abort, RevokeNothing, DeleteDoor, DeleteExternal, At

\* Whatever steps, a request that runs alone stays sure of its progress.
LEMMA AloneStep == KeptOK /\ AloneOK /\ [Next]_vars => AloneOK'
<1> SUFFICES ASSUME KeptOK, AloneOK, [Next]_vars PROVE AloneOK'
  OBVIOUS
<1>1. CASE UNCHANGED vars
  BY <1>1 DEF vars, handlers, doors, AloneOK, Progress, OnItsOwn, At, AddsNone, View, Row,
              Opened, Closed, FoundStill
<1>2. Instant => AloneOK'
  BY DEF Instant, AloneOK
<1>3. ASSUME NEW r \in Requests, Statement(r) PROVE AloneOK'
  BY <1>3, BeforeWritingAlone, FindAssignmentAlone, GrantAlone, RevokeAlone, EndsAlone
     DEF Statement
<1> QED BY <1>1, <1>2, <1>3, ArriveAlone, EndsAlone
        DEF Next, SetDoor, SetPerson, RemoveEmployee, UploadDocument

\* In every state, a request that ran alone so far has done what it has no more to do.
THEOREM AloneAlways == Spec => []AloneOK
  BY AloneInit, AloneStep, KeptAlways, PTL DEF Spec

\* What the last statement of a request that no other overlapped leaves behind.
LEMMA CommitFacts ==
    ASSUME KeptOK, AloneOK, NEW r \in Requests, alone[r], Committed(r)
    PROVE  /\ AddsNone(row')
           /\ req[r].op = "grant" =>
                 \A d \in req[r].all : \E i \in Rows :
                    /\ row'[i].status = "ACTIVE" /\ row'[i].by = req[r].scan
                    /\ row'[i].door = d /\ row'[i].who = req[r].who
           /\ req[r].op # "grant" => \A i \in req[r].all : row'[i].status = "REVOKED"
<1>1. DOMAIN mine[r] \subseteq Rows
  BY DEF KeptOK, TypeOK
<1>2. req'[r] \notin Task
  BY KindsOfTask DEF Committed
<1>3. CASE UpdateAssignment(r) \/ \E i \in Rows : CreateAssignment(r, i)
  <2>1. /\ req[r] \in Task /\ req[r].op = "grant"
    BY <1>3, ReopenedFacts DEF UpdateAssignment, CreateAssignment
  <2>2. PICK i \in Rows, a \in Assignment :
           /\ Put(r, i, a, req[r].todo, "match")
           /\ AddsNone(After(r, i, a))
           /\ \A d \in req[r].all \ req[r].todo : \E j \in DOMAIN mine[r] \cup {i} :
                 /\ After(r, i, a)[j].status = "ACTIVE"
                 /\ After(r, i, a)[j].by = req[r].scan
                 /\ After(r, i, a)[j].door = d /\ After(r, i, a)[j].who = req[r].who
    BY <1>3, GrantWrites
  <2>3. req[r].todo = {}
    <3>1. SUFFICES ASSUME req[r].todo # {} PROVE FALSE
      OBVIOUS
    <3>2. Continue(r, Onward(r, req[r].todo, "match"))
      BY <2>2, <3>1, PutFacts
    <3>3. Onward(r, req[r].todo, "match") \in Task
      BY <2>1 DEF Onward, Task
    <3> QED BY <1>2, <3>2, <3>3 DEF Continue, KeptOK
  <2>4. row' = After(r, i, a)
    BY <2>2, <2>3, PutFacts DEF After
  <2>5. \A j \in DOMAIN mine[r] \cup {i} : j \in Rows
    BY <1>1
  <2> QED BY <2>1, <2>2, <2>3, <2>4, <2>5
<1>4. CASE RevokeNothing(r)
  <2>1. At(r, "close") /\ req[r].todo = {} /\ UNCHANGED row /\ DOMAIN mine[r] = {}
    BY <1>4, RevokeNothingKept DEF RevokeNothing, doors
  <2>2. req[r] \in Task /\ req[r].op = "revoke"
    BY <2>1, ClosedFacts
  <2>3. Closed(r)
    BY <2>2 DEF AloneOK, Progress
  <2>4. \A i \in req[r].all : row'[i].status = "REVOKED"
    BY <2>1, <2>3 DEF Closed, Row
  <2>5. AddsNone(row')
    BY <2>1 DEF AddsNone
  <2> QED BY <2>2, <2>4, <2>5
<1>5. ASSUME NEW i \in Rows, Revoke(r, i)
      PROVE  /\ AddsNone(row') /\ req[r].op = "revoke"
             /\ \A j \in req[r].all : row'[j].status = "REVOKED"
  <2> DEFINE left == req[r].todo \ {i}
  <2>1. req[r] \in Task /\ req[r].op = "revoke"
    BY <1>5, ClosedFacts DEF Revoke
  <2>2. PICK a \in Assignment :
           /\ Put(r, i, a, left, "close")
           /\ AddsNone(After(r, i, a))
           /\ \A j \in req[r].all \ left : After(r, i, a)[j].status = "REVOKED"
    BY <1>5, RevokeWrites
  <2>3. left \subseteq req[r].todo
    OBVIOUS
  <2> HIDE DEF left
  <2>4. left = {}
    <3>1. SUFFICES ASSUME left # {} PROVE FALSE
      OBVIOUS
    <3>2. Continue(r, Onward(r, left, "close"))
      BY <2>2, <3>1, PutFacts
    <3>3. Onward(r, left, "close") \in Task
      BY <2>1, <2>3 DEF Onward, Task
    <3> QED BY <1>2, <3>2, <3>3 DEF Continue, KeptOK
  <2>5. row' = After(r, i, a)
    BY <2>2, <2>4, PutFacts DEF After
  <2> QED BY <2>1, <2>2, <2>4, <2>5
<1> QED BY <1>3, <1>4, <1>5 DEF Committed

\* grantAccess, revokeAccess: a request that no other overlapped has opened all its doors,
\* on its scan, or closed all its rows, when its transaction commits.
THEOREM AloneRequestDoesAll == Spec => AloneDoesAll
<1>1. KeptOK /\ AloneOK /\ [Next]_vars =>
         [\A r \in Requests : alone[r] /\ Committed(r) =>
             IF req[r].op = "grant"
             THEN \A d \in req[r].all : \E i \in Rows :
                     /\ row'[i].status = "ACTIVE" /\ row'[i].by = req[r].scan
                     /\ row'[i].door = d /\ row'[i].who = req[r].who
             ELSE \A i \in req[r].all : row'[i].status = "REVOKED"]_vars
  BY CommitFacts
<1> QED BY <1>1, KeptAlways, AloneAlways, PTL DEF Spec, AloneDoesAll

\* ... and it leaves no two assignments of one door and person that were not both there.
THEOREM AloneRequestAddsNone == Spec => AloneOneRow
<1>1. KeptOK /\ AloneOK /\ [Next]_vars =>
         [\A r \in Requests : alone[r] /\ Committed(r) =>
             \A i, j \in Rows :
                /\ i # j /\ row'[i] # Gone /\ row'[j] # Gone
                /\ row'[i].who # NoOne
                /\ row'[i].who = row'[j].who /\ row'[i].door = row'[j].door
                => row[i] # Gone /\ row[j] # Gone]_vars
  BY CommitFacts DEF AddsNone
<1> QED BY <1>1, KeptAlways, AloneAlways, PTL DEF Spec, AloneOneRow
==============================================================================
