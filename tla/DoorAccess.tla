----------------------------- MODULE DoorAccess ------------------------------
(***************************************************************************)
(* Access to doors: AccessControlService.grantAccess, revokeAccess,        *)
(* uploadDocument, deleteDoor, deleteNonADUser and the writes of doors and *)
(* people they meet (apps/api/src/modules/access-control/                  *)
(* access-control.service.ts, access-control-storage.service.ts).          *)
(*                                                                         *)
(* A grant or a revocation checks its doors, people or rows, keeps the     *)
(* signed scan as a file and a record of it, and then writes all its       *)
(* assignments in one transaction; the catch block of both deletes the     *)
(* file they saved.  In the transaction a step is one statement; what it   *)
(* has written and not committed is in mine[r], locked for the others.     *)
(* A grant is for one person; validity dates are left out.                 *)
(***************************************************************************)
EXTENDS Handlers, FiniteSets, Naturals

CONSTANTS
    Doors,
    People,       \* external people (NonADUser) and employees (DirectoryUser)
    Rows,         \* bound: assignments at a time
    Scans,        \* bound: scans ever kept
    MaxInHand,    \* bound: doors and rows that all requests together are about
    NoDoor, NoOne, NoRow, NoScan

ASSUME DoorsAssumption ==
    /\ NoDoor \notin Doors /\ NoRow \notin Rows /\ NoScan \notin Scans
    /\ NoOne \notin People /\ MaxInHand \in Nat

VARIABLES
    door,      \* AccessDoor: its status, MAINTENANCE being like ACTIVE here
    person,    \* the status of an external; "employee", whose status decides nothing here
    row,       \* DoorAccessAssignment
    scan,      \* DoorAccessDocumentScan: its type
    file,      \* the scans whose file is on the disk
    mine,      \* the rows a transaction has written and not committed
    undone     \* history: recorded scans whose file a failed request took away

doors == <<door, person, row, scan, file, mine, undone>>
vars == <<handlers, doors>>

Types == {"GRANT", "REVOCATION"}

Gone == [status |-> "none"]
\* by: the grant document of an open assignment, the revocation document of a closed one
\* (each row keeps the other document too, which is left out).
Assignment == [status : {"ACTIVE", "REVOKED"}, door : Doors, who : People \cup {NoOne},
               by : Scans]

\* own: the scan was uploaded with the request; todo: what is left of all; place and
\* found: the door it is at, and the row that the door and the person have.
Task == [pc : {"people", "attach", "match", "write", "close"},
         op : {"grant", "revoke"}, type : Types, who : People \cup {NoOne},
         all : SUBSET (Doors \cup Rows), todo : SUBSET (Doors \cup Rows),
         scan : Scans \cup {NoScan}, own : BOOLEAN,
         place : Doors \cup {NoDoor}, found : Rows \cup {NoRow}]
DeleteTask ==
    [pc : {"deleteDoor"}, target : Doors] \cup [pc : {"deleteExternal"}, target : People]

TypeOK ==
    /\ \A r \in Requests : req[r] \in {Idle} \cup Task \cup DeleteTask
    /\ alone \in [Requests -> BOOLEAN]
    /\ door \in [Doors -> {"none", "ACTIVE", "INACTIVE"}]
    /\ person \in [People -> {"none", "ACTIVE", "BLACKLISTED", "employee"}]
    /\ row \in [Rows -> Assignment \cup {Gone}]
    /\ \A i \in Rows : row[i] # Gone =>
          /\ door[row[i].door] # "none"
          /\ row[i].who # NoOne => person[row[i].who] # "none"
    /\ scan \in [Scans -> Types \cup {"none"}]
    /\ file \subseteq Scans /\ undone \subseteq Scans \ file
    /\ \A r \in Requests : DOMAIN mine[r] \subseteq Rows
    /\ \A r \in Requests : \A i \in DOMAIN mine[r] : mine[r][i] \in Assignment

Empty == [i \in {} |-> Gone]

Init ==
    /\ HandlersInit
    /\ door = [d \in Doors |-> "none"] /\ person = [p \in People |-> "none"]
    /\ row = [i \in Rows |-> Gone]
    /\ scan = [s \in Scans |-> "none"] /\ file = {} /\ undone = {}
    /\ mine = [r \in Requests |-> Empty]

Remembers(r, x) ==
    \/ /\ req[r] \in Task
       /\ x \in {req[r].who, req[r].scan, req[r].found} \cup req[r].all \cup DOMAIN mine[r]
    \/ req[r] \in DeleteTask /\ x = req[r].target
Forgotten(x) == \A r \in Requests : ~Remembers(r, x)

\* What a transaction sees, and the rows that have been written by one.
Row(r, i) == IF i \in DOMAIN mine[r] THEN mine[r][i] ELSE row[i]
Unlocked(r, i) == \A q \in Requests \ {r} : i \notin DOMAIN mine[q]
Uncommitted == UNION {{mine[r][i] : i \in DOMAIN mine[r]} : r \in Requests}

\* Mutant of Abort: the file of a scan that was only cited is deleted as well.
AbortDeletesCited(r) ==
    /\ ~At(r, "idle")
    /\ LET t == req[r]
           cited == {s \in file : t \in Task /\ s = t.scan}
       IN  /\ file' = file \ cited
           /\ undone' = undone \cup {s \in cited : t.own}
    /\ mine' = [mine EXCEPT ![r] = Empty]
    /\ Finish(r)
    /\ UNCHANGED <<door, person, row, scan>>

\* A request that is refused, or whose transaction fails: ROLLBACK, and the file that it
\* saved is deleted, unless the process dies or the disk fails.
Abort(r) ==
    /\ ~At(r, "idle")
    /\ LET t == req[r]
           saved == {s \in file : t \in Task /\ t.own /\ s = t.scan}
       IN  \/ file' = file \ saved /\ undone' = undone \cup saved
           \/ UNCHANGED <<file, undone>>
    /\ mine' = [mine EXCEPT ![r] = Empty]
    /\ Finish(r)
    /\ UNCHANGED <<door, person, row, scan>>
-----------------------------------------------------------------------------
(* Doors and people.                                                       *)

\* createDoor, updateDoor.
SetDoor(d, status) ==
    /\ door[d] = "none" => Forgotten(d)
    /\ door' = [door EXCEPT ![d] = status]
    /\ Instant
    /\ UNCHANGED <<person, row, scan, file, mine, undone>>

\* createNonADUser, updateNonADUser; DirectoryService.create.
SetPerson(p, status) ==
    /\ \/ person[p] = "none" /\ Forgotten(p)
       \/ person[p] \in {"ACTIVE", "BLACKLISTED"} /\ status # "employee"
    /\ person' = [person EXCEPT ![p] = status]
    /\ Instant
    /\ UNCHANGED <<door, row, scan, file, mine, undone>>

\* The open assignments of a door or a person, that forbid their delete.
OpenOf(x) == {i \in Rows : row[i].status = "ACTIVE" /\ x \in {row[i].door, row[i].who}}

StartDeleteDoor(r, d) ==
    /\ door[d] # "none" /\ OpenOf(d) = {}
    /\ Begin(r, [pc |-> "deleteDoor", target |-> d])
    /\ UNCHANGED doors

StartDeleteExternal(r, p) ==
    /\ person[p] \in {"ACTIVE", "BLACKLISTED"} /\ OpenOf(p) = {}
    /\ Begin(r, [pc |-> "deleteExternal", target |-> p])
    /\ UNCHANGED doors

\* Mutant of DeleteDoor: the assignments are left.
DeleteDoorAlone(r) ==
    /\ At(r, "deleteDoor")
    /\ door' = [door EXCEPT ![req[r].target] = "none"]
    /\ Finish(r)
    /\ UNCHANGED <<person, row, scan, file, mine, undone>>

\* Its assignments go with it (Cascade).
DeleteDoor(r) ==
    /\ At(r, "deleteDoor")
    /\ LET d == req[r].target
       IN  /\ door[d] # "none" /\ \A a \in Uncommitted : a.door # d
           /\ door' = [door EXCEPT ![d] = "none"]
           /\ row' = [i \in Rows |-> IF row[i] # Gone /\ row[i].door = d THEN Gone ELSE row[i]]
    /\ Finish(r)
    /\ UNCHANGED <<person, scan, file, mine, undone>>

\* Their assignments stay, and name nobody (SetNull).
RemovePerson(p) ==
    /\ person[p] # "none" /\ \A a \in Uncommitted : a.who # p
    /\ person' = [person EXCEPT ![p] = "none"]
    /\ row' = [i \in Rows |-> IF row[i] # Gone /\ row[i].who = p
                              THEN [row[i] EXCEPT !.who = NoOne] ELSE row[i]]
    /\ UNCHANGED <<door, scan, file, mine, undone>>

DeleteExternal(r) ==
    /\ At(r, "deleteExternal")
    /\ RemovePerson(req[r].target)
    /\ Finish(r)

\* DirectoryService.remove, which does not look at doors.
RemoveEmployee(p) == person[p] = "employee" /\ RemovePerson(p) /\ Instant
-----------------------------------------------------------------------------
(* The scan: its file and its record, or one that was kept before.  (A     *)
(* file without its record is named by nobody: the two are one step.)      *)

Attached(r) == IF req[r].op = "grant" THEN "match" ELSE "close"

Keep(s, type) ==
    /\ scan[s] = "none" /\ Forgotten(s)
    /\ file' = file \cup {s}
    /\ scan' = [scan EXCEPT ![s] = type]
    /\ UNCHANGED <<door, person, row, mine, undone>>

\* uploadDocument.
UploadDocument(s, type) == Keep(s, type) /\ Instant

SaveScan(r, s) ==
    /\ At(r, "attach")
    /\ Keep(s, req[r].type)
    /\ Continue(r, [req[r] EXCEPT !.pc = Attached(r), !.scan = s, !.own = TRUE])

\* documentId: the record is looked at, not the file.
FindScan(r, s) ==
    /\ At(r, "attach")
    /\ scan[s] = req[r].type
    /\ Continue(r, [req[r] EXCEPT !.pc = Attached(r), !.scan = s])
    /\ UNCHANGED doors

Asked(pc, op, type, p, all, todo) ==
    [pc |-> pc, op |-> op, type |-> type, who |-> p, all |-> all, todo |-> todo,
     scan |-> NoScan, own |-> FALSE, place |-> NoDoor, found |-> NoRow]

-----------------------------------------------------------------------------
(* grantAccess.                                                            *)

StartGrant(r, p, S) ==
    /\ \A d \in S : door[d] = "ACTIVE"
    /\ Begin(r, Asked("people", "grant", "GRANT", p, S, S))
    /\ UNCHANGED doors

CheckPerson(r) ==
    /\ At(r, "people")
    /\ person[req[r].who] \in {"ACTIVE", "employee"}
    /\ Goto(r, "attach")
    /\ UNCHANGED doors

\* Mutant of Existing: an open one.
ExistingOpen(r, d) == {i \in Rows : /\ Row(r, i).status = "ACTIVE"
                                    /\ Row(r, i).door = d /\ Row(r, i).who = req[r].who}

\* The assignment that the door and the person have, open or not.
Existing(r, d) == {i \in Rows : /\ Row(r, i) # Gone
                                /\ Row(r, i).door = d /\ Row(r, i).who = req[r].who}

\* Mutant of FindAssignment: the first door ends the batch.
FindAssignmentOnce(r, d) ==
    /\ At(r, "match") /\ d \in req[r].todo
    /\ \E i \in IF Existing(r, d) = {} THEN {NoRow} ELSE Existing(r, d) :
          Continue(r, [req[r] EXCEPT !.pc = "write", !.place = d, !.found = i, !.todo = {}])
    /\ UNCHANGED doors

FindAssignment(r, d) ==
    /\ At(r, "match") /\ d \in req[r].todo
    /\ \E i \in IF Existing(r, d) = {} THEN {NoRow} ELSE Existing(r, d) :
          Continue(r, [req[r] EXCEPT !.pc = "write", !.place = d, !.found = i,
                                     !.todo = @ \ {d}])
    /\ UNCHANGED doors

\* The statement writes a to row i; with nothing left to do the transaction commits.
Put(r, i, a, todo, next) ==
    /\ Unlocked(r, i)
    /\ LET written == [j \in DOMAIN mine[r] \cup {i} |-> IF j = i THEN a ELSE mine[r][j]]
       IN  IF todo = {}
           THEN /\ row' = [j \in Rows |-> IF j \in DOMAIN written THEN written[j] ELSE row[j]]
                /\ mine' = [mine EXCEPT ![r] = Empty]
                /\ Finish(r)
           ELSE /\ mine' = [mine EXCEPT ![r] = written]
                /\ Continue(r, [req[r] EXCEPT !.pc = next, !.todo = todo,
                                              !.place = NoDoor, !.found = NoRow])
                /\ UNCHANGED row
    /\ UNCHANGED <<door, person, scan, file, undone>>

Reopened(r, a) == [a EXCEPT !.status = "ACTIVE", !.by = req[r].scan]

UpdateAssignment(r) ==
    /\ At(r, "write") /\ req[r].found # NoRow
    /\ LET i == req[r].found
       IN  /\ Row(r, i) # Gone
           /\ Put(r, i, Reopened(r, Row(r, i)), req[r].todo, "match")

CreateAssignment(r, i) ==
    /\ At(r, "write") /\ req[r].found = NoRow
    /\ row[i] = Gone /\ Forgotten(i)
    /\ door[req[r].place] # "none" /\ person[req[r].who] # "none"
    /\ Put(r, i, [status |-> "ACTIVE", door |-> req[r].place, who |-> req[r].who,
                  by |-> req[r].scan],
           req[r].todo, "match")
-----------------------------------------------------------------------------
(* revokeAccess.                                                           *)

\* The rows are read before the transaction, which leaves out those that were REVOKED.
StartRevoke(r, S) ==
    /\ \A i \in S : row[i] # Gone
    /\ Begin(r, Asked("attach", "revoke", "REVOCATION", NoOne, S,
                      {i \in S : row[i].status = "ACTIVE"}))
    /\ UNCHANGED doors

Revoke(r, i) ==
    /\ At(r, "close") /\ i \in req[r].todo
    /\ Row(r, i) # Gone
    /\ Put(r, i, [Row(r, i) EXCEPT !.status = "REVOKED", !.by = req[r].scan],
           req[r].todo \ {i}, "close")

RevokeNothing(r) ==
    /\ At(r, "close") /\ req[r].todo = {}
    /\ Finish(r)
    /\ UNCHANGED doors
-----------------------------------------------------------------------------
InHand == {h \in Requests \X (Doors \cup Rows) : req[h[1]] \in Task /\ h[2] \in req[h[1]].all}
Batches(X) == {S \in SUBSET X : S # {} /\ Cardinality(S) + Cardinality(InHand) <= MaxInHand}

Arrive(r) ==
    \/ \E p \in People : \E S \in Batches(Doors) : StartGrant(r, p, S)
    \/ \E S \in Batches(Rows) : StartRevoke(r, S)
    \/ \E d \in Doors : StartDeleteDoor(r, d)
    \/ \E p \in People : StartDeleteExternal(r, p)

Statement(r) ==
    \/ CheckPerson(r)
    \/ \E s \in Scans : SaveScan(r, s) \/ FindScan(r, s)
    \/ \E d \in Doors : FindAssignment(r, d)
    \/ UpdateAssignment(r)
    \/ \E i \in Rows : CreateAssignment(r, i) \/ Revoke(r, i)
    \/ RevokeNothing(r)
    \/ DeleteDoor(r) \/ DeleteExternal(r)

Next ==
    \/ \E r \in Requests : Arrive(r) \/ Statement(r) \/ Abort(r)
    \/ \E d \in Doors, status \in {"ACTIVE", "INACTIVE"} : SetDoor(d, status)
    \/ \E p \in People :
          \/ \E status \in {"ACTIVE", "BLACKLISTED", "employee"} : SetPerson(p, status)
          \/ RemoveEmployee(p)
    \/ \E s \in Scans, type \in Types : UploadDocument(s, type)

Spec == Init /\ [][Next]_vars
-----------------------------------------------------------------------------
(* Properties.                                                             *)

\* No door was opened or closed for anyone without the signed scan, of the right type and
\* with its file, whatever fails and in whatever order requests run; but for a scan
\* whose own request failed after it was recorded: its file is gone and the record
\* can still be cited as documentId.
ScansKept ==
    \A i \in Rows : row[i] # Gone =>
        /\ scan[row[i].by] = IF row[i].status = "ACTIVE" THEN "GRANT" ELSE "REVOCATION"
        /\ row[i].by \in file \cup undone

Of(d, p) == {i \in Rows : row[i] # Gone /\ row[i].door = d /\ row[i].who = p}

\* A request has done its last statement.
Committed(r) ==
    /\ req'[r] = Idle
    /\ \/ UpdateAssignment(r) \/ RevokeNothing(r)
       \/ \E i \in Rows : CreateAssignment(r, i) \/ Revoke(r, i)

\* A grant that no other request overlapped opens each of its doors, on the scan it was
\* given and also when the door had been closed before; a revocation closes all its
\* rows, those included that it found closed.
AloneDoesAll ==
    [][\A r \in Requests : alone[r] /\ Committed(r) =>
          IF req[r].op = "grant"
          THEN \A d \in req[r].all : \E i \in Rows :
                  /\ row'[i].status = "ACTIVE" /\ row'[i].by = req[r].scan
                  /\ row'[i].door = d /\ row'[i].who = req[r].who
          ELSE \A i \in req[r].all : row'[i].status = "REVOKED"]_vars

\* Nothing in the schema forbids two assignments of one door and person, of which a
\* revocation may close one; two racing grants make them.  One that no other overlapped
\* adds none where there was one.
AloneOneRow ==
    [][\A r \in Requests : alone[r] /\ Committed(r) =>
          \A i, j \in Rows :
             /\ i # j /\ row'[i] # Gone /\ row'[j] # Gone
             /\ row'[i].who # NoOne
             /\ row'[i].who = row'[j].who /\ row'[i].door = row'[j].door
             => row[i] # Gone /\ row[j] # Gone]_vars
==============================================================================
