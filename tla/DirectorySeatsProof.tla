------------------------ MODULE DirectorySeatsProof -------------------------
(***************************************************************************)
(* Proofs about the two writers of license seats together, for any sets of *)
(* licenses, users and requests.  DirSpec lets LicensesService alone run   *)
(* too (SpecIsDirSpec), so what holds of it holds of LicenseSeats.         *)
(*                                                                         *)
(* A request that no other overlaps knows the seats it counts for sure     *)
(* (AloneOK): it heals the counter and stays within the capacity.  As long *)
(* as no two requests ever overlap (OneAtATime), each also leaves the      *)
(* tables as the next one expects them (TidyOK): no user with two seats,   *)
(* no counter above the seats taken.                                       *)
(***************************************************************************)
EXTENDS DirectorySeats, LicenseSeatsProof

-----------------------------------------------------------------------------
(* The invariants.                                                         *)

\* The statements of the directory, which know their user.
OfDirectory == {"dirRead", "dirFind", "dirInsert", "dirFindRows", "dirNextRow", "dirReadUsed",
                "dirWriteUsed", "dirDelete", "dirDeleteUser"}

WhoOK == \A r \in Requests : pc[r] \in OfDirectory => \E u \in Users : who[r] = {u}

\* Rows not yet committed belong to a transaction of LicensesService that inserts.
Inserting == {"next", "readLicense", "findSeat", "countSeats", "recount", "writeUsed"}

OwnersOK ==
    \A i \in SeatIds : \A r \in Requests :
        seat[i].by = r => seat[i].st = "open" /\ pc[r] \in Inserting

SharedOK == TypeInv /\ WhoOK /\ OwnersOK

\* What a request knows that no other overlaps: the limit it read is the license's, the
\* count it takes is of all the open rows, and where it has seated someone, all fit.
AloneAt(r) ==
    /\ \A q \in Requests \ {r} : pc[q] = "idle"
    /\ pc[r] \in {"findSeat", "countSeats"} => limit[r] = total[lic[r]]
    /\ pc[r] = "writeUsed" /\ op[r] # "bundle" => count[r] = Cardinality(OpenSeats(r, lic[r]))
    /\ \A l \in Licenses \ Unlimited :
          Own(r, l) # {} => Cardinality(OpenSeats(r, l)) <= total[l]

AloneOK == \A r \in Requests : alone[r] => AloneAt(r)

\* No two requests run at the same time.
OneAtATime == \A q, r \in Requests : pc[q] # "idle" /\ pc[r] # "idle" => q = r

\* A user holds one open row of a license, committed or not.
OneRowEach ==
    \A i, j \in SeatIds :
        /\ seat[i].st = "open" /\ seat[j].st = "open"
        /\ seat[i].lic = seat[j].lic
        /\ seat[i].user = seat[j].user /\ seat[i].user # NoUser
        => i = j

\* The users a request is about to seat hold no open row.
SeatedOnce(r) ==
    pc[r] \in {"countSeats", "dirInsert"} =>
        /\ who[r] # {}
        /\ \A i \in Held(lic[r]) : seat[i].user \in who[r] => seat[i].user = NoUser

\* The counter of l as the transaction will leave it if it writes no more.
Written(r, l) == IF wrote[r][l] = NoCount THEN used[l] ELSE wrote[r][l]

\* The rows of a directory request whose seats it has taken off the counters.
Done(r) == IF op[r] = "dirUnassign" THEN targets[r]
           ELSE IF pc[r] = "dirDeleteUser" THEN ending[r]
           ELSE RowsOfUser(r, User(r)) \ targets[r]

Counting == {"dirReadUsed", "dirWriteUsed"}
Counted == {"dirNextRow", "dirDelete", "dirDeleteUser"}

\* No counter will say more than the seats taken when the request commits: what
\* LicensesService has written is below what it has open, and what the directory has
\* written below the open rows it has not been through.
CountersAt(r) ==
    /\ pc[r] \notin Inserting \cup Counting \cup Counted => wrote[r] = Clean
    /\ pc[r] = "endSeat" => \A i \in targets[r] : seat[i].lic = lic[r]
    /\ pc[r] \in Inserting =>
          /\ \A i \in ending[r] : seat[i].lic = lic[r]
          /\ \A l \in Licenses :
                wrote[r][l] # NoCount => wrote[r][l] <= Cardinality(OpenSeats(r, l))
    /\ pc[r] = "writeUsed" => count[r] <= Cardinality(OpenSeats(r, lic[r]))
    /\ pc[r] \in Counted =>
          \A l \in Licenses : Written(r, l) <= Cardinality(Active(l) \ Done(r))
    /\ pc[r] \in Counting =>
          /\ op[r] \in {"dirUnassign", "dirRemove"}
          /\ \E i \in SeatIds :
                /\ op[r] = "dirUnassign" => targets[r] = {i}
                /\ seat[i].lic = lic[r]
                /\ \A l \in Licenses :
                      Written(r, l) <= Cardinality(Active(l) \ (Done(r) \ {i}))
    /\ pc[r] = "dirWriteUsed" => count[r] = Written(r, lic[r])
    /\ pc[r] = "dirDelete" => op[r] = "dirUnassign"
    /\ pc[r] \in {"dirFindRows", "dirNextRow", "dirDeleteUser"} => op[r] = "dirRemove"

TidyOK ==
    /\ OneRowEach
    /\ UsedNotOverstated
    /\ \A r \in Requests : SeatedOnce(r) /\ CountersAt(r)
-----------------------------------------------------------------------------
(* Types, owners and users.                                                *)

\* COMMIT of a directory transaction.
LEMMA CommitTypes ==
    ASSUME TypeInv, NEW r \in Requests, NEW writes \in [Licenses -> Nat \cup {NoCount}],
           NEW newSeat \in [SeatIds -> Row], Publish(r, writes, newSeat),
           total' = total, staff' \subseteq Users,
           \A i \in SeatIds : newSeat[i].st # "unused" => newSeat[i].lic \in Licenses,
           \A i \in SeatIds : seat[i].st # "unused" /\ seat[i].by = NoRequest =>
                newSeat[i].st # "unused" /\ newSeat[i].by = NoRequest,
           \A q \in Requests \ {r} : \A i \in ending[q] : newSeat[i].st \in {"open", "closed"}
    PROVE  TypeInv'
<1>1. /\ Reset(r) /\ seat' = newSeat
      /\ used' = [l \in Licenses |-> IF writes[l] = NoCount THEN used[l] ELSE writes[l]]
  BY DEF Publish
<1>2. used' \in [Licenses -> Nat]
  BY <1>1 DEF TypeInv, TablesOK
<1>3. TablesOK'
  BY <1>1, <1>2 DEF TypeInv, TablesOK
<1>4. /\ LocalsOK' /\ StepsOK'
      /\ ending'[r] = {} /\ targets'[r] = {}
      /\ \A q \in Requests \ {r} : ending'[q] = ending[q] /\ targets'[q] = targets[q]
  BY <1>1, ResetTypes
<1>5. /\ \A q \in Requests \ {r} : ending[q] \subseteq SeatIds /\ targets[q] \subseteq SeatIds
      /\ \A q \in Requests : \A i \in ending[q] : seat[i].st # "unused" /\ seat[i].by = NoRequest
      /\ \A q \in Requests : \A i \in targets[q] : seat[i].st # "unused" /\ seat[i].by = NoRequest
      /\ \A p, q \in Requests : p # q => ending[p] \cap ending[q] = {}
  BY DEF TypeInv, LocalsOK, EndsOK
<1>6. EndsOK'
  BY <1>1, <1>4, <1>5 DEF EndsOK
<1> QED BY <1>3, <1>4, <1>6 DEF TypeInv

\* The user of a directory request, and the rows it sees.
LEMMA ItsUser ==
    ASSUME SharedOK, NEW r \in Requests, pc[r] \in OfDirectory
    PROVE  /\ User(r) \in Users /\ who[r] = {User(r)}
           /\ \A i \in Rows(r) : /\ i \in SeatIds /\ seat[i].by = NoRequest
                                 /\ seat[i].st \in {"open", "closed"}
           /\ RowsOfUser(r, User(r)) \subseteq Rows(r)
<1>1. PICK u \in Users : who[r] = {u}
  BY DEF SharedOK, WhoOK
<1>2. User(r) = u
  BY <1>1 DEF User
<1>3. pc[r] \notin Inserting
  BY DEF OfDirectory, Inserting
<1>4. \A i \in Rows(r) : i \in SeatIds /\ seat[i].by = NoRequest /\ seat[i].st \in {"open", "closed"}
  BY <1>3 DEF SharedOK, OwnersOK, Rows
<1> QED BY <1>1, <1>2, <1>4 DEF RowsOfUser

\* Whatever arrives at the directory.
LEMMA DirArriveTypes ==
    ASSUME TypeInv, NEW r \in Requests, DirArrive(r)
    PROVE  TypeInv'
<1> USE DEF About
<1>1. ASSUME UNCHANGED targets
      PROVE  /\ \A q \in Requests \ {r} : targets'[q] = targets[q]
             /\ \A i \in targets'[r] : seat[i].st # "unused" /\ seat[i].by = NoRequest
  BY <1>1 DEF TypeInv, EndsOK
<1>2. staff \subseteq Users
  BY DEF TypeInv, TablesOK
<1>3. ASSUME NEW u \in staff, NEW l \in Licenses, StartDirAssign(r, l, u) PROVE TypeInv'
  <2>1. /\ Begin(r, "dirAssign", "dirRead") /\ lic' = [lic EXCEPT ![r] = l]
        /\ who' = [who EXCEPT ![r] = {u}] /\ todo' = todo /\ UNCHANGED targets
    BY <1>3 DEF StartDirAssign
  <2>2. LocalsOK'
    BY <1>2, <2>1 DEF TypeInv, LocalsOK, Begin
  <2>3. /\ \A q \in Requests \ {r} : lic'[q] = lic[q]
        /\ lic'[r] \in Licenses
    BY <2>1 DEF TypeInv, LocalsOK
  <2> QED BY <1>1, <2>1, <2>2, <2>3, BeginTypes
<1>4. ASSUME NEW u \in staff, StartDirRemove(r, u) PROVE TypeInv'
  <2>1. /\ Begin(r, "dirRemove", "dirFindRows") /\ lic' = lic
        /\ who' = [who EXCEPT ![r] = {u}] /\ todo' = todo /\ UNCHANGED targets
    BY <1>4 DEF StartDirRemove
  <2>2. LocalsOK'
    BY <1>2, <2>1 DEF TypeInv, LocalsOK, Begin
  <2>3. \A q \in Requests \ {r} : lic'[q] = lic[q]
    BY <2>1
  <2> QED BY <1>1, <2>1, <2>2, <2>3, BeginTypes
<1>5. ASSUME NEW i \in SeatIds, StartDirUnassign(r, i) PROVE TypeInv'
  <2>1. /\ Begin(r, "dirUnassign", "dirReadUsed") /\ lic' = [lic EXCEPT ![r] = seat[i].lic]
        /\ who' = [who EXCEPT ![r] = {seat[i].user}] /\ targets' = [targets EXCEPT ![r] = {i}]
        /\ todo' = todo /\ seat[i].user \in Users
        /\ seat[i].st # "unused" /\ seat[i].by = NoRequest /\ seat[i].lic \in Licenses
    BY <1>2, <1>5 DEF StartDirUnassign, Rows, TypeInv, TablesOK
  <2>2. LocalsOK'
    BY <2>1 DEF TypeInv, LocalsOK, Begin
  <2>3. /\ \A q \in Requests \ {r} : lic'[q] = lic[q]
        /\ lic'[r] \in Licenses
    BY <2>1 DEF TypeInv, LocalsOK
  <2>4. /\ \A q \in Requests \ {r} : targets'[q] = targets[q]
        /\ targets'[r] = {i}
    BY <2>1 DEF TypeInv, LocalsOK
  <2>5. \A j \in targets'[r] : seat[j].st # "unused" /\ seat[j].by = NoRequest
    BY <2>1, <2>4
  <2> QED BY <2>1, <2>2, <2>3, <2>4, <2>5, BeginTypes
<1> QED BY <1>3, <1>4, <1>5 DEF DirArrive

\* Every statement of the directory.
LEMMA DirStatementTypes ==
    ASSUME SharedOK, NEW r \in Requests, DirStatement(r)
    PROVE  TypeInv'
<1> USE DEF About
<1>1. TypeInv
  BY DEF SharedOK
<1>2. ASSUME UNCHANGED tables PROVE TablesOK'
  BY <1>1, <1>2 DEF TypeInv, TablesOK, tables
<1>3. ASSUME UNCHANGED <<seat, ending, targets>> PROVE EndsOK'
  BY <1>1, <1>3 DEF TypeInv, EndsOK
<1>4. pc[r] \in About => lic[r] \in Licenses
  BY <1>1 DEF TypeInv, StepsOK
<1>5. CASE DirRead(r)
  <2>1. /\ pc[r] = "dirRead" /\ Goto(r, "dirFind")
        /\ count' = [count EXCEPT ![r] = used[lic[r]]]
        /\ limit' = [limit EXCEPT ![r] = total[lic[r]]]
        /\ UNCHANGED <<tables, locals, lic, todo, who, wrote>>
    BY <1>5 DEF DirRead
  <2>2. used[lic[r]] \in Nat /\ total[lic[r]] \in 0 .. MaxSeats
    BY <1>1, <1>4, <2>1, SeatsAssumption DEF TypeInv, TablesOK
  <2>3. LocalsOK'
    BY <1>1, <2>1, <2>2 DEF TypeInv, LocalsOK, locals
  <2> QED BY <1>1, <1>2, <1>3, <1>4, <2>1, <2>3, GotoTypes DEF tables, locals
<1>6. CASE DirFind(r)
  <2>1. CASE Rollback(r)
    BY <1>1, <2>1, RollbackTypes
  <2>2. CASE ~ Rollback(r)
    <3>1. /\ pc[r] = "dirFind" /\ Goto(r, "dirInsert")
          /\ UNCHANGED <<tables, locals, lic, todo, who, limit, count, wrote>>
      BY <1>6, <2>2 DEF DirFind
    <3>2. LocalsOK'
      BY <1>1, <3>1 DEF TypeInv, LocalsOK, locals
    <3> QED BY <1>1, <1>2, <1>3, <1>4, <3>1, <3>2, GotoTypes DEF tables, locals
  <2> QED BY <2>1, <2>2
<1>7. CASE DirInsert(r)
  <2>1. pc[r] = "dirInsert" /\ total' = total /\ staff' = staff
    BY <1>7 DEF DirInsert
  <2>2. User(r) \in Users /\ lic[r] \in Licenses
    BY <1>4, <2>1, ItsUser DEF OfDirectory
  <2> DEFINE writes == [Clean EXCEPT ![lic[r]] = used[lic[r]] + 1]
             row == [lic |-> lic[r], user |-> User(r), st |-> "open", by |-> NoRequest]
  <2>3. PICK i \in Fresh(1) : Publish(r, writes, [seat EXCEPT ![i] = row])
    BY <1>7 DEF DirInsert
  <2>4. i \in SeatIds /\ seat[i].st = "unused"
    BY DEF Fresh
  <2>5. writes \in [Licenses -> Nat \cup {NoCount}] /\ row \in Row
    BY <1>1, <2>2 DEF Clean, Row, TypeInv, TablesOK
  <2> HIDE DEF writes
  <2>6. seat \in [SeatIds -> Row] /\ [seat EXCEPT ![i] = row] \in [SeatIds -> Row]
    BY <1>1, <2>5 DEF TypeInv, TablesOK
  <2>7. PICK newSeat \in [SeatIds -> Row] : newSeat = [seat EXCEPT ![i] = row]
    BY <2>6
  <2>8. /\ Publish(r, writes, newSeat) /\ staff' \subseteq Users
        /\ \A j \in SeatIds : newSeat[j].st # "unused" => newSeat[j].lic \in Licenses
        /\ \A j \in SeatIds : seat[j].st # "unused" /\ seat[j].by = NoRequest =>
                newSeat[j].st # "unused" /\ newSeat[j].by = NoRequest
        /\ \A q \in Requests \ {r} : \A j \in ending[q] : newSeat[j].st \in {"open", "closed"}
    BY <1>1, <2>1, <2>2, <2>3, <2>4, <2>6, <2>7 DEF TypeInv, TablesOK, EndsOK, LocalsOK
  <2> QED BY <1>1, <2>1, <2>5, <2>8, CommitTypes
<1>8. CASE DirFindRows(r)
  <2>1. /\ pc[r] = "dirFindRows" /\ Goto(r, "dirNextRow")
        /\ targets' = [targets EXCEPT ![r] = RowsOfUser(r, User(r))]
        /\ UNCHANGED <<tables, op, ending, alone, lic, todo, who, limit, count, wrote>>
    BY <1>8 DEF DirFindRows
  <2>2. RowsOfUser(r, User(r)) \subseteq SeatIds
    BY DEF RowsOfUser, Rows
  <2>3. LocalsOK'
    BY <1>1, <2>1, <2>2 DEF TypeInv, LocalsOK
  <2>4. \A i \in RowsOfUser(r, User(r)) : seat[i].st # "unused" /\ seat[i].by = NoRequest
    BY <2>1, ItsUser DEF OfDirectory
  <2>5. EndsOK'
    BY <1>1, <2>1, <2>4 DEF TypeInv, EndsOK, LocalsOK, tables
  <2> QED BY <1>1, <1>2, <2>1, <2>3, <2>5, GotoTypes
<1>9. CASE DirNextRow(r)
  <2>1. /\ pc[r] = "dirNextRow"
        /\ UNCHANGED <<tables, op, alone, todo, who, limit, count, wrote>>
    BY <1>9 DEF DirNextRow
  <2>2. ASSUME NEW i \in targets[r], targets' = [targets EXCEPT ![r] = @ \ {i}],
               lic' = [lic EXCEPT ![r] = seat[i].lic], Goto(r, "dirReadUsed"), UNCHANGED ending
        PROVE  TypeInv'
    <3>1. seat[i].lic \in Licenses
      BY <1>1 DEF TypeInv, TablesOK, LocalsOK, EndsOK
    <3>2. LocalsOK'
      BY <1>1, <2>1, <2>2, <3>1 DEF TypeInv, LocalsOK
    <3>3. /\ lic'[r] \in Licenses
          /\ \A q \in Requests \ {r} : lic'[q] = lic[q]
      BY <1>1, <2>2, <3>1 DEF TypeInv, LocalsOK
    <3>4. EndsOK'
      BY <1>1, <2>1, <2>2 DEF TypeInv, EndsOK, LocalsOK, tables
    <3> QED BY <1>1, <1>2, <2>1, <2>2, <3>2, <3>3, <3>4, GotoTypes
  <2>3. ASSUME NotEnded(r, RowsToDelete(r)), ending' = [ending EXCEPT ![r] = RowsToDelete(r)],
               Goto(r, "dirDeleteUser"), UNCHANGED <<targets, lic>>
        PROVE  TypeInv'
    <3>1. /\ RowsToDelete(r) \subseteq SeatIds
          /\ \A i \in RowsToDelete(r) : seat[i].st \in {"open", "closed"} /\ seat[i].by = NoRequest
      BY <2>1, ItsUser DEF OfDirectory, RowsToDelete
    <3>2. LocalsOK'
      BY <1>1, <2>1, <2>3, <3>1 DEF TypeInv, LocalsOK
    <3>3. /\ ending'[r] = RowsToDelete(r) /\ pc'[r] = "dirDeleteUser"
          /\ pc' = [q \in Requests |-> pc'[q]]
          /\ \A q \in Requests \ {r} : ending'[q] = ending[q] /\ pc'[q] = pc[q]
      BY <1>1, <2>3 DEF TypeInv, LocalsOK, StepsOK, Goto
    <3>4. EndsOK'
      BY <1>1, <2>1, <2>3, <3>1, <3>3 DEF TypeInv, EndsOK, NotEnded, tables
    <3>5. StepsOK'
      BY <1>1, <2>1, <2>3, <3>3 DEF TypeInv, StepsOK
    <3> QED BY <1>2, <2>1, <3>2, <3>4, <3>5 DEF TypeInv
  <2> QED BY <1>9, <2>2, <2>3 DEF DirNextRow
<1>10. CASE DirReadUsed(r)
  <2> DEFINE n == IF wrote[r][lic[r]] = NoCount THEN used[lic[r]] ELSE wrote[r][lic[r]]
  <2>1. /\ pc[r] = "dirReadUsed" /\ count' = [count EXCEPT ![r] = n] /\ Goto(r, "dirWriteUsed")
        /\ UNCHANGED <<tables, locals, lic, todo, who, limit, wrote>>
    BY <1>10 DEF DirReadUsed
  <2>2. n \in Nat
    BY <1>1, <1>4, <2>1 DEF TypeInv, TablesOK, LocalsOK
  <2> HIDE DEF n
  <2>3. LocalsOK'
    BY <1>1, <2>1, <2>2 DEF TypeInv, LocalsOK, locals
  <2> QED BY <1>1, <1>2, <1>3, <1>4, <2>1, <2>3, GotoTypes DEF tables, locals
<1>11. CASE DirWriteUsed(r)
  <2>1. /\ pc[r] = "dirWriteUsed"
        /\ wrote' = [wrote EXCEPT ![r][lic[r]] = OneLess(count[r])]
        /\ UNCHANGED <<tables, locals, lic, todo, who, limit, count>>
    BY <1>11 DEF DirWriteUsed
  <2>2. PICK step \in {"dirNextRow", "dirDelete"} : Goto(r, step)
    BY <1>11 DEF DirWriteUsed
  <2>3. OneLess(count[r]) \in Nat
    BY <1>1 DEF TypeInv, LocalsOK, OneLess
  <2>4. LocalsOK'
    <3>1. PICK m \in Nat : m = OneLess(count[r])
      BY <2>3
    <3>2. [wrote[r] EXCEPT ![lic[r]] = m] \in [Licenses -> Nat \cup {NoCount}]
      BY <1>1 DEF TypeInv, LocalsOK
    <3>3. wrote' = [wrote EXCEPT ![r] = [wrote[r] EXCEPT ![lic[r]] = m]]
      BY <2>1, <3>1
    <3> QED BY <1>1, <2>1, <3>2, <3>3 DEF TypeInv, LocalsOK, locals
  <2> QED BY <1>1, <1>2, <1>3, <1>4, <2>1, <2>2, <2>4, GotoTypes DEF tables, locals
<1>12. CASE DirDelete(r)
  <2>1. CASE Rollback(r)
    BY <1>1, <2>1, RollbackTypes
  <2>2. CASE ~ Rollback(r)
    <3> DEFINE rows == [i \in SeatIds |-> IF i \in targets[r] THEN Deleted(i) ELSE seat[i]]
    <3>1. /\ NotEnded(r, targets[r]) /\ Publish(r, wrote[r], rows) /\ total' = total /\ staff' = staff
      BY <1>12, <2>2 DEF DirDelete
    <3>2. \A i \in SeatIds : /\ seat[i] \in Row /\ Deleted(i) \in Row /\ Deleted(i).st = "deleted"
                             /\ Deleted(i).by = seat[i].by /\ Deleted(i).lic = seat[i].lic
      BY <1>1 DEF TypeInv, TablesOK, Row, Deleted
    <3>3. PICK newSeat \in [SeatIds -> Row] : newSeat = rows
      BY <3>2
    <3>4. \A i \in targets[r] : i \in SeatIds /\ seat[i].lic \in Licenses
      BY <1>1 DEF TypeInv, TablesOK, LocalsOK, EndsOK
    <3>5. /\ Publish(r, wrote[r], newSeat) /\ staff' \subseteq Users
          /\ wrote[r] \in [Licenses -> Nat \cup {NoCount}]
      BY <1>1, <3>1, <3>3 DEF TypeInv, TablesOK, LocalsOK
    <3>6. \A j \in SeatIds : newSeat[j].st # "unused" => newSeat[j].lic \in Licenses
      BY <1>1, <3>2, <3>3, <3>4 DEF TypeInv, TablesOK
    <3>7. \A j \in SeatIds : seat[j].st # "unused" /\ seat[j].by = NoRequest =>
                newSeat[j].st # "unused" /\ newSeat[j].by = NoRequest
      BY <3>2, <3>3
    <3>8. \A q \in Requests \ {r} : \A j \in ending[q] : newSeat[j].st \in {"open", "closed"}
      BY <1>1, <3>1, <3>3 DEF TypeInv, LocalsOK, EndsOK, NotEnded
    <3> HIDE DEF rows
    <3> QED BY <1>1, <3>1, <3>5, <3>6, <3>7, <3>8, CommitTypes
  <2> QED BY <2>1, <2>2
<1>13. CASE DirDeleteUser(r)
  <2> DEFINE rows == [i \in SeatIds |->
                        IF i \in ending[r] THEN Deleted(i)
                        ELSE IF i \in RowsOfUser(r, User(r))
                             THEN [seat[i] EXCEPT !.user = NoUser] ELSE seat[i]]
  <2>1. Publish(r, wrote[r], rows) /\ total' = total /\ staff' = staff \ {User(r)}
    BY <1>13 DEF DirDeleteUser
  <2>2. \A i \in SeatIds : /\ seat[i] \in Row /\ Deleted(i) \in Row /\ Deleted(i).st = "deleted"
                           /\ Deleted(i).by = seat[i].by /\ Deleted(i).lic = seat[i].lic
    BY <1>1 DEF TypeInv, TablesOK, Row, Deleted
  <2>3. \A i \in SeatIds : LET row == [seat[i] EXCEPT !.user = NoUser]
                           IN  /\ row \in Row /\ row.st = seat[i].st
                               /\ row.by = seat[i].by /\ row.lic = seat[i].lic
    BY <1>1 DEF TypeInv, TablesOK, Row
  <2>4. PICK newSeat \in [SeatIds -> Row] : newSeat = rows
    BY <2>2, <2>3
  <2>5. \A i \in SeatIds : /\ newSeat[i].by = seat[i].by /\ newSeat[i].lic = seat[i].lic
                           /\ newSeat[i].st = IF i \in ending[r] THEN "deleted" ELSE seat[i].st
    BY <2>2, <2>3, <2>4
  <2>6. /\ Publish(r, wrote[r], newSeat) /\ staff' \subseteq Users
        /\ wrote[r] \in [Licenses -> Nat \cup {NoCount}]
    BY <1>1, <2>1, <2>4 DEF TypeInv, TablesOK, LocalsOK
  <2>7. \A j \in SeatIds : newSeat[j].st # "unused" => newSeat[j].lic \in Licenses
    BY <1>1, <2>5 DEF TypeInv, TablesOK, EndsOK
  <2>8. \A j \in SeatIds : seat[j].st # "unused" /\ seat[j].by = NoRequest =>
              newSeat[j].st # "unused" /\ newSeat[j].by = NoRequest
    BY <2>5
  <2>9. \A q \in Requests \ {r} : \A j \in ending[q] : newSeat[j].st \in {"open", "closed"}
    BY <1>1, <2>5 DEF TypeInv, LocalsOK, EndsOK
  <2> HIDE DEF rows
  <2> QED BY <1>1, <2>1, <2>6, <2>7, <2>8, <2>9, CommitTypes
<1> QED BY <1>5, <1>6, <1>7, <1>8, <1>9, <1>10, <1>11, <1>12, <1>13 DEF DirStatement

-----------------------------------------------------------------------------
(* What one request's step leaves alone.                                   *)

\* A request arrives; a request that runs takes a step.
Starts(r) == Arrive(r) \/ DirArrive(r)
Runs(r) == Statement(r) \/ Abort(r) \/ DirStatement(r)

OthersKept(r) ==
    \A q \in Requests \ {r} :
        pc'[q] = pc[q] /\ op'[q] = op[q] /\ who'[q] = who[q] /\ wrote'[q] = wrote[q]

Over(r) == OthersKept(r) /\ pc'[r] = "idle" /\ wrote'[r] = Clean /\ alone' = alone

\* The transaction is over.
LEMMA ResetIs ==
    ASSUME TypeInv, NEW r \in Requests, Reset(r)
    PROVE  Over(r)
<1>1. /\ pc' = [pc EXCEPT ![r] = "idle"] /\ op' = [op EXCEPT ![r] = "none"]
      /\ who' = [who EXCEPT ![r] = {}] /\ wrote' = [wrote EXCEPT ![r] = Clean] /\ alone' = alone
  BY DEF Reset
<1>2. /\ pc = [q \in Requests |-> pc[q]] /\ op = [q \in Requests |-> op[q]]
      /\ who \in [Requests -> SUBSET (Users \cup {NoUser})]
      /\ wrote \in [Requests -> [Licenses -> Nat \cup {NoCount}]]
  BY DEF TypeInv, StepsOK, LocalsOK
<1> QED BY <1>1, <1>2 DEF Over, OthersKept

\* A request arrives at an idle handler and takes nothing yet.
Entry == {"readLicense", "next", "endSeat", "writeTotal", "dirRead", "dirReadUsed", "dirFindRows"}

Begun(r) ==
    /\ OthersKept(r)
    /\ pc[r] = "idle" /\ pc'[r] \in Entry
    /\ alone' = [q \in Requests |-> q = r /\ \A p \in Requests \ {r} : pc[p] = "idle"]
    /\ UNCHANGED <<tables, ending, wrote>>
    /\ pc'[r] \in OfDirectory => \E u \in Users : who'[r] = {u}
    /\ \A i \in targets'[r] : pc'[r] \in {"endSeat", "dirReadUsed"} => seat[i].lic = lic'[r]
    /\ pc'[r] = "dirReadUsed" => op'[r] = "dirUnassign" /\ \E i \in SeatIds : targets'[r] = {i}
    /\ pc'[r] = "dirFindRows" => op'[r] = "dirRemove"

\* A request that arrives begins its transaction with nothing written.
LEMMA StartsAre ==
    ASSUME TypeInv, NEW r \in Requests, Starts(r)
    PROVE  Begun(r)
<1>1. ASSUME NEW kind, NEW step \in Entry, Begin(r, kind, step),
             who' = who \/ \E U : who' = [who EXCEPT ![r] = U]
      PROVE  /\ OthersKept(r) /\ pc[r] = "idle" /\ pc'[r] = step /\ op'[r] = kind
             /\ alone' = [q \in Requests |-> q = r /\ \A p \in Requests \ {r} : pc[p] = "idle"]
             /\ UNCHANGED <<tables, ending, wrote>>
  <2>1. /\ pc[r] = "idle" /\ pc' = [pc EXCEPT ![r] = step] /\ op' = [op EXCEPT ![r] = kind]
        /\ UNCHANGED <<tables, ending, wrote>>
        /\ alone' = [q \in Requests |-> q = r /\ \A p \in Requests \ {r} : pc[p] = "idle"]
    BY <1>1 DEF Begin, Goto
  <2>2. \A q \in Requests \ {r} : who'[q] = who[q]
    BY <1>1 DEF TypeInv, LocalsOK
  <2> QED BY <2>1, <2>2 DEF OthersKept, TypeInv, StepsOK
<1>2. staff \subseteq Users
  BY DEF TypeInv, TablesOK
<1>3. \A x : [who EXCEPT ![r] = x][r] = x /\ [lic EXCEPT ![r] = x][r] = x /\ [targets EXCEPT ![r] = x][r] = x
  BY DEF TypeInv, LocalsOK
<1> USE DEF Entry, OfDirectory
<1>4. ASSUME NEW l \in Licenses, NEW u \in staff \cup {NoUser}, StartAssign(r, l, u) PROVE Begun(r)
  BY <1>1, <1>4 DEF StartAssign, Begun
<1>5. ASSUME NEW l \in Licenses, NEW U \in (SUBSET Users) \ {{}}, StartBatch(r, l, U) PROVE Begun(r)
  BY <1>1, <1>5 DEF StartBatch, Begun
<1>6. ASSUME NEW l \in Licenses, StartUpdate(r, l) PROVE Begun(r)
  BY <1>1, <1>6 DEF StartUpdate, Begun
<1>7. ASSUME NEW u \in staff, NEW L \in (SUBSET Licenses) \ {{}}, StartBundle(r, u, L) PROVE Begun(r)
  BY <1>1, <1>7 DEF StartBundle, Begun
<1>8. ASSUME NEW i \in SeatIds, StartRevoke(r, i) PROVE Begun(r)
  <2>1. /\ Begin(r, "revoke", "endSeat") /\ who' = who
        /\ lic' = [lic EXCEPT ![r] = seat[i].lic] /\ targets' = [targets EXCEPT ![r] = {i}]
    BY <1>8 DEF StartRevoke
  <2>2. lic'[r] = seat[i].lic /\ targets'[r] = {i}
    BY <1>3, <2>1
  <2> QED BY <1>1, <2>1, <2>2 DEF Begun
<1>9. ASSUME NEW u \in staff, NEW l \in Licenses, StartDirAssign(r, l, u) PROVE Begun(r)
  <2>1. /\ Begin(r, "dirAssign", "dirRead") /\ who' = [who EXCEPT ![r] = {u}] /\ who'[r] = {u}
    BY <1>3, <1>9 DEF StartDirAssign
  <2> QED BY <1>1, <1>2, <2>1 DEF Begun
<1>10. ASSUME NEW u \in staff, StartDirRemove(r, u) PROVE Begun(r)
  <2>1. /\ Begin(r, "dirRemove", "dirFindRows") /\ who' = [who EXCEPT ![r] = {u}] /\ who'[r] = {u}
    BY <1>3, <1>10 DEF StartDirRemove
  <2> QED BY <1>1, <1>2, <2>1 DEF Begun
<1>11. ASSUME NEW i \in SeatIds, StartDirUnassign(r, i) PROVE Begun(r)
  <2>1. /\ Begin(r, "dirUnassign", "dirReadUsed") /\ who' = [who EXCEPT ![r] = {seat[i].user}]
        /\ lic' = [lic EXCEPT ![r] = seat[i].lic] /\ targets' = [targets EXCEPT ![r] = {i}]
        /\ seat[i].user \in Users
    BY <1>2, <1>11 DEF StartDirUnassign
  <2>2. lic'[r] = seat[i].lic /\ targets'[r] = {i} /\ who'[r] = {seat[i].user}
    BY <1>3, <2>1
  <2> QED BY <1>1, <2>1, <2>2 DEF Begun
<1> QED BY <1>4, <1>5, <1>6, <1>7, <1>8, <1>9, <1>10, <1>11 DEF Starts, Arrive, DirArrive

\* A step of a request that runs.
LEMMA RunsAre ==
    ASSUME TypeInv, NEW r \in Requests, Runs(r)
    PROVE  pc[r] # "idle" /\ alone' = alone /\ OthersKept(r)
<1>1. /\ pc = [q \in Requests |-> pc[q]] /\ op = [q \in Requests |-> op[q]]
      /\ who \in [Requests -> SUBSET (Users \cup {NoUser})]
      /\ wrote \in [Requests -> [Licenses -> Nat \cup {NoCount}]]
  BY DEF TypeInv, StepsOK, LocalsOK
<1>2. ASSUME Reset(r) PROVE alone' = alone /\ OthersKept(r)
  BY <1>2, ResetIs DEF Over
<1>3. ASSUME Rollback(r) PROVE alone' = alone /\ OthersKept(r)
  BY <1>2, <1>3 DEF Rollback
<1>4. ASSUME NEW writes, NEW rows, Publish(r, writes, rows) PROVE alone' = alone /\ OthersKept(r)
  BY <1>2, <1>4 DEF Publish
<1>5. ASSUME NEW step, Goto(r, step), UNCHANGED <<op, wrote, alone>>,
             who' = who \/ \E U : who' = [who EXCEPT ![r] = U]
      PROVE  alone' = alone /\ OthersKept(r)
  BY <1>1, <1>5 DEF Goto, OthersKept
<1>6. ASSUME Skip(r) PROVE alone' = alone /\ OthersKept(r)
  BY <1>3, <1>5, <1>6 DEF Skip, locals
<1>7. ASSUME NEW step, NEW w, Goto(r, step), wrote' = [wrote EXCEPT ![r] = w],
             UNCHANGED <<op, who, alone>>
      PROVE  alone' = alone /\ OthersKept(r)
  BY <1>1, <1>7 DEF Goto, OthersKept
<1>8. CASE NextLicense(r)
  BY <1>4, <1>5, <1>8 DEF NextLicense, locals
<1>9. CASE FindSeat(r)
  BY <1>5, <1>6, <1>9 DEF FindSeat, locals
<1>10. CASE CountSeats(r)
  BY <1>5, <1>6, <1>10 DEF CountSeats, locals
<1>11. CASE EndSeat(r)
  BY <1>3, <1>5, <1>11 DEF EndSeat
<1>12. CASE WriteUsed(r)
  BY <1>4, <1>7, <1>12 DEF WriteUsed, locals
<1>13. CASE ReadLicense(r) \/ Recount(r)
  BY <1>5, <1>13 DEF ReadLicense, Recount, locals
<1>14. CASE WriteTotal(r) \/ Abort(r)
  BY <1>2, <1>3, <1>14 DEF WriteTotal, Abort
<1>15. CASE DirRead(r) \/ DirReadUsed(r)
  BY <1>5, <1>15 DEF DirRead, DirReadUsed, locals
<1>16. CASE DirFind(r)
  BY <1>3, <1>5, <1>16 DEF DirFind, locals
<1>17. CASE DirInsert(r)
  BY <1>4, <1>17 DEF DirInsert
<1>18. CASE DirFindRows(r) \/ DirNextRow(r)
  BY <1>5, <1>18 DEF DirFindRows, DirNextRow
<1>19. CASE DirWriteUsed(r)
  <2>1. wrote' = [wrote EXCEPT ![r] = [wrote[r] EXCEPT ![lic[r]] = OneLess(count[r])]]
    BY <1>19 DEF DirWriteUsed
  <2> QED BY <1>7, <1>19, <2>1 DEF DirWriteUsed, locals
<1>20. CASE DirDelete(r)
  BY <1>3, <1>4, <1>20 DEF DirDelete
<1>21. CASE DirDeleteUser(r)
  BY <1>4, <1>21 DEF DirDeleteUser
<1> QED BY <1>8, <1>9, <1>10, <1>11, <1>12, <1>13, <1>14, <1>15, <1>16, <1>17, <1>18, <1>19,
           <1>20, <1>21
        DEF Runs, Statement, DirStatement, NextLicense, FindSeat, CountSeats, EndSeat, WriteUsed,
            ReadLicense, Recount, WriteTotal, Abort, DirRead, DirReadUsed, DirFind, DirInsert,
            DirFindRows, DirNextRow, DirWriteUsed, DirDelete, DirDeleteUser

-----------------------------------------------------------------------------
(* Owners and users are kept.                                              *)

\* Rows keep their owner, or lose it, and the request's own go with it.
OwnersKept(r) ==
    /\ \A i \in SeatIds : \A q \in Requests :
          seat'[i].by = q => seat[i].by = q /\ seat'[i].st = "open"
    /\ \/ pc'[r] \in Inserting
       \/ \A i \in SeatIds : seat'[i].by # r

\* A step that leaves every uncommitted row to a request about to insert or to count keeps
\* the rows owned.
LEMMA KeptOwners ==
    ASSUME SharedOK, NEW r \in Requests, OthersKept(r), OwnersKept(r)
    PROVE  OwnersOK'
<1> SUFFICES ASSUME NEW i \in SeatIds, NEW q \in Requests, seat'[i].by = q
             PROVE  seat'[i].st = "open" /\ pc'[q] \in Inserting
  BY DEF OwnersOK
<1>1. seat[i].by = q /\ seat'[i].st = "open"
  BY DEF OwnersKept
<1>2. pc[q] \in Inserting
  BY <1>1 DEF SharedOK, OwnersOK
<1> QED BY <1>1, <1>2 DEF OwnersKept, OthersKept

\* The transaction is over and none of its rows is left without a commit.
LEMMA RollbackRows ==
    ASSUME SharedOK, NEW r \in Requests, Rollback(r)
    PROVE  /\ OwnersKept(r) /\ pc'[r] = "idle"
           /\ \A i \in SeatIds : seat'[i] = seat[i] \/ seat'[i] = Unused
<1>1. /\ seat' = [i \in SeatIds |-> IF seat[i].by = r THEN Unused ELSE seat[i]]
      /\ Over(r)
  BY ResetIs DEF Rollback, SharedOK
<1>2. /\ Unused.by = NoRequest /\ NoRequest \notin Requests
      /\ \A i \in SeatIds : \A q \in Requests : seat[i].by = q => seat[i].st = "open"
  BY SeatsAssumption DEF Unused, SharedOK, OwnersOK
<1> QED BY <1>1, <1>2 DEF OwnersKept, Over

\* After a commit the request owns no row.
LEMMA RevealedRows ==
    ASSUME SharedOK, NEW r \in Requests, NEW writes, Publish(r, writes, Revealed(r))
    PROVE  OwnersKept(r) /\ Over(r)
<1>1. seat' = Revealed(r) /\ Over(r)
  BY ResetIs DEF Publish, SharedOK
<1>2. /\ NoRequest \notin Requests
      /\ \A i \in SeatIds : \A q \in Requests : seat[i].by = q => seat[i].st = "open"
      /\ \A i \in ending[r] : seat[i].by = NoRequest
      /\ \A i \in SeatIds : seat[i] \in Row
  BY SeatsAssumption DEF SharedOK, OwnersOK, TypeInv, EndsOK, TablesOK
<1>3. \A i \in SeatIds : /\ i \in ending[r] => seat'[i].by = seat[i].by
                         /\ i \notin ending[r] /\ seat[i].by = r => seat'[i].by = NoRequest
                         /\ i \notin ending[r] /\ seat[i].by # r => seat'[i] = seat[i]
  BY <1>1, <1>2 DEF Revealed, Row
<1>4. \A i \in SeatIds : \A q \in Requests :
          seat'[i].by = q => seat[i].by = q /\ seat'[i].st = "open" /\ q # r
  BY <1>2, <1>3
<1> QED BY <1>1, <1>4 DEF OwnersKept

\* Steps of a transaction that write no row.
LEMMA SameRows ==
    ASSUME SharedOK, NEW r \in Requests, OthersKept(r), UNCHANGED seat,
           \/ pc'[r] \in Inserting
           \/ pc[r] \notin Inserting
    PROVE  OwnersOK'
<1>1. \A i \in SeatIds : \A q \in Requests :
          seat[i].by = q => seat[i].st = "open" /\ pc[q] \in Inserting
  BY DEF SharedOK, OwnersOK
<1>2. OwnersKept(r)
  BY <1>1 DEF OwnersKept
<1> QED BY <1>2, KeptOwners

\* The commits of the directory touch no row of a running insert.
LEMMA DirRows ==
    ASSUME SharedOK, NEW r \in Requests, pc[r] \in OfDirectory, OthersKept(r),
           \A i \in SeatIds : seat'[i].by = seat[i].by \/ seat'[i].by = NoRequest,
           \A i \in SeatIds : seat[i].by \in Requests => seat'[i].st = seat[i].st
    PROVE  OwnersOK'
<1>1. /\ NoRequest \notin Requests /\ pc[r] \notin Inserting
      /\ \A i \in SeatIds : \A q \in Requests :
            seat[i].by = q => seat[i].st = "open" /\ pc[q] \in Inserting
  BY SeatsAssumption DEF SharedOK, OwnersOK, OfDirectory, Inserting
<1>2. OwnersKept(r)
  BY <1>1 DEF OwnersKept
<1> QED BY <1>2, KeptOwners

\* Uncommitted rows belong to transactions under way, and they are open.
LEMMA OwnersStep ==
    ASSUME SharedOK, NEW r \in Requests, Starts(r) \/ Runs(r)
    PROVE  OwnersOK'
<1> USE DEF Inserting
<1>1. TypeInv /\ OthersKept(r)
  BY StartsAre, RunsAre DEF SharedOK, Begun
<1>2. ASSUME Rollback(r) PROVE OwnersOK'
  BY <1>1, <1>2, RollbackRows, KeptOwners
<1>3. ASSUME NEW writes, Publish(r, writes, Revealed(r)) PROVE OwnersOK'
  BY <1>1, <1>3, RevealedRows, KeptOwners
<1>4. ASSUME NEW step, Goto(r, step) PROVE pc'[r] = step
  BY <1>1, <1>4 DEF Goto, TypeInv, StepsOK
<1>5. ASSUME NEW step \in Inserting, Goto(r, step), UNCHANGED seat PROVE OwnersOK'
  <2>1. pc'[r] \in Inserting
    BY <1>4, <1>5
  <2> QED BY <1>1, <1>5, <2>1, SameRows
<1>6. ASSUME pc[r] \notin Inserting, UNCHANGED seat PROVE OwnersOK'
  BY <1>1, <1>6, SameRows
<1>7. ASSUME Skip(r) PROVE OwnersOK'
  BY <1>2, <1>5, <1>7 DEF Skip, tables, locals
<1>8. CASE Starts(r)
  BY <1>1, <1>6, <1>8, StartsAre DEF Begun, tables
<1>9. CASE NextLicense(r)
  BY <1>3, <1>5, <1>9 DEF NextLicense, tables, locals
<1>10. CASE ReadLicense(r) \/ Recount(r)
  BY <1>5, <1>10 DEF ReadLicense, Recount, tables, locals
<1>11. CASE FindSeat(r)
  BY <1>5, <1>7, <1>11 DEF FindSeat, tables, locals
<1>12. CASE CountSeats(r)
  <2>1. CASE Skip(r)
    BY <1>7, <2>1
  <2>2. CASE ~ Skip(r)
    <3>1. /\ lic[r] \in Licenses /\ ending[r] = {} /\ pc[r] = "countSeats" /\ op' = op
          /\ \E U \in SUBSET who[r] : Insert(r, U)
          /\ \E step \in {"writeUsed", "recount"} : Goto(r, step)
      BY <1>1, <1>12, <2>2, CountInserts DEF kSubset, locals
    <3>3. PICK New \in SUBSET SeatIds :
             /\ \A i \in New : seat'[i].st = "open" /\ seat'[i].by = r
             /\ \A i \in SeatIds \ New : seat'[i] = seat[i]
      BY <1>1, <3>1, InsertIs
    <3>4. pc'[r] \in Inserting
      BY <1>4, <3>1
    <3> SUFFICES ASSUME NEW i \in SeatIds, NEW q \in Requests, seat'[i].by = q
                 PROVE  seat'[i].st = "open" /\ pc'[q] \in Inserting
      BY DEF OwnersOK
    <3>5. CASE i \in New
      BY <3>1, <3>3, <3>4, <3>5
    <3>6. CASE i \notin New
      <4>1. seat[i].by = q /\ seat'[i] = seat[i]
        BY <3>3, <3>6
      <4>2. seat[i].st = "open" /\ pc[q] \in Inserting
        BY <4>1 DEF SharedOK, OwnersOK
      <4> QED BY <1>1, <3>1, <3>4, <4>1, <4>2 DEF OthersKept
    <3> QED BY <3>5, <3>6
  <2> QED BY <2>1, <2>2
<1>13. CASE EndSeat(r)
  BY <1>2, <1>6, <1>13 DEF EndSeat, tables
<1>14. CASE WriteUsed(r)
  BY <1>3, <1>5, <1>14 DEF WriteUsed, tables, locals
<1>15. CASE WriteTotal(r)
  BY <1>6, <1>15 DEF WriteTotal
<1>16. CASE Abort(r)
  BY <1>2, <1>16 DEF Abort
<1>17. CASE DirRead(r) \/ DirFindRows(r) \/ DirNextRow(r) \/ DirReadUsed(r) \/ DirWriteUsed(r)
  BY <1>6, <1>17 DEF DirRead, DirFindRows, DirNextRow, DirReadUsed, DirWriteUsed, tables
<1>18. CASE DirFind(r)
  BY <1>2, <1>6, <1>18 DEF DirFind, tables
<1>19. CASE DirInsert(r)
  <2>1. PICK i \in Fresh(1) :
           seat' = [seat EXCEPT ![i] = [lic |-> lic[r], user |-> User(r),
                                        st |-> "open", by |-> NoRequest]]
    BY <1>19 DEF DirInsert, Publish
  <2>2. \A j \in SeatIds : IF j = i THEN seat'[j].by = NoRequest /\ seat'[j].st = "open"
                           ELSE seat'[j] = seat[j]
    BY <1>1, <2>1 DEF TypeInv, TablesOK
  <2>3. \A j \in SeatIds : seat[j].by \in Requests => seat[j].st = "open"
    BY DEF SharedOK, OwnersOK
  <2>4. pc[r] \in OfDirectory
    BY <1>19 DEF DirInsert, OfDirectory
  <2> QED BY <1>1, <2>2, <2>3, <2>4, DirRows
<1>20. CASE DirDelete(r)
  <2>1. CASE Rollback(r)
    BY <1>2, <2>1
  <2>2. CASE ~ Rollback(r)
    <3>1. /\ seat' = [i \in SeatIds |-> IF i \in targets[r] THEN Deleted(i) ELSE seat[i]]
          /\ pc[r] \in OfDirectory
      BY <1>20, <2>2 DEF DirDelete, Publish, OfDirectory
    <3>2. \A i \in targets[r] : seat[i].by = NoRequest /\ NoRequest \notin Requests
      BY <1>1, SeatsAssumption DEF TypeInv, EndsOK
    <3>3. \A i \in SeatIds : Deleted(i).by = seat[i].by
      BY <1>1 DEF Deleted, TypeInv, TablesOK, Row
    <3> QED BY <1>1, <3>1, <3>2, <3>3, DirRows
  <2> QED BY <2>1, <2>2
<1>21. CASE DirDeleteUser(r)
  <2>1. /\ seat' = [i \in SeatIds |->
                      IF i \in ending[r] THEN Deleted(i)
                      ELSE IF i \in RowsOfUser(r, User(r))
                           THEN [seat[i] EXCEPT !.user = NoUser] ELSE seat[i]]
        /\ pc[r] \in OfDirectory
    BY <1>21 DEF DirDeleteUser, Publish, OfDirectory
  <2>2. \A i \in ending[r] : seat[i].by = NoRequest /\ NoRequest \notin Requests
    BY <1>1, SeatsAssumption DEF TypeInv, EndsOK
  <2>3. \A i \in SeatIds : /\ Deleted(i).by = seat[i].by
                           /\ [seat[i] EXCEPT !.user = NoUser].by = seat[i].by
                           /\ [seat[i] EXCEPT !.user = NoUser].st = seat[i].st
    BY <1>1 DEF Deleted, TypeInv, TablesOK, Row
  <2> QED BY <1>1, <2>1, <2>2, <2>3, DirRows
<1> QED BY <1>8, <1>9, <1>10, <1>11, <1>12, <1>13, <1>14, <1>15, <1>16, <1>17, <1>18, <1>19,
           <1>20, <1>21 DEF Runs, Statement, DirStatement

\* Every directory statement but the last keeps the user.
LEMMA WhoStep ==
    ASSUME SharedOK, NEW r \in Requests, Starts(r) \/ Runs(r)
    PROVE  WhoOK'
<1>1. TypeInv /\ OthersKept(r)
  BY StartsAre, RunsAre DEF SharedOK, Begun
<1>2. pc'[r] \in OfDirectory => \E u \in Users : who'[r] = {u}
  <2> SUFFICES ASSUME pc'[r] \in OfDirectory PROVE \E u \in Users : who'[r] = {u}
    OBVIOUS
  <2> USE DEF OfDirectory
  <2>1. CASE Starts(r)
    BY <1>1, <2>1, StartsAre DEF Begun
  <2>2. ASSUME pc[r] \in OfDirectory, who' = who PROVE \E u \in Users : who'[r] = {u}
    BY <2>2 DEF SharedOK, WhoOK
  <2>3. ASSUME Reset(r) PROVE FALSE
    BY <1>1, <2>3, ResetIs DEF Over
  <2>4. ASSUME Rollback(r) \/ \E writes, rows : Publish(r, writes, rows) PROVE FALSE
    BY <2>3, <2>4 DEF Rollback, Publish
  <2>5. ASSUME NEW step, Goto(r, step), step \notin OfDirectory PROVE FALSE
    BY <1>1, <2>5 DEF Goto, TypeInv, StepsOK
  <2>6. ASSUME Statement(r) \/ Abort(r) PROVE FALSE
    <3>1. ASSUME Skip(r) PROVE FALSE
      BY <2>4, <2>5, <3>1 DEF Skip
    <3>2. ~ NextLicense(r) /\ ~ WriteUsed(r)
      BY <2>4, <2>5 DEF NextLicense, WriteUsed
    <3>3. ~ FindSeat(r) /\ ~ CountSeats(r)
      BY <2>5, <3>1 DEF FindSeat, CountSeats
    <3>4. ~ EndSeat(r) /\ ~ WriteTotal(r) /\ ~ Abort(r)
      BY <2>3, <2>4, <2>5 DEF EndSeat, WriteTotal, Abort
    <3>5. ~ ReadLicense(r) /\ ~ Recount(r)
      BY <2>5 DEF ReadLicense, Recount
    <3> QED BY <2>6, <3>2, <3>3, <3>4, <3>5 DEF Statement
  <2>7. CASE DirStatement(r)
    BY <2>2, <2>4, <2>7
       DEF DirStatement, DirRead, DirFind, DirInsert, DirFindRows, DirNextRow, DirReadUsed,
           DirWriteUsed, DirDelete, DirDeleteUser
  <2> QED BY <2>1, <2>6, <2>7 DEF Runs
<1> QED BY <1>1, <1>2 DEF WhoOK, SharedOK, OthersKept

\* What both writers share, whoever moves.
LEMMA SharedAlways == DirSpec => []SharedOK
<1>1. Init => SharedOK
  <2> SUFFICES ASSUME Init PROVE SharedOK
    OBVIOUS
  <2>1. Unused \in Row /\ Unused.st = "unused" /\ Clean \in [Licenses -> Nat \cup {NoCount}]
    BY DEF Unused, Row, Clean
  <2>2. TablesOK
    BY <2>1 DEF Init, TablesOK
  <2>3. LocalsOK
    BY <2>1, SeatsAssumption DEF Init, LocalsOK
  <2>4. StepsOK /\ EndsOK
    BY DEF Init, StepsOK, EndsOK, About
  <2>5. WhoOK
    BY DEF Init, WhoOK, OfDirectory
  <2>6. OwnersOK
    BY SeatsAssumption DEF Init, OwnersOK, Unused
  <2> QED BY <2>2, <2>3, <2>4, <2>5, <2>6 DEF TypeInv, SharedOK
<1>2. SharedOK /\ [DirNext]_vars => SharedOK'
  <2> SUFFICES ASSUME SharedOK, [DirNext]_vars PROVE SharedOK'
    OBVIOUS
  <2>1. CASE UNCHANGED vars
    <3>1. TypeInv'
      BY <2>1 DEF vars, SharedOK, TypeInv, TablesOK, LocalsOK, StepsOK, EndsOK
    <3>2. WhoOK' /\ OwnersOK'
      BY <2>1 DEF vars, SharedOK, WhoOK, OwnersOK
    <3> QED BY <3>1, <3>2 DEF SharedOK
  <2>2. CASE DirNext
    <3>1. PICK r \in Requests : Starts(r) \/ Runs(r)
      BY <2>2 DEF DirNext, Next, Starts, Runs
    <3>2. TypeInv'
      BY <3>1, ArriveTypes, StatementTypes, DirArriveTypes, DirStatementTypes
         DEF SharedOK, Starts, Runs
    <3> QED BY <3>1, <3>2, WhoStep, OwnersStep DEF SharedOK
  <2> QED BY <2>1, <2>2
<1> QED BY <1>1, <1>2, PTL DEF DirSpec

\* The types of the tables and of what a request keeps, with both services writing.
THEOREM BothTypeCorrect == DirSpec => []TypeOK
<1>1. SharedOK => TypeOK
  BY DEF SharedOK, TypeInv, TablesOK, LocalsOK, TypeOK
<1> QED BY <1>1, SharedAlways, PTL

-----------------------------------------------------------------------------
(* A request that no other overlaps.                                       *)

Lone(r) == \A q \in Requests \ {r} : pc[q] = "idle"

\* It sees every row there is.
LEMMA LoneRows ==
    ASSUME SharedOK, NEW r \in Requests, Lone(r)
    PROVE  /\ \A i \in SeatIds : seat[i].by \in {r, NoRequest}
           /\ pc[r] \notin Inserting => \A i \in SeatIds : seat[i].by = NoRequest
           /\ pc[r] \notin Inserting => \A l \in Licenses : Own(r, l) = {}
<1>1. \A i \in SeatIds : seat[i].by \in Requests \cup {NoRequest}
  BY DEF SharedOK, TypeInv, TablesOK, Row
<1>2. \A i \in SeatIds : \A q \in Requests : seat[i].by = q => pc[q] \in Inserting
  BY DEF SharedOK, OwnersOK
<1>3. "idle" \notin Inserting
  BY DEF Inserting
<1>4. \A i \in SeatIds : seat[i].by \in {r, NoRequest}
  BY <1>1, <1>2, <1>3 DEF Lone
<1> QED BY <1>2, <1>4, SeatsAssumption DEF Own, Held

\* Whose rows are gone when the transaction is.
LEMMA OverOwnsNone ==
    OwnersOK => \A r \in Requests, l \in Licenses : pc[r] \notin Inserting => Own(r, l) = {}
  BY DEF OwnersOK, Own, Held

\* What it commits is what it saw.
LEMMA WhatCommits ==
    ASSUME SharedOK, NEW r \in Requests, Lone(r), seat' = Revealed(r), NEW l \in Licenses
    PROVE  Active(l)' = OpenSeats(r, l)
<1>1. \A i \in SeatIds : seat[i].by \in {r, NoRequest} /\ seat[i] \in Row
  BY LoneRows DEF SharedOK, TypeInv, TablesOK
<1>2. \A i \in SeatIds : /\ seat'[i].lic = seat[i].lic /\ seat'[i].by = NoRequest
                         /\ i \in ending[r] => seat'[i].st = "closed"
                         /\ i \notin ending[r] => seat'[i].st = seat[i].st
  <2>1. \A i \in ending[r] : seat[i].by = NoRequest
    BY DEF SharedOK, TypeInv, EndsOK
  <2> QED BY <1>1, <2>1 DEF Revealed, Row
<1> QED BY <1>1, <1>2 DEF Active, OpenSeats, Rows

\* The tables are as they were, and of the rows it sees none is new.
LEMMA AloneGoesOn ==
    ASSUME SharedOK, NEW r \in Requests, AloneAt(r), OthersKept(r), UNCHANGED <<total, seat>>,
           ending' = ending \/ pc[r] \notin Inserting,
           pc'[r] \in {"findSeat", "countSeats"} => limit'[r] = total[lic'[r]],
           pc'[r] = "writeUsed" /\ op'[r] # "bundle" =>
                count'[r] = Cardinality(OpenSeats(r, lic'[r])) /\ ending' = ending
    PROVE  AloneAt(r)'
<1>1. \A l \in Licenses : Own(r, l)' = Own(r, l)
  BY DEF Own, Held
<1>2. ASSUME ending' = ending PROVE \A l : OpenSeats(r, l)' = OpenSeats(r, l)
  BY <1>2 DEF OpenSeats, Rows
<1>3. \A l \in Licenses \ Unlimited : Own(r, l)' # {} => Cardinality(OpenSeats(r, l)') <= total'[l]
  <2>1. CASE ending' = ending
    BY <1>1, <1>2, <2>1 DEF AloneAt
  <2>2. CASE pc[r] \notin Inserting
    BY <1>1, <2>2, OverOwnsNone DEF SharedOK
  <2> QED BY <2>1, <2>2
<1>4. OpenSeats(r, lic[r])' = IF ending' = ending THEN OpenSeats(r, lic'[r]) ELSE OpenSeats(r, lic[r])'
  BY DEF OpenSeats, Rows
<1> QED BY <1>3, <1>4 DEF AloneAt, OthersKept

\* What a request knows while no other runs stays true of the tables as it writes.
LEMMA AloneStep ==
    ASSUME SharedOK, SharedOK', AloneOK, NEW r \in Requests, Starts(r) \/ Runs(r)
    PROVE  AloneOK'
<1>1. TypeInv /\ OthersKept(r) /\ OwnersOK'
  BY StartsAre, RunsAre DEF SharedOK, Begun
<1>2. ASSUME \A q \in Requests \ {r} : pc[q] = "idle", pc'[r] \notin Inserting
      PROVE  AloneAt(r)'
  <2>1. \A l \in Licenses : Own(r, l)' = {}
    BY <1>1, <1>2 DEF OwnersOK, Own, Held
  <2> QED BY <1>1, <1>2, <2>1 DEF AloneAt, OthersKept, Inserting
<1>3. CASE Starts(r)
  <2>1. Begun(r)
    BY <1>1, <1>3, StartsAre
  <2> SUFFICES ASSUME NEW q \in Requests, alone'[q] PROVE AloneAt(q)'
    BY DEF AloneOK
  <2>2. /\ q = r
        /\ \A p \in Requests \ {r} : pc[p] = "idle"
    BY <2>1 DEF Begun
  <2>3. ending' = ending /\ UNCHANGED <<total, seat>> /\ pc[r] \notin Inserting
    BY <2>1 DEF Begun, tables, Inserting
  <2>4. \A l \in Licenses : Own(r, l)' = {}
    BY <2>3, OverOwnsNone DEF SharedOK, Own, Held
  <2>5. pc'[r] \notin {"findSeat", "countSeats", "writeUsed"}
    BY <2>1 DEF Begun, Entry
  <2> QED BY <1>1, <2>2, <2>4, <2>5 DEF AloneAt, OthersKept
<1>4. CASE Runs(r)
  <2>1. pc[r] # "idle" /\ alone' = alone
    BY <1>1, <1>4, RunsAre
  <2> SUFFICES ASSUME NEW q \in Requests, alone[q] PROVE AloneAt(q)'
    BY <2>1 DEF AloneOK
  <2>2. AloneAt(q) /\ q = r
    BY <2>1 DEF AloneOK, AloneAt
  <2> SUFFICES AloneAt(r)'
    BY <2>2
  <2>3. AloneAt(r) /\ \A p \in Requests \ {r} : pc[p] = "idle"
    BY <2>2 DEF AloneAt
  <2>4. ASSUME Reset(r) PROVE AloneAt(r)'
    BY <1>1, <1>2, <2>3, <2>4, ResetIs DEF Over, Inserting
  <2>5. ASSUME Rollback(r) \/ \E writes, rows : Publish(r, writes, rows) PROVE AloneAt(r)'
    BY <2>4, <2>5 DEF Rollback, Publish
  <2>6. ASSUME NEW step, Goto(r, step) PROVE pc'[r] = step
    BY <1>1, <2>6 DEF Goto, TypeInv, StepsOK
  <2>7. ASSUME NEW step, Goto(r, step), step \notin {"findSeat", "countSeats", "writeUsed"},
               UNCHANGED <<total, seat>>, ending' = ending \/ pc[r] \notin Inserting
        PROVE  AloneAt(r)'
    BY <1>1, <2>3, <2>6, <2>7, AloneGoesOn
  <2>8. ASSUME Skip(r) PROVE AloneAt(r)'
    BY <2>5, <2>7, <2>8 DEF Skip, tables, locals
  <2>9. CASE NextLicense(r)
    <3>1. CASE Goto(r, "readLicense") /\ UNCHANGED <<total, seat, ending>>
      BY <2>7, <3>1
    <3> QED BY <2>5, <2>9, <3>1 DEF NextLicense, tables, locals
  <2>10. CASE ReadLicense(r)
    <3>1. /\ Goto(r, "findSeat") /\ limit' = [limit EXCEPT ![r] = total[lic[r]]]
          /\ UNCHANGED <<total, seat, ending, lic>>
      BY <2>10 DEF ReadLicense, tables, locals
    <3>2. limit'[r] = total[lic'[r]] /\ pc'[r] = "findSeat"
      BY <1>1, <2>6, <3>1 DEF TypeInv, LocalsOK
    <3> QED BY <1>1, <2>3, <3>1, <3>2, AloneGoesOn
  <2>11. CASE FindSeat(r)
    <3>1. CASE Skip(r)
      BY <2>8, <3>1
    <3>2. CASE ~ Skip(r)
      <4>1. /\ Goto(r, "countSeats") /\ pc[r] = "findSeat"
            /\ UNCHANGED <<total, seat, ending, lic, limit>>
        BY <2>11, <3>2 DEF FindSeat, tables, locals
      <4>2. limit'[r] = total[lic'[r]] /\ pc'[r] = "countSeats"
        BY <2>3, <2>6, <4>1 DEF AloneAt
      <4> QED BY <1>1, <2>3, <4>1, <4>2, AloneGoesOn
    <3> QED BY <3>1, <3>2
  <2>12. CASE CountSeats(r)
    <3>1. CASE Skip(r)
      BY <2>8, <3>1
    <3>2. CASE ~ Skip(r)
      <4>1. /\ pc[r] = "countSeats" /\ UNCHANGED <<total, ending, lic, op>>
            /\ Goto(r, IF op[r] = "bundle" THEN "writeUsed" ELSE "recount")
        BY <2>12, <3>2 DEF CountSeats, locals
      <4>2. PICK New \in SUBSET SeatIds :
               /\ \A i \in New : /\ seat[i].st = "unused"
                                 /\ seat'[i].lic = lic[r] /\ seat'[i].st = "open" /\ seat'[i].by = r
                                 /\ seat'[i].user \in who[r]
               /\ \A i, j \in New : seat'[i].user = seat'[j].user => i = j
               /\ op[r] # "batch" /\ who[r] # {} => New # {}
               /\ \A i \in SeatIds \ New : seat'[i] = seat[i]
               /\ IsFiniteSet(OpenSeats(r, lic[r]) \cup New)
               /\ lic[r] \notin Unlimited => Cardinality(OpenSeats(r, lic[r]) \cup New) <= limit[r]
        BY <1>1, <2>12, <3>2, InsertFits
      <4>3. ending[r] = {} /\ limit[r] = total[lic[r]]
        BY <1>1, <2>3, <2>12, <3>2, <4>1, CountInserts DEF AloneAt
      <4>4. /\ OpenSeats(r, lic[r])' = OpenSeats(r, lic[r]) \cup New
            /\ \A l \in Licenses \ {lic[r]} : /\ OpenSeats(r, l)' = OpenSeats(r, l)
                                              /\ Own(r, l)' = Own(r, l)
        BY <4>1, <4>2, <4>3 DEF OpenSeats, Rows, Own, Held
      <4>5. \A l \in Licenses \ Unlimited :
                Own(r, l)' # {} => Cardinality(OpenSeats(r, l)') <= total'[l]
        <5> TAKE l \in Licenses \ Unlimited
        <5>1. CASE l = lic[r]
          <6>1. OpenSeats(r, l)' = OpenSeats(r, l) \cup New
            BY <4>1, <4>4, <5>1 DEF OpenSeats, Rows
          <6> QED BY <4>1, <4>2, <4>3, <5>1, <6>1
        <5>2. CASE l # lic[r]
          BY <2>3, <4>1, <4>4, <5>2 DEF AloneAt
        <5> QED BY <5>1, <5>2
      <4> QED BY <1>1, <2>3, <2>6, <4>1, <4>5 DEF AloneAt, OthersKept
    <3> QED BY <3>1, <3>2
  <2>13. CASE EndSeat(r)
    BY <2>5, <2>7, <2>13 DEF EndSeat, tables, Inserting
  <2>14. CASE Recount(r)
    <3>1. /\ Goto(r, "writeUsed") /\ UNCHANGED <<total, seat, ending, lic>>
          /\ count' = [count EXCEPT ![r] = Cardinality(OpenSeats(r, lic[r]))]
      BY <2>14 DEF Recount, tables, locals
    <3>2. count'[r] = Cardinality(OpenSeats(r, lic'[r])) /\ pc'[r] = "writeUsed"
      BY <1>1, <2>6, <3>1 DEF TypeInv, LocalsOK
    <3> QED BY <1>1, <2>3, <3>1, <3>2, AloneGoesOn
  <2>15. CASE WriteUsed(r)
    BY <2>5, <2>7, <2>15 DEF WriteUsed, tables, locals
  <2>16. CASE WriteTotal(r) \/ Abort(r)
    BY <2>4, <2>5, <2>16 DEF WriteTotal, Abort
  <2>17. CASE DirStatement(r)
    BY <2>5, <2>7, <2>17
       DEF DirStatement, DirRead, DirFind, DirInsert, DirFindRows, DirNextRow, DirReadUsed,
           DirWriteUsed, DirDelete, DirDeleteUser, tables, locals, Inserting
  <2> QED BY <1>4, <2>9, <2>10, <2>11, <2>12, <2>13, <2>14, <2>15, <2>16, <2>17 DEF Runs, Statement
<1> QED BY <1>3, <1>4

\* A request alone knows what it counts, under both writers.
LEMMA AloneAlways == DirSpec => []AloneOK
<1>1. Init => AloneOK
  BY DEF Init, AloneOK
<1>2. SharedOK /\ SharedOK' /\ AloneOK /\ [DirNext]_vars => AloneOK'
  <2> SUFFICES ASSUME SharedOK, SharedOK', AloneOK, [DirNext]_vars PROVE AloneOK'
    OBVIOUS
  <2>1. CASE UNCHANGED vars
    BY <2>1 DEF vars, AloneOK, AloneAt, Own, Held, OpenSeats, Rows
  <2>2. CASE DirNext
    <3>1. PICK r \in Requests : Starts(r) \/ Runs(r)
      BY <2>2 DEF DirNext, Next, Starts, Runs
    <3> QED BY <3>1, AloneStep
  <2> QED BY <2>1, <2>2
<1> QED BY <1>1, <1>2, SharedAlways, PTL DEF DirSpec

\* LicensesService alone is a case of both services.
LEMMA SpecIsDirSpec == Spec => DirSpec
<1>1. [Next]_vars => [DirNext]_vars
  BY DEF DirNext
<1> QED BY <1>1, PTL DEF Spec, DirSpec

\* Whichever of its statements commits, the rows of LicensesService's transaction are
\* revealed, or none changes.
LEMMA AloneCommits ==
    ASSUME SharedOK, AloneOK, NEW r \in Requests, alone[r], WriteUsed(r) \/ NextLicense(r),
           NEW l \in Licenses
    PROVE  /\ total' = total
           /\ \/ Active(l)' = Active(l)
              \/ Active(l)' = OpenSeats(r, l)
<1>1. Lone(r)
  BY DEF AloneOK, AloneAt, Lone
<1>2. CASE seat' = Revealed(r) /\ total' = total
  BY <1>1, <1>2, WhatCommits
<1>3. CASE UNCHANGED tables
  BY <1>3 DEF tables, Active, Rows
<1> QED BY <1>2, <1>3 DEF WriteUsed, NextLicense, Publish

\* With both services writing, whatever they did before, a seat operation of
\* LicensesService that no other request overlapped leaves usedSeats equal to the rows.
THEOREM AloneRequestHeals == DirSpec => AloneHeals
<1>1. ASSUME SharedOK, AloneOK, NEW r \in Requests, alone[r], op[r] # "bundle", WriteUsed(r)
      PROVE  \A l \in {lic[r]} : used'[l] = Cardinality(Active(l))'
  <2> SUFFICES ASSUME NEW l \in {lic[r]} PROVE used'[l] = Cardinality(Active(l))'
    OBVIOUS
  <2>1. l = lic[r]
    OBVIOUS
  <2>2. pc[r] = "writeUsed" /\ l \in Licenses /\ count[r] \in Nat /\ wrote[r] = [x \in Licenses |-> wrote[r][x]]
    BY <1>1, <2>1 DEF WriteUsed, SharedOK, TypeInv, StepsOK, About, LocalsOK
  <2>3. Publish(r, [wrote[r] EXCEPT ![l] = count[r]], Revealed(r))
    BY <1>1, <2>1 DEF WriteUsed
  <2>4. used'[l] = count[r]
    BY <2>2, <2>3, SeatsAssumption DEF Publish
  <2>5. Lone(r) /\ count[r] = Cardinality(OpenSeats(r, l))
    BY <1>1, <2>1, <2>2 DEF AloneOK, AloneAt, Lone
  <2>6. Active(l)' = OpenSeats(r, l)
    BY <1>1, <2>2, <2>3, <2>5, WhatCommits DEF Publish
  <2> QED BY <2>4, <2>5, <2>6
<1>2. SharedOK /\ AloneOK =>
        [\A r \in Requests :
            alone[r] /\ op[r] # "bundle" /\ WriteUsed(r)
            => \A l \in {lic[r]} : used'[l] = Cardinality(Active(l))']_vars
  BY <1>1
<1> QED BY <1>2, SharedAlways, AloneAlways, PTL DEF AloneHeals

\* LicensesService by itself heals too.
THEOREM AloneSeatHeals == Spec => AloneHeals
  BY SpecIsDirSpec, AloneRequestHeals, PTL

\* With both services writing, whatever races and the directory did before, an endpoint
\* of LicensesService that no other request overlapped seats nobody beyond the total.
THEOREM AloneRequestFits == DirSpec => AloneWithinCapacity
<1>1. ASSUME SharedOK, AloneOK, NEW r \in Requests, NEW l \in Licenses \ Unlimited,
             alone[r], WriteUsed(r) \/ NextLicense(r),
             Cardinality(Active(l))' > Cardinality(Active(l))
      PROVE  Cardinality(Active(l))' <= total'[l]
  <2>1. total' = total /\ (Active(l)' = Active(l) \/ Active(l)' = OpenSeats(r, l))
    BY <1>1, AloneCommits
  <2>2. Active(l) \in SUBSET SeatIds /\ OpenSeats(r, l) \in SUBSET SeatIds
    BY DEF Active, OpenSeats, Rows
  <2>3. /\ IsFiniteSet(Active(l)) /\ Cardinality(Active(l)) \in Nat
        /\ IsFiniteSet(OpenSeats(r, l)) /\ Cardinality(OpenSeats(r, l)) \in Nat
    BY <2>2, RowsFinite
  <2>4. Active(l)' = OpenSeats(r, l)
    BY <1>1, <2>1, <2>3
  <2>5. Own(r, l) # {}
    <3> SUFFICES ASSUME Own(r, l) = {} PROVE FALSE
      OBVIOUS
    <3>1. OpenSeats(r, l) \subseteq Active(l)
      BY DEF OpenSeats, Rows, Active, Own, Held
    <3>2. Cardinality(OpenSeats(r, l)) <= Cardinality(Active(l))
      BY <2>3, <3>1, FS_Subset
    <3> QED BY <1>1, <2>3, <2>4, <3>2
  <2> QED BY <1>1, <2>1, <2>4, <2>5 DEF AloneOK, AloneAt
<1>2. SharedOK /\ AloneOK =>
        [\A r \in Requests : \A l \in Licenses \ Unlimited :
            /\ alone[r] /\ (WriteUsed(r) \/ NextLicense(r))
            /\ Cardinality(Active(l))' > Cardinality(Active(l))
            => Cardinality(Active(l))' <= total'[l]]_vars
  BY <1>1
<1> QED BY <1>2, SharedAlways, AloneAlways, PTL DEF AloneWithinCapacity

-----------------------------------------------------------------------------
(* Requests that never overlap.                                            *)

\* Subsets of the rows, and one row more or less.
LEMMA Smaller ==
    ASSUME NEW S \in SUBSET SeatIds, NEW T \in SUBSET S
    PROVE  /\ Cardinality(S) \in Nat /\ Cardinality(T) \in Nat
           /\ Cardinality(T) <= Cardinality(S)
<1>1. T \in SUBSET SeatIds
  OBVIOUS
<1> QED BY <1>1, RowsFinite, FS_Subset

\* A set of rows with one row added.
LEMMA OneRowMore ==
    ASSUME NEW S \in SUBSET SeatIds, NEW i \in SeatIds
    PROVE  /\ Cardinality(S \cup {i}) <= Cardinality(S) + 1
           /\ i \notin S => Cardinality(S \cup {i}) = Cardinality(S) + 1
<1>1. IsFiniteSet(S) /\ Cardinality(S) \in Nat
  BY RowsFinite
<1> QED BY <1>1, FS_AddElement

\* The request that moves is the only one that runs.
LEMMA LoneWhen ==
    ASSUME SharedOK, OneAtATime, OneAtATime', NEW r \in Requests, Starts(r) \/ Runs(r)
    PROVE  Lone(r) /\ OthersKept(r)
<1>1. CASE Starts(r)
  <2>1. OthersKept(r) /\ pc'[r] # "idle"
    BY <1>1, StartsAre DEF SharedOK, Begun, Entry
  <2> QED BY <2>1 DEF OneAtATime, OthersKept, Lone
<1>2. CASE Runs(r)
  BY <1>2, RunsAre DEF SharedOK, OneAtATime, Lone
<1> QED BY <1>1, <1>2

\* The others are idle, and idle requests keep everything tidy.
LEMMA RestTidy ==
    ASSUME TidyOK, NEW r \in Requests, Lone(r), OthersKept(r),
           OneRowEach', UsedNotOverstated', SeatedOnce(r)', CountersAt(r)'
    PROVE  TidyOK'
<1>1. ASSUME NEW q \in Requests \ {r} PROVE SeatedOnce(q)' /\ CountersAt(q)'
  <2>1. pc[q] = "idle" /\ pc'[q] = "idle" /\ wrote'[q] = wrote[q]
    BY DEF Lone, OthersKept
  <2>2. "idle" \notin Inserting \cup Counting \cup Counted
    BY DEF Inserting, Counting, Counted
  <2>3. wrote'[q] = Clean
    BY <2>1, <2>2 DEF TidyOK, CountersAt
  <2>4. SeatedOnce(q)'
    BY <2>1 DEF SeatedOnce
  <2>5. CountersAt(q)'
    BY <2>1, <2>2, <2>3 DEF CountersAt, Clean
  <2> QED BY <2>4, <2>5
<1> QED BY <1>1 DEF TidyOK

\* Of a request that is over nothing is asked.
LEMMA OverTidy ==
    ASSUME NEW r \in Requests, Over(r)
    PROVE  SeatedOnce(r)' /\ CountersAt(r)'
<1>1. pc'[r] = "idle" /\ wrote'[r] = Clean
  BY DEF Over
<1>2. "idle" \notin Inserting \cup Counting \cup Counted
  BY DEF Inserting, Counting, Counted
<1> QED BY <1>1, <1>2 DEF SeatedOnce, CountersAt, Clean

\* Tables that stay as they are, and rows that only go.
LEMMA SameTables ==
    ASSUME TidyOK, UNCHANGED <<seat, used>>
    PROVE  OneRowEach' /\ UsedNotOverstated'
  BY DEF TidyOK, OneRowEach, UsedNotOverstated, Active, Rows

Fewer ==
    \A i \in SeatIds : seat'[i].st = "open" =>
        /\ seat[i].st = "open" /\ seat'[i].lic = seat[i].lic
        /\ seat'[i].user \in {seat[i].user, NoUser}

\* Closing rows seats nobody twice.
LEMMA FewerRows ==
    ASSUME OneRowEach, Fewer
    PROVE  OneRowEach'
  BY DEF OneRowEach, Fewer

\* A transaction arrives.
LEMMA StartTidy ==
    ASSUME SharedOK, TidyOK, NEW r \in Requests, Lone(r), Begun(r)
    PROVE  TidyOK'
<1>1. /\ pc[r] = "idle" /\ pc'[r] \in Entry /\ UNCHANGED <<seat, used, ending, wrote>>
  BY DEF Begun, tables
<1>2. wrote[r] = Clean /\ ending[r] = {}
  BY <1>1 DEF TidyOK, CountersAt, Inserting, Counting, Counted, SharedOK, TypeInv, StepsOK
<1>3. OneRowEach' /\ UsedNotOverstated'
  BY <1>1, SameTables
<1>4. SeatedOnce(r)'
  BY <1>1 DEF SeatedOnce, Entry
<1>5. ASSUME pc'[r] = "dirReadUsed"
      PROVE  /\ op'[r] \in {"dirUnassign", "dirRemove"}
             /\ \E i \in SeatIds :
                   /\ op'[r] = "dirUnassign" => targets'[r] = {i}
                   /\ seat'[i].lic = lic'[r]
                   /\ \A l \in Licenses :
                         Written(r, l)' <= Cardinality(Active(l)' \ (Done(r)' \ {i}))
  <2>1. op'[r] = "dirUnassign"
    BY <1>5 DEF Begun
  <2>2. PICK i \in SeatIds : targets'[r] = {i}
    BY <1>5 DEF Begun
  <2>3. seat'[i].lic = lic'[r]
    BY <1>1, <1>5, <2>2 DEF Begun
  <2>4. Done(r)' = {i}
    BY <2>1, <2>2 DEF Done
  <2>5. \A l \in Licenses : Written(r, l)' = used[l] /\ Active(l)' = Active(l)
    BY <1>1, <1>2 DEF Written, Clean, Active, Rows
  <2>6. \A l \in Licenses : Active(l)' \ (Done(r)' \ {i}) = Active(l)
    BY <2>4, <2>5
  <2>7. \A l \in Licenses : Written(r, l)' <= Cardinality(Active(l)' \ (Done(r)' \ {i}))
    BY <2>5, <2>6 DEF TidyOK, UsedNotOverstated
  <2> QED BY <2>1, <2>2, <2>3, <2>7
<1>6. CountersAt(r)'
  <2>1. pc'[r] = "endSeat" => \A i \in targets'[r] : seat'[i].lic = lic'[r]
    BY <1>1 DEF Begun
  <2>2. pc'[r] = "dirFindRows" => op'[r] = "dirRemove"
    BY DEF Begun
  <2>3. pc'[r] \notin Counted /\ (pc'[r] \in Counting => pc'[r] = "dirReadUsed")
    BY <1>1 DEF Entry, Counted, Counting
  <2>4. pc'[r] \notin {"writeUsed", "dirWriteUsed", "dirDelete", "dirNextRow", "dirDeleteUser"}
    BY <1>1 DEF Entry
  <2>5. wrote'[r] = Clean /\ ending'[r] = {} /\ \A l \in Licenses : Clean[l] = NoCount
    BY <1>1, <1>2 DEF Clean
  <2> QED BY <1>5, <2>1, <2>2, <2>3, <2>4, <2>5 DEF CountersAt
<1>7. OthersKept(r)
  BY DEF Begun
<1> QED BY <1>3, <1>4, <1>6, <1>7, RestTidy

\* ROLLBACK, and the commit of a transaction of LicensesService.
LEMMA RollbackTidy ==
    ASSUME SharedOK, TidyOK, NEW r \in Requests, Lone(r), Rollback(r)
    PROVE  TidyOK'
<1>1. /\ Over(r) /\ used' = used
      /\ seat' = [i \in SeatIds |-> IF seat[i].by = r THEN Unused ELSE seat[i]]
  BY ResetIs DEF Rollback, SharedOK
<1>2. Unused.st = "unused" /\ NoRequest \notin Requests
  BY SeatsAssumption DEF Unused
<1>3. Fewer
  BY <1>1, <1>2 DEF Fewer
<1>4. OneRowEach'
  BY <1>3, FewerRows DEF TidyOK
<1>5. \A l \in Licenses : Active(l)' = Active(l)
  BY <1>1, <1>2 DEF Active, Rows
<1>6. UsedNotOverstated'
  BY <1>1, <1>5 DEF TidyOK, UsedNotOverstated
<1> QED BY <1>1, <1>4, <1>6, OverTidy, RestTidy DEF Over

\* A commit whose counters do not exceed the rows it leaves open keeps the tables tidy.
LEMMA RevealTidy ==
    ASSUME SharedOK, TidyOK, NEW r \in Requests, Lone(r),
           NEW writes \in [Licenses -> Nat \cup {NoCount}], Publish(r, writes, Revealed(r)),
           \A l \in Licenses : writes[l] # NoCount => writes[l] <= Cardinality(OpenSeats(r, l)),
           \A l \in Licenses : writes[l] = NoCount => \A i \in ending[r] : seat[i].lic # l
    PROVE  TidyOK'
<1>1. /\ Over(r) /\ seat' = Revealed(r)
      /\ used' = [l \in Licenses |-> IF writes[l] = NoCount THEN used[l] ELSE writes[l]]
  BY ResetIs DEF Publish, SharedOK
<1>2. Fewer
  <2>1. \A i \in SeatIds : /\ [seat[i] EXCEPT !.st = "closed"].st = "closed"
                           /\ LET row == [seat[i] EXCEPT !.by = NoRequest]
                              IN  row.st = seat[i].st /\ row.lic = seat[i].lic /\ row.user = seat[i].user
    BY DEF SharedOK, TypeInv, TablesOK, Row
  <2> QED BY <1>1, <2>1 DEF Revealed, Fewer
<1>3. OneRowEach'
  BY <1>2, FewerRows DEF TidyOK
<1>4. ASSUME NEW l \in Licenses PROVE used'[l] <= Cardinality(Active(l))'
  <2>1. Active(l)' = OpenSeats(r, l)
    BY <1>1, WhatCommits
  <2>2. CASE writes[l] # NoCount
    BY <1>1, <2>1, <2>2
  <2>3. CASE writes[l] = NoCount
    <3>1. Active(l) \subseteq OpenSeats(r, l) /\ OpenSeats(r, l) \in SUBSET SeatIds
      BY <2>3 DEF Active, OpenSeats, Rows
    <3>2. used[l] <= Cardinality(Active(l)) /\ used[l] \in Nat
      BY DEF TidyOK, UsedNotOverstated, SharedOK, TypeInv, TablesOK
    <3>3. /\ Cardinality(Active(l)) <= Cardinality(OpenSeats(r, l))
          /\ Cardinality(Active(l)) \in Nat /\ Cardinality(OpenSeats(r, l)) \in Nat
      BY <3>1, Smaller
    <3>4. used'[l] = used[l]
      BY <1>1, <2>3
    <3> QED BY <2>1, <3>2, <3>3, <3>4
  <2> QED BY <2>2, <2>3
<1>5. UsedNotOverstated'
  BY <1>4 DEF UsedNotOverstated
<1> QED BY <1>1, <1>3, <1>5, OverTidy, RestTidy DEF Over

\* A transaction of LicensesService goes on; the tables are as they were.
LEMMA InsertingTidy ==
    ASSUME TidyOK, NEW r \in Requests, Lone(r), OthersKept(r), UNCHANGED <<seat, used, ending>>,
           pc'[r] \in Inserting, SeatedOnce(r)',
           \A i \in ending[r] : seat[i].lic = lic'[r],
           \A l \in Licenses : wrote'[r][l] # NoCount => wrote'[r][l] <= Cardinality(OpenSeats(r, l)),
           pc'[r] = "writeUsed" => count'[r] <= Cardinality(OpenSeats(r, lic'[r]))
    PROVE  TidyOK'
<1>1. OneRowEach' /\ UsedNotOverstated'
  BY SameTables
<1>2. /\ \A l \in Licenses : OpenSeats(r, l)' = OpenSeats(r, l)
      /\ OpenSeats(r, lic[r])' = OpenSeats(r, lic'[r])
  BY DEF OpenSeats, Rows
<1>3. /\ pc'[r] \notin Counting \cup Counted
      /\ pc'[r] \notin {"endSeat", "dirWriteUsed", "dirDelete", "dirFindRows", "dirNextRow", "dirDeleteUser"}
  BY DEF Inserting, Counting, Counted
<1>4. CountersAt(r)'
  BY <1>2, <1>3 DEF CountersAt
<1> QED BY <1>1, <1>4, RestTidy

\* A new row for a user who has none on the license seats nobody twice.
LEMMA InsertTidy ==
    ASSUME SharedOK, TidyOK, NEW r \in Requests, Lone(r), OthersKept(r), CountSeats(r), ~ Skip(r)
    PROVE  TidyOK'
<1>1. TypeInv
  BY DEF SharedOK
<1>2. /\ pc[r] = "countSeats" /\ UNCHANGED <<used, ending, lic, op, wrote>> /\ lic[r] \in Licenses
      /\ count' = [count EXCEPT ![r] = Cardinality(OpenSeats(r, lic[r])) + 1]
      /\ Goto(r, IF op[r] = "bundle" THEN "writeUsed" ELSE "recount")
      /\ ending[r] = {}
  BY <1>1, CountInserts DEF CountSeats, locals
<1>3. PICK New \in SUBSET SeatIds :
         /\ \A i \in New : /\ seat[i].st = "unused"
                           /\ seat'[i].lic = lic[r] /\ seat'[i].st = "open" /\ seat'[i].by = r
                           /\ seat'[i].user \in who[r]
         /\ \A i, j \in New : seat'[i].user = seat'[j].user => i = j
         /\ op[r] # "batch" /\ who[r] # {} => New # {}
         /\ \A i \in SeatIds \ New : seat'[i] = seat[i]
         /\ IsFiniteSet(OpenSeats(r, lic[r]) \cup New)
         /\ lic[r] \notin Unlimited => Cardinality(OpenSeats(r, lic[r]) \cup New) <= limit[r]
  BY <1>1, InsertFits
<1>4. /\ who[r] # {}
      /\ \A i \in Held(lic[r]) : seat[i].user \in who[r] => seat[i].user = NoUser
  BY <1>2 DEF TidyOK, SeatedOnce
<1>5. OneRowEach'
  <2> SUFFICES ASSUME NEW i \in SeatIds, NEW j \in SeatIds,
                      seat'[i].st = "open", seat'[j].st = "open", seat'[i].lic = seat'[j].lic,
                      seat'[i].user = seat'[j].user, seat'[i].user # NoUser
               PROVE  i = j
    BY DEF OneRowEach
  <2>1. ASSUME NEW a \in New, NEW b \in SeatIds \ New, seat'[b].st = "open",
               seat'[a].lic = seat'[b].lic, seat'[a].user = seat'[b].user
        PROVE  seat'[a].user = NoUser
    <3>1. b \in Held(lic[r]) /\ seat[b].user \in who[r]
      BY <1>3, <2>1 DEF Held
    <3> QED BY <1>3, <1>4, <2>1, <3>1
  <2>2. CASE i \in New
    BY <1>3, <2>1, <2>2
  <2>3. CASE i \notin New /\ j \in New
    BY <1>3, <2>1, <2>3
  <2>4. CASE i \notin New /\ j \notin New
    BY <1>3, <2>4 DEF TidyOK, OneRowEach
  <2> QED BY <2>2, <2>3, <2>4
<1>6. \A l \in Licenses : Active(l)' = Active(l)
  BY <1>3, SeatsAssumption DEF Active, Rows
<1>7. UsedNotOverstated'
  BY <1>2, <1>6 DEF TidyOK, UsedNotOverstated
<1>8. \A l \in Licenses : OpenSeats(r, l) \subseteq OpenSeats(r, l)' /\ OpenSeats(r, l)' \in SUBSET SeatIds
  BY <1>2, <1>3 DEF OpenSeats, Rows
<1>9. \A l \in Licenses : /\ Cardinality(OpenSeats(r, l)) <= Cardinality(OpenSeats(r, l)')
                          /\ Cardinality(OpenSeats(r, l)) \in Nat /\ Cardinality(OpenSeats(r, l)') \in Nat
  BY <1>8, Smaller
<1>10. pc'[r] = IF op[r] = "bundle" THEN "writeUsed" ELSE "recount"
  BY <1>1, <1>2 DEF Goto, TypeInv, StepsOK
<1>11. ASSUME op[r] = "bundle", NEW l \in Licenses, l = lic[r]
       PROVE  count'[r] <= Cardinality(OpenSeats(r, l)')
  <2>1. PICK i \in New : TRUE
    BY <1>3, <1>4, <1>11
  <2>2. OpenSeats(r, l) \cup {i} \subseteq OpenSeats(r, l)' /\ i \in SeatIds /\ i \notin OpenSeats(r, l)
    BY <1>2, <1>3, <1>11 DEF OpenSeats, Rows
  <2>3. OpenSeats(r, l) \in SUBSET SeatIds
    BY DEF OpenSeats, Rows
  <2>4. Cardinality(OpenSeats(r, l) \cup {i}) = Cardinality(OpenSeats(r, l)) + 1
    BY <2>2, <2>3, OneRowMore
  <2>5. Cardinality(OpenSeats(r, l) \cup {i}) <= Cardinality(OpenSeats(r, l)')
    BY <1>8, <2>2, Smaller
  <2>6. count'[r] = Cardinality(OpenSeats(r, l)) + 1
    BY <1>1, <1>2, <1>11 DEF TypeInv, LocalsOK
  <2> QED BY <2>4, <2>5, <2>6
<1>12. SeatedOnce(r)'
  BY <1>10 DEF SeatedOnce
<1>13. CountersAt(r)'
  <2>1. /\ pc'[r] \in Inserting /\ pc'[r] \notin Counting \cup Counted
        /\ pc'[r] \notin {"endSeat", "dirWriteUsed", "dirDelete", "dirFindRows", "dirNextRow", "dirDeleteUser"}
    BY <1>10 DEF Inserting, Counting, Counted
  <2>2. \A l \in Licenses : wrote'[r][l] # NoCount => wrote'[r][l] <= Cardinality(OpenSeats(r, l)')
    <3> TAKE l \in Licenses
    <3>1. wrote[r][l] # NoCount => wrote[r][l] <= Cardinality(OpenSeats(r, l)) /\ wrote[r][l] \in Nat
      BY <1>1, <1>2 DEF TidyOK, CountersAt, Inserting, TypeInv, LocalsOK
    <3> QED BY <1>2, <1>9, <3>1
  <2>3. pc'[r] = "writeUsed" => count'[r] <= Cardinality(OpenSeats(r, lic[r]))'
    <3>1. PICK l \in Licenses : l = lic[r]
      BY <1>2
    <3>2. OpenSeats(r, lic[r])' = OpenSeats(r, l)'
      BY <1>2, <3>1 DEF OpenSeats, Rows
    <3> QED BY <1>10, <1>11, <3>1, <3>2
  <2> QED BY <1>2, <2>1, <2>2, <2>3 DEF CountersAt
<1> QED BY <1>5, <1>7, <1>12, <1>13, RestTidy

\* Every statement of LicensesService.
LEMMA StatementTidy ==
    ASSUME SharedOK, TidyOK, NEW r \in Requests, Lone(r), OthersKept(r), Statement(r) \/ Abort(r)
    PROVE  TidyOK'
<1> USE DEF Inserting
<1>1. TypeInv /\ CountersAt(r)
  BY DEF SharedOK, TidyOK
<1>2. pc[r] \in About => lic[r] \in Licenses
  BY <1>1 DEF TypeInv, StepsOK
<1>3. /\ pc[r] \in Inserting /\ pc[r] \notin {"recount", "writeUsed"} => ending[r] = {}
      /\ op[r] = "bundle" /\ pc[r] \in Inserting => ending[r] = {}
  BY <1>1 DEF TypeInv, StepsOK
<1>4. ASSUME NEW step, Goto(r, step) PROVE pc'[r] = step
  BY <1>1, <1>4 DEF Goto, TypeInv, StepsOK
<1>5. pc[r] \in Inserting => \A l \in Licenses :
          wrote[r][l] # NoCount => wrote[r][l] <= Cardinality(OpenSeats(r, l))
  BY <1>1 DEF CountersAt
<1>6. ASSUME pc[r] \in Inserting, NEW step \in Inserting, Goto(r, step),
             UNCHANGED <<seat, used, ending, wrote>>, step \notin {"countSeats", "writeUsed"},
             ending[r] = {} \/ lic' = lic
      PROVE  TidyOK'
  <2>1. pc'[r] = step
    BY <1>4, <1>6
  <2>2. SeatedOnce(r)'
    BY <1>6, <2>1 DEF SeatedOnce
  <2>3. \A i \in ending[r] : seat[i].lic = lic'[r]
    BY <1>1, <1>6 DEF CountersAt
  <2> QED BY <1>5, <1>6, <2>1, <2>2, <2>3, InsertingTidy
<1>7. ASSUME Rollback(r) PROVE TidyOK'
  BY <1>7, RollbackTidy
<1>8. ASSUME Skip(r), pc[r] \in {"findSeat", "countSeats"} PROVE TidyOK'
  BY <1>3, <1>6, <1>7, <1>8 DEF Skip, tables, locals
<1>9. CASE NextLicense(r)
  <2>1. pc[r] = "next" /\ ending[r] = {}
    BY <1>3, <1>9 DEF NextLicense
  <2>2. CASE Publish(r, wrote[r], Revealed(r))
    <3>1. wrote[r] \in [Licenses -> Nat \cup {NoCount}]
      BY <1>1 DEF TypeInv, LocalsOK
    <3>2. \A l \in Licenses : wrote[r][l] = NoCount => \A i \in ending[r] : seat[i].lic # l
      BY <2>1
    <3> QED BY <1>5, <2>1, <2>2, <3>1, <3>2, RevealTidy
  <2>3. CASE Goto(r, "readLicense") /\ UNCHANGED <<tables, locals, wrote>>
    BY <1>6, <2>1, <2>3 DEF tables, locals
  <2> QED BY <1>9, <2>2, <2>3 DEF NextLicense
<1>10. CASE ReadLicense(r)
  BY <1>3, <1>6, <1>10 DEF ReadLicense, tables, locals
<1>11. CASE FindSeat(r)
  <2>1. CASE Skip(r)
    BY <1>8, <1>11, <2>1 DEF FindSeat
  <2>2. CASE ~ Skip(r)
    <3>1. /\ pc[r] = "findSeat" /\ Unseated(r) # {} /\ Goto(r, "countSeats")
          /\ who' = [who EXCEPT ![r] = Unseated(r)]
          /\ UNCHANGED <<seat, used, ending, lic, wrote>>
      BY <1>11, <2>2 DEF FindSeat, tables, locals
    <3>2. pc'[r] = "countSeats" /\ who'[r] = Unseated(r) /\ ending[r] = {}
      BY <1>1, <1>3, <1>4, <3>1 DEF TypeInv, LocalsOK
    <3>3. Held(lic[r]) \subseteq OpenSeats(r, lic[r])
      BY <3>2, LoneRows DEF Held, OpenSeats, Rows
    <3>4. Held(lic[r])' = Held(lic[r])
      BY <3>1 DEF Held
    <3>5. SeatedOnce(r)'
      BY <3>1, <3>2, <3>3, <3>4 DEF SeatedOnce, Unseated
    <3> QED BY <1>5, <3>1, <3>2, <3>5, InsertingTidy
  <2> QED BY <2>1, <2>2
<1>12. CASE CountSeats(r)
  BY <1>8, <1>12, InsertTidy DEF CountSeats
<1>13. CASE EndSeat(r)
  <2>1. CASE Rollback(r)
    BY <1>7, <2>1
  <2>2. CASE ~ Rollback(r)
    <3>1. /\ pc[r] = "endSeat" /\ ending' = [ending EXCEPT ![r] = targets[r]] /\ Goto(r, "recount")
          /\ UNCHANGED <<seat, used, lic, wrote>>
      BY <1>13, <2>2 DEF EndSeat, tables
    <3>2. pc'[r] = "recount" /\ ending'[r] = targets[r]
      BY <1>1, <1>4, <3>1 DEF TypeInv, LocalsOK
    <3>3. wrote[r] = Clean /\ \A i \in targets[r] : seat[i].lic = lic[r]
      BY <1>1, <3>1 DEF CountersAt, Counting, Counted
    <3>4. CountersAt(r)' /\ SeatedOnce(r)'
      BY <3>1, <3>2, <3>3 DEF CountersAt, SeatedOnce, Counting, Counted, Clean
    <3>5. OneRowEach' /\ UsedNotOverstated'
      BY <3>1, SameTables
    <3> QED BY <3>4, <3>5, RestTidy
  <2> QED BY <2>1, <2>2
<1>14. CASE Recount(r)
  <2>1. /\ pc[r] = "recount" /\ Goto(r, "writeUsed") /\ UNCHANGED <<seat, used, ending, lic, wrote>>
        /\ count' = [count EXCEPT ![r] = Cardinality(OpenSeats(r, lic[r]))]
    BY <1>14 DEF Recount, tables, locals
  <2>2. pc'[r] = "writeUsed" /\ count'[r] = Cardinality(OpenSeats(r, lic[r]))
    BY <1>1, <1>4, <2>1 DEF TypeInv, LocalsOK
  <2>3. Cardinality(OpenSeats(r, lic[r])) \in Nat
    BY RowsFinite DEF OpenSeats, Rows
  <2>4. SeatedOnce(r)' /\ \A i \in ending[r] : seat[i].lic = lic[r]
    BY <1>1, <2>1, <2>2 DEF SeatedOnce, CountersAt
  <2> QED BY <1>5, <2>1, <2>2, <2>3, <2>4, InsertingTidy
<1>15. CASE WriteUsed(r)
  <2>1. /\ pc[r] = "writeUsed" /\ lic[r] \in Licenses /\ count[r] \in Nat
        /\ count[r] <= Cardinality(OpenSeats(r, lic[r])) /\ \A i \in ending[r] : seat[i].lic = lic[r]
    BY <1>1, <1>2, <1>15 DEF WriteUsed, CountersAt, About, TypeInv, LocalsOK
  <2>2. PICK writes : writes = [wrote[r] EXCEPT ![lic[r]] = count[r]]
    OBVIOUS
  <2>3. /\ writes \in [Licenses -> Nat \cup {NoCount}]
        /\ writes[lic[r]] = count[r] /\ writes[lic[r]] # NoCount
        /\ \A l \in Licenses \ {lic[r]} : writes[l] = wrote[r][l]
    BY <1>1, <2>1, <2>2, SeatsAssumption DEF TypeInv, LocalsOK
  <2>4. \A l \in Licenses : writes[l] # NoCount => writes[l] <= Cardinality(OpenSeats(r, l))
    BY <1>5, <2>1, <2>3
  <2>5. CASE Publish(r, writes, Revealed(r))
    <3>1. \A l \in Licenses : writes[l] = NoCount => \A i \in ending[r] : seat[i].lic # l
      BY <2>1, <2>3
    <3> QED BY <2>3, <2>4, <2>5, <3>1, RevealTidy
  <2>6. CASE wrote' = [wrote EXCEPT ![r] = writes] /\ Goto(r, "next") /\ UNCHANGED <<tables, locals, lic>>
    <3>1. pc'[r] = "next" /\ wrote'[r] = writes /\ UNCHANGED <<seat, used, ending, lic>>
      BY <1>1, <1>4, <2>6 DEF TypeInv, LocalsOK, tables, locals
    <3>2. SeatedOnce(r)'
      BY <3>1 DEF SeatedOnce
    <3> QED BY <2>1, <2>4, <3>1, <3>2, InsertingTidy
  <2> QED BY <1>15, <2>2, <2>5, <2>6 DEF WriteUsed
<1>16. CASE WriteTotal(r)
  <2>1. Over(r) /\ UNCHANGED <<seat, used>>
    BY <1>1, <1>16, ResetIs DEF WriteTotal
  <2> QED BY <2>1, SameTables, OverTidy, RestTidy
<1>17. CASE Abort(r)
  BY <1>7, <1>17 DEF Abort
<1> QED BY <1>9, <1>10, <1>11, <1>12, <1>13, <1>14, <1>15, <1>16, <1>17 DEF Statement

\* A directory request, alone: every row is committed, and its own user's are all it sees.
LEMMA DirSees ==
    ASSUME SharedOK, NEW r \in Requests, Lone(r), pc[r] \in OfDirectory
    PROVE  /\ \A l \in Licenses : Held(l) = Active(l)
           /\ RowsOfUser(r, User(r)) = RowsOfUser(NoRequest, User(r))
           /\ \A l \in Licenses : Active(l) \in SUBSET SeatIds
<1>1. \A i \in SeatIds : seat[i].by = NoRequest
  BY LoneRows DEF OfDirectory, Inserting
<1> QED BY <1>1 DEF Held, Active, RowsOfUser, Rows

\* It reads on: what it has written and been through does not change.
LEMMA CountingTidy ==
    ASSUME TidyOK, NEW r \in Requests, Lone(r), OthersKept(r), UNCHANGED <<seat, used>>,
           SeatedOnce(r)', CountersAt(r)'
    PROVE  TidyOK'
<1>1. OneRowEach' /\ UsedNotOverstated'
  BY SameTables
<1> QED BY <1>1, RestTidy

\* Its commit: the rows it has been through leave the seats taken.
LEMMA DirCommitTidy ==
    ASSUME SharedOK, TidyOK, NEW r \in Requests, Lone(r), NEW rows, Publish(r, wrote[r], rows),
           pc[r] \in Counted, Fewer,
           \A l \in Licenses : Active(l)' = Active(l) \ Done(r)
    PROVE  TidyOK'
<1>1. /\ Over(r)
      /\ used' = [l \in Licenses |-> IF wrote[r][l] = NoCount THEN used[l] ELSE wrote[r][l]]
  BY ResetIs DEF Publish, SharedOK
<1>2. OneRowEach'
  BY FewerRows DEF TidyOK
<1>3. \A l \in Licenses : used'[l] = Written(r, l) /\ Written(r, l) <= Cardinality(Active(l) \ Done(r))
  BY <1>1 DEF Written, TidyOK, CountersAt
<1>4. UsedNotOverstated'
  BY <1>3 DEF UsedNotOverstated
<1> QED BY <1>1, <1>2, <1>4, OverTidy, RestTidy DEF Over

\* The seat is given back: the counter goes down by one where the row may be open.
LEMMA GivenBack ==
    ASSUME SharedOK, NEW r \in Requests, lic[r] \in Licenses, NEW i \in SeatIds, seat[i].lic = lic[r],
           \A l \in Licenses : Written(r, l) <= Cardinality(Active(l) \ (Done(r) \ {i})),
           count[r] = Written(r, lic[r]), NEW l \in Licenses
    PROVE  (IF l = lic[r] THEN OneLess(count[r]) ELSE Written(r, l)) <= Cardinality(Active(l) \ Done(r))
<1>1. Active(l) \ Done(r) \in SUBSET SeatIds /\ Active(l) \ (Done(r) \ {i}) \in SUBSET SeatIds
  BY DEF Active, Rows
<1>2. /\ Active(l) \ (Done(r) \ {i}) \subseteq (Active(l) \ Done(r)) \cup {i}
      /\ l # lic[r] => Active(l) \ (Done(r) \ {i}) = Active(l) \ Done(r)
  BY DEF Active
<1>3. Cardinality((Active(l) \ Done(r)) \cup {i}) <= Cardinality(Active(l) \ Done(r)) + 1
  BY <1>1, OneRowMore
<1>4. /\ Cardinality(Active(l) \ (Done(r) \ {i})) <= Cardinality((Active(l) \ Done(r)) \cup {i})
      /\ Cardinality(Active(l) \ (Done(r) \ {i})) \in Nat
      /\ Cardinality((Active(l) \ Done(r)) \cup {i}) \in Nat
  <2>1. (Active(l) \ Done(r)) \cup {i} \in SUBSET SeatIds
    BY <1>1
  <2> QED BY <1>2, <2>1, Smaller
<1>5. Cardinality(Active(l) \ Done(r)) \in Nat
  BY <1>1, RowsFinite
<1>6. CASE l # lic[r]
  BY <1>2, <1>6
<1>7. CASE l = lic[r]
  <2>1. count[r] \in Nat /\ count[r] <= Cardinality(Active(l) \ (Done(r) \ {i}))
    BY <1>7 DEF SharedOK, TypeInv, LocalsOK
  <2>2. PICK n \in Nat : n = count[r]
    BY <2>1
  <2>3. n <= Cardinality(Active(l) \ Done(r)) + 1
    BY <1>3, <1>4, <1>5, <2>1, <2>2
  <2>4. (IF n = 0 THEN 0 ELSE n - 1) <= Cardinality(Active(l) \ Done(r))
    BY <1>5, <2>2, <2>3
  <2> QED BY <1>7, <2>2, <2>4 DEF OneLess
<1> QED BY <1>6, <1>7

\* Every statement of the directory.
LEMMA DirStatementTidy ==
    ASSUME SharedOK, TidyOK, NEW r \in Requests, Lone(r), OthersKept(r), DirStatement(r)
    PROVE  TidyOK'
<1> USE DEF OfDirectory, Inserting, Counting, Counted
<1>1. TypeInv /\ CountersAt(r) /\ SeatedOnce(r)
  BY DEF SharedOK, TidyOK
<1>2. pc[r] \in About => lic[r] \in Licenses
  BY <1>1 DEF TypeInv, StepsOK
<1>3. ASSUME NEW step, Goto(r, step) PROVE pc'[r] = step
  BY <1>1, <1>3 DEF Goto, TypeInv, StepsOK
<1>4. ASSUME Rollback(r) PROVE TidyOK'
  BY <1>4, RollbackTidy
<1>5. ASSUME UNCHANGED <<seat, used, wrote>>
      PROVE  \A l \in Licenses : Written(r, l)' = Written(r, l) /\ Active(l)' = Active(l)
  BY <1>5 DEF Written, Active, Rows
<1>6. ASSUME UNCHANGED <<seat, who>> PROVE RowsOfUser(r, User(r))' = RowsOfUser(r, User(r))
  BY <1>6 DEF RowsOfUser, Rows, User
<1>7. CASE DirRead(r)
  <2>1. pc[r] = "dirRead" /\ Goto(r, "dirFind") /\ UNCHANGED <<seat, used, wrote>>
    BY <1>7 DEF DirRead, tables
  <2>2. pc'[r] = "dirFind" /\ wrote[r] = Clean
    BY <1>1, <1>3, <2>1 DEF CountersAt
  <2>3. CountersAt(r)' /\ SeatedOnce(r)'
    BY <2>1, <2>2 DEF CountersAt, SeatedOnce
  <2> QED BY <2>1, <2>3, CountingTidy
<1>8. CASE DirFind(r)
  <2>1. CASE Rollback(r)
    BY <1>4, <2>1
  <2>2. CASE ~ Rollback(r)
    <3>1. /\ pc[r] = "dirFind" /\ ~ HoldsRow(r) /\ Goto(r, "dirInsert")
          /\ UNCHANGED <<seat, used, wrote, who, lic>>
      BY <1>8, <2>2 DEF DirFind, tables
    <3>2. pc'[r] = "dirInsert" /\ wrote[r] = Clean
      BY <1>1, <1>3, <3>1 DEF CountersAt
    <3>3. lic[r] \in Licenses /\ who[r] = {User(r)} /\ Held(lic[r]) = Active(lic[r])
      BY <1>2, <3>1, ItsUser, DirSees DEF About
    <3>4. \A i \in Held(lic[r]) : seat[i].user # User(r)
      BY <3>1, <3>3 DEF HoldsRow, RowsOfUser, Active
    <3>5. SeatedOnce(r)'
      BY <3>1, <3>3, <3>4 DEF SeatedOnce, Held
    <3>6. CountersAt(r)'
      BY <3>1, <3>2 DEF CountersAt
    <3> QED BY <3>1, <3>5, <3>6, CountingTidy
  <2> QED BY <2>1, <2>2
<1>9. CASE DirInsert(r)
  <2>1. pc[r] = "dirInsert" /\ lic[r] \in Licenses
    BY <1>2, <1>9 DEF DirInsert, About
  <2>2. PICK row : row = [lic |-> lic[r], user |-> User(r), st |-> "open", by |-> NoRequest]
    OBVIOUS
  <2>3. PICK i \in Fresh(1) :
           Publish(r, [Clean EXCEPT ![lic[r]] = used[lic[r]] + 1], [seat EXCEPT ![i] = row])
    BY <1>9, <2>2 DEF DirInsert
  <2>4. i \in SeatIds /\ seat[i].st = "unused"
    BY DEF Fresh
  <2>5. /\ Over(r)
        /\ \A j \in SeatIds : seat'[j] = IF j = i THEN row ELSE seat[j]
    BY <1>1, <2>3, ResetIs DEF Publish, TypeInv, TablesOK
  <2>6. \A l \in Licenses : used'[l] = IF l = lic[r] THEN used[l] + 1 ELSE used[l]
    <3>1. PICK n : n = used[lic[r]] + 1
      OBVIOUS
    <3>2. n \in Nat
      BY <1>1, <2>1, <3>1 DEF TypeInv, TablesOK
    <3>3. \A l \in Licenses : [Clean EXCEPT ![lic[r]] = n][l] = IF l = lic[r] THEN n ELSE NoCount
      BY <2>1 DEF Clean
    <3> QED BY <2>3, <3>1, <3>2, <3>3, SeatsAssumption DEF Publish
  <2>7. OneRowEach'
    <3>1. \A j \in SeatIds \ {i} :
             seat[j].st = "open" /\ seat[j].lic = lic[r] /\ seat[j].user = User(r) => User(r) = NoUser
      <4>1. who[r] = {User(r)}
        BY <2>1, ItsUser
      <4> QED BY <1>1, <2>1, <4>1 DEF SeatedOnce, Held
    <3>2. OneRowEach
      BY DEF TidyOK
    <3> SUFFICES ASSUME NEW a \in SeatIds, NEW b \in SeatIds,
                        seat'[a].st = "open", seat'[b].st = "open", seat'[a].lic = seat'[b].lic,
                        seat'[a].user = seat'[b].user, seat'[a].user # NoUser
                 PROVE  a = b
      BY DEF OneRowEach
    <3> QED BY <2>2, <2>5, <3>1, <3>2 DEF OneRowEach
  <2>8. \A l \in Licenses : Active(l)' = IF l = lic[r] THEN Active(l) \cup {i} ELSE Active(l)
    BY <2>2, <2>4, <2>5 DEF Active, Rows
  <2>9. UsedNotOverstated'
    <3> SUFFICES ASSUME NEW l \in Licenses PROVE used'[l] <= Cardinality(Active(l))'
      BY DEF UsedNotOverstated
    <3>1. used[l] <= Cardinality(Active(l)) /\ used[l] \in Nat
      BY <1>1 DEF TidyOK, UsedNotOverstated, TypeInv, TablesOK
    <3>2. Active(l) \in SUBSET SeatIds /\ i \notin Active(l)
      BY <2>4 DEF Active, Rows
    <3>3. Cardinality(Active(l)) \in Nat /\ Cardinality(Active(l) \cup {i}) = Cardinality(Active(l)) + 1
      BY <2>4, <3>2, RowsFinite, OneRowMore
    <3>4. CASE l = lic[r]
      <4>1. used'[l] = used[l] + 1 /\ Active(l)' = Active(l) \cup {i}
        BY <2>6, <2>8, <3>4
      <4>2. Cardinality(Active(l))' = Cardinality(Active(l) \cup {i})
        BY <4>1
      <4> QED BY <3>1, <3>3, <4>1, <4>2
    <3>5. CASE l # lic[r]
      BY <2>6, <2>8, <3>1, <3>5
    <3> QED BY <3>4, <3>5
  <2> QED BY <2>5, <2>7, <2>9, OverTidy, RestTidy
<1>10. CASE DirFindRows(r)
  <2>1. /\ pc[r] = "dirFindRows" /\ Goto(r, "dirNextRow")
        /\ targets' = [targets EXCEPT ![r] = RowsOfUser(r, User(r))]
        /\ UNCHANGED <<seat, used, wrote, who, op>>
    BY <1>10 DEF DirFindRows, tables
  <2>2. /\ pc'[r] = "dirNextRow" /\ targets'[r] = RowsOfUser(r, User(r))
        /\ wrote[r] = Clean /\ op[r] = "dirRemove"
    BY <1>1, <1>3, <2>1 DEF CountersAt, TypeInv, LocalsOK
  <2>3. Done(r)' = {}
    BY <1>6, <2>1, <2>2 DEF Done
  <2>4. \A l \in Licenses : Written(r, l)' <= Cardinality(Active(l)' \ Done(r)')
    <3> TAKE l \in Licenses
    <3>1. Written(r, l) = used[l] /\ Active(l)' \ Done(r)' = Active(l)
      BY <1>5, <2>1, <2>2, <2>3 DEF Written, Clean
    <3> QED BY <1>5, <2>1, <3>1 DEF TidyOK, UsedNotOverstated
  <2>5. CountersAt(r)' /\ SeatedOnce(r)'
    BY <2>1, <2>2, <2>4 DEF CountersAt, SeatedOnce
  <2> QED BY <2>1, <2>5, CountingTidy
<1>11. CASE DirNextRow(r)
  <2>1. /\ pc[r] = "dirNextRow" /\ UNCHANGED <<seat, used, wrote, who, op>>
        /\ op[r] = "dirRemove"
    BY <1>1, <1>11 DEF DirNextRow, CountersAt, tables
  <2>2. /\ Done(r) = RowsOfUser(r, User(r)) \ targets[r]
        /\ \A l \in Licenses : Written(r, l) <= Cardinality(Active(l) \ Done(r))
    BY <1>1, <2>1 DEF CountersAt, Done
  <2>3. ASSUME NEW i \in targets[r], targets' = [targets EXCEPT ![r] = @ \ {i}],
               lic' = [lic EXCEPT ![r] = seat[i].lic], Goto(r, "dirReadUsed")
        PROVE  TidyOK'
    <3>1. /\ pc'[r] = "dirReadUsed" /\ lic'[r] = seat[i].lic /\ targets'[r] = targets[r] \ {i}
          /\ i \in SeatIds
      BY <1>1, <1>3, <2>3 DEF TypeInv, LocalsOK
    <3>2. Done(r)' = RowsOfUser(r, User(r)) \ (targets[r] \ {i})
      BY <1>6, <2>1, <3>1 DEF Done
    <3>3. Done(r)' \ {i} = Done(r)
      BY <2>2, <2>3, <3>2
    <3>4. \A l \in Licenses : Written(r, l)' <= Cardinality(Active(l)' \ (Done(r)' \ {i}))
      BY <1>5, <2>1, <2>2, <3>3
    <3>5. \E j \in SeatIds : /\ op'[r] = "dirUnassign" => targets'[r] = {j}
                             /\ seat'[j].lic = lic'[r]
                             /\ \A l \in Licenses :
                                   Written(r, l)' <= Cardinality(Active(l)' \ (Done(r)' \ {j}))
      BY <2>1, <3>1, <3>4
    <3>6. CountersAt(r)' /\ SeatedOnce(r)'
      BY <2>1, <3>1, <3>5 DEF CountersAt, SeatedOnce
    <3> QED BY <2>1, <3>6, CountingTidy
  <2>4. ASSUME targets[r] = {}, ending' = [ending EXCEPT ![r] = RowsToDelete(r)],
               Goto(r, "dirDeleteUser")
        PROVE  TidyOK'
    <3>1. pc'[r] = "dirDeleteUser" /\ ending'[r] = RowsOfUser(r, User(r))
      BY <1>1, <1>3, <2>4 DEF TypeInv, LocalsOK, RowsToDelete
    <3>2. Done(r)' = Done(r)
      BY <2>1, <2>2, <2>4, <3>1 DEF Done
    <3>3. \A l \in Licenses : Written(r, l)' <= Cardinality(Active(l)' \ Done(r)')
      BY <1>5, <2>1, <2>2, <3>2
    <3>4. CountersAt(r)' /\ SeatedOnce(r)'
      BY <2>1, <3>1, <3>3 DEF CountersAt, SeatedOnce
    <3> QED BY <2>1, <3>4, CountingTidy
  <2> QED BY <1>11, <2>3, <2>4 DEF DirNextRow
<1>12. CASE DirReadUsed(r)
  <2>1. /\ pc[r] = "dirReadUsed" /\ Goto(r, "dirWriteUsed")
        /\ count' = [count EXCEPT ![r] = Written(r, lic[r])]
        /\ UNCHANGED <<seat, used, wrote, who, op, lic, targets>>
    BY <1>12 DEF DirReadUsed, Written, tables, locals
  <2>2. pc'[r] = "dirWriteUsed" /\ count'[r] = Written(r, lic[r]) /\ lic[r] \in Licenses
    BY <1>1, <1>2, <1>3, <2>1 DEF TypeInv, LocalsOK, About
  <2>3. Done(r)' = Done(r)
    BY <1>6, <2>1, <2>2 DEF Done
  <2>4. op[r] \in {"dirUnassign", "dirRemove"}
    BY <1>1, <2>1 DEF CountersAt
  <2>5. PICK i \in SeatIds :
           /\ op[r] = "dirUnassign" => targets[r] = {i}
           /\ seat[i].lic = lic[r]
           /\ \A l \in Licenses : Written(r, l) <= Cardinality(Active(l) \ (Done(r) \ {i}))
    BY <1>1, <2>1 DEF CountersAt
  <2>6. \A l \in Licenses : Written(r, l)' <= Cardinality(Active(l)' \ (Done(r)' \ {i}))
    BY <1>5, <2>1, <2>3, <2>5
  <2>7. Written(r, lic[r])' = Written(r, lic[r])
    BY <2>1 DEF Written
  <2>8. \E j \in SeatIds : /\ op'[r] = "dirUnassign" => targets'[r] = {j}
                           /\ seat'[j].lic = lic'[r]
                           /\ \A l \in Licenses :
                                 Written(r, l)' <= Cardinality(Active(l)' \ (Done(r)' \ {j}))
    BY <2>1, <2>5, <2>6
  <2>9. CountersAt(r)' /\ SeatedOnce(r)'
    BY <2>1, <2>2, <2>4, <2>7, <2>8 DEF CountersAt, SeatedOnce
  <2> QED BY <2>1, <2>9, CountingTidy
<1>13. CASE DirWriteUsed(r)
  <2>1. /\ pc[r] = "dirWriteUsed" /\ lic[r] \in Licenses
        /\ Goto(r, IF op[r] = "dirRemove" THEN "dirNextRow" ELSE "dirDelete")
        /\ UNCHANGED <<seat, used, who, op, lic, targets>>
    BY <1>2, <1>13 DEF DirWriteUsed, About, tables, locals
  <2>2. count[r] = Written(r, lic[r]) /\ op[r] \in {"dirUnassign", "dirRemove"}
    BY <1>1, <2>1 DEF CountersAt
  <2>3. PICK i \in SeatIds :
           /\ seat[i].lic = lic[r]
           /\ \A l \in Licenses : Written(r, l) <= Cardinality(Active(l) \ (Done(r) \ {i}))
    BY <1>1, <2>1 DEF CountersAt
  <2>4. pc'[r] = IF op[r] = "dirRemove" THEN "dirNextRow" ELSE "dirDelete"
    BY <1>3, <2>1
  <2>5. Done(r)' = Done(r)
    BY <1>6, <2>1, <2>4 DEF Done
  <2>6. \A l \in Licenses : Written(r, l)' = IF l = lic[r] THEN OneLess(count[r]) ELSE Written(r, l)
    <3>1. PICK m : m = OneLess(count[r])
      OBVIOUS
    <3>2. m \in Nat
      <4>1. PICK n \in Nat : n = count[r]
        BY <1>1 DEF TypeInv, LocalsOK
      <4>2. (IF n = 0 THEN 0 ELSE n - 1) \in Nat
        OBVIOUS
      <4> QED BY <3>1, <4>1, <4>2 DEF OneLess
    <3>3. wrote' = [wrote EXCEPT ![r] = [wrote[r] EXCEPT ![lic[r]] = m]]
      BY <1>13, <3>1 DEF DirWriteUsed
    <3>4. \A l \in Licenses : wrote'[r][l] = IF l = lic[r] THEN m ELSE wrote[r][l]
      BY <1>1, <3>3 DEF TypeInv, LocalsOK
    <3> QED BY <2>1, <3>1, <3>2, <3>4, SeatsAssumption DEF Written
  <2>7. \A l \in Licenses : Active(l)' = Active(l)
    BY <2>1 DEF Active, Rows
  <2>8. \A l \in Licenses : Written(r, l)' <= Cardinality(Active(l)' \ Done(r)')
    BY <2>1, <2>2, <2>3, <2>5, <2>6, <2>7, GivenBack
  <2>9. CountersAt(r)' /\ SeatedOnce(r)'
    BY <2>1, <2>2, <2>4, <2>8 DEF CountersAt, SeatedOnce
  <2> QED BY <2>1, <2>9, CountingTidy
<1>14. CASE DirDelete(r)
  <2>1. CASE Rollback(r)
    BY <1>4, <2>1
  <2>2. CASE ~ Rollback(r)
    <3> DEFINE rows == [i \in SeatIds |-> IF i \in targets[r] THEN Deleted(i) ELSE seat[i]]
    <3>1. pc[r] = "dirDelete" /\ Publish(r, wrote[r], rows) /\ seat' = rows
      BY <1>14, <2>2 DEF DirDelete, Publish
    <3>2. op[r] = "dirUnassign"
      BY <1>1, <3>1 DEF CountersAt
    <3>3. Done(r) = targets[r]
      BY <3>2 DEF Done
    <3>4. \A i \in SeatIds : Deleted(i).st = "deleted"
      BY <1>1 DEF Deleted, TypeInv, TablesOK, Row
    <3>5. Fewer
      BY <3>1, <3>4 DEF Fewer
    <3>6. \A l \in Licenses : Active(l)' = Active(l) \ Done(r)
      BY <3>1, <3>3, <3>4 DEF Active, Rows
    <3> HIDE DEF rows
    <3> QED BY <3>1, <3>5, <3>6, DirCommitTidy
  <2> QED BY <2>1, <2>2
<1>15. CASE DirDeleteUser(r)
  <2> DEFINE rows == [i \in SeatIds |->
                        IF i \in ending[r] THEN Deleted(i)
                        ELSE IF i \in RowsOfUser(r, User(r))
                             THEN [seat[i] EXCEPT !.user = NoUser] ELSE seat[i]]
  <2>1. pc[r] = "dirDeleteUser" /\ Publish(r, wrote[r], rows) /\ seat' = rows
    BY <1>15 DEF DirDeleteUser, Publish
  <2>2. op[r] = "dirRemove"
    BY <1>1, <2>1 DEF CountersAt
  <2>3. Done(r) = ending[r]
    BY <2>1, <2>2 DEF Done
  <2>4. \A i \in SeatIds : /\ Deleted(i).st = "deleted"
                           /\ LET row == [seat[i] EXCEPT !.user = NoUser]
                              IN  /\ row.st = seat[i].st /\ row.lic = seat[i].lic
                                  /\ row.by = seat[i].by /\ row.user = NoUser
    BY <1>1 DEF Deleted, TypeInv, TablesOK, Row
  <2>5. Fewer
    BY <2>1, <2>4 DEF Fewer
  <2>6. \A l \in Licenses : Active(l)' = Active(l) \ Done(r)
    BY <2>1, <2>3, <2>4 DEF Active, Rows
  <2> HIDE DEF rows
  <2> QED BY <2>1, <2>5, <2>6, DirCommitTidy
<1> QED BY <1>7, <1>8, <1>9, <1>10, <1>11, <1>12, <1>13, <1>14, <1>15 DEF DirStatement

\* As long as no two requests overlap, each leaves the tables tidy.
LEMMA TidyAlways == DirSpec /\ []OneAtATime => []TidyOK
<1>1. Init => TidyOK
  <2> SUFFICES ASSUME Init PROVE TidyOK
    OBVIOUS
  <2>1. /\ \A i \in SeatIds : seat[i].st = "unused"
        /\ used = [l \in Licenses |-> 0]
        /\ \A r \in Requests : pc[r] = "idle" /\ wrote[r] = Clean
    BY DEF Init, Unused
  <2>2. OneRowEach
    BY <2>1 DEF OneRowEach
  <2>3. \A l \in Licenses : Active(l) = {}
    BY <2>1 DEF Active, Rows
  <2>4. UsedNotOverstated
    BY <2>1, <2>3, FS_EmptySet DEF UsedNotOverstated
  <2>5. \A r \in Requests : SeatedOnce(r) /\ CountersAt(r)
    BY <2>1 DEF SeatedOnce, CountersAt, Inserting, Counting, Counted
  <2> QED BY <2>2, <2>4, <2>5 DEF TidyOK
<1>2. SharedOK /\ OneAtATime /\ OneAtATime' /\ TidyOK /\ [DirNext]_vars => TidyOK'
  <2> SUFFICES ASSUME SharedOK, OneAtATime, OneAtATime', TidyOK, [DirNext]_vars PROVE TidyOK'
    OBVIOUS
  <2>1. CASE UNCHANGED vars
    <3>1. OneRowEach' /\ UsedNotOverstated'
      BY <2>1, SameTables DEF vars
    <3>2. \A r \in Requests : SeatedOnce(r)'
      BY <2>1 DEF vars, TidyOK, SeatedOnce, Held
    <3>3. \A r \in Requests : CountersAt(r)'
      BY <2>1 DEF vars, TidyOK, CountersAt, Written, Done, Active, OpenSeats, RowsOfUser, Rows, User
    <3> QED BY <3>1, <3>2, <3>3 DEF TidyOK
  <2>2. CASE DirNext
    <3>1. PICK r \in Requests : Starts(r) \/ Runs(r)
      BY <2>2 DEF DirNext, Next, Starts, Runs
    <3>2. Lone(r) /\ OthersKept(r)
      BY <3>1, LoneWhen
    <3>3. CASE Starts(r)
      BY <3>2, <3>3, StartsAre, StartTidy DEF SharedOK
    <3>4. CASE Runs(r)
      BY <3>2, <3>4, StatementTidy, DirStatementTidy DEF Runs
    <3> QED BY <3>1, <3>3, <3>4
  <2> QED BY <2>1, <2>2
<1> QED BY <1>1, <1>2, SharedAlways, PTL DEF DirSpec

\* One request at a time, the counter the directory trusts never exceeds the seats taken.
THEOREM SerialCounters == DirSpec /\ []OneAtATime => []UsedNotOverstated
<1>1. TidyOK => UsedNotOverstated
  BY DEF TidyOK
<1> QED BY <1>1, TidyAlways, PTL

\* One request at a time, whichever service it calls, no user holds two seats of a license.
THEOREM SerialSeats == DirSpec /\ []OneAtATime => []NoDoubleSeat
<1>1. TidyOK => NoDoubleSeat
  BY DEF TidyOK, OneRowEach, NoDoubleSeat, Active, Rows
<1> QED BY <1>1, TidyAlways, PTL
=============================================================================
