--------------------------- MODULE DirectorySeats ---------------------------
(***************************************************************************)
(* The second writer of license seats: DirectoryService.assignLicense,     *)
(* unassignLicense and remove                                              *)
(* (apps/api/src/modules/directory/directory.service.ts), running against  *)
(* the same tables as LicensesService.                                     *)
(*                                                                         *)
(* They keep License.usedSeats by increments and decrements instead of     *)
(* counting, trust it as the number of seats taken, check outside the      *)
(* transaction that writes, and delete rows where LicensesService marks    *)
(* them unassigned.                                                        *)
(***************************************************************************)
EXTENDS LicenseSeats, Integers

ASSUME DirectoryAssumption ==
    Endpoints \subseteq {"assign", "batch", "bundle", "revoke", "update",
                         "dirAssign", "dirUnassign", "dirRemove"}

\* The one user a directory request is about.
User(r) == CHOOSE u \in who[r] : TRUE

RowsOfUser(r, u) == {i \in Rows(r) : seat[i].user = u}
Deleted(i) == [seat[i] EXCEPT !.st = "deleted"]

StartDirAssign(r, l, u) ==
    /\ Begin(r, "dirAssign", "dirRead")
    /\ lic' = [lic EXCEPT ![r] = l]
    /\ who' = [who EXCEPT ![r] = {u}]
    /\ UNCHANGED <<todo, targets>>

\* The row is read, and found to be the user's, before the transaction; it may
\* be one that LicensesService has already unassigned.
StartDirUnassign(r, i) ==
    /\ i \in Rows(NoRequest) /\ seat[i].user \in staff
    /\ Begin(r, "dirUnassign", "dirReadUsed")
    /\ lic' = [lic EXCEPT ![r] = seat[i].lic]
    /\ who' = [who EXCEPT ![r] = {seat[i].user}]
    /\ targets' = [targets EXCEPT ![r] = {i}]
    /\ UNCHANGED todo

StartDirRemove(r, u) ==
    /\ Begin(r, "dirRemove", "dirFindRows")
    /\ who' = [who EXCEPT ![r] = {u}]
    /\ UNCHANGED <<lic, todo, targets>>

-----------------------------------------------------------------------------
(* assignLicense.                                                          *)

\* license.findUnique: usedSeats and totalSeats as stored.
DirRead(r) ==
    /\ pc[r] = "dirRead"
    /\ count' = [count EXCEPT ![r] = used[lic[r]]]
    /\ limit' = [limit EXCEPT ![r] = total[lic[r]]]
    /\ Goto(r, "dirFind")
    /\ UNCHANGED <<tables, locals, lic, todo, who, wrote>>

\* Mutant of HoldsRow: no check for a seat already held.
HoldsNothing(r) == FALSE

\* findFirst does not look at unassignedAt: any row of the user refuses.
HoldsRow(r) == \E i \in RowsOfUser(NoRequest, User(r)) : seat[i].lic = lic[r]

DirFind(r) ==
    /\ pc[r] = "dirFind"
    /\ \/ /\ ~HoldsRow(r) /\ count[r] < limit[r]
          /\ Goto(r, "dirInsert")
          /\ UNCHANGED <<tables, locals, lic, todo, who, limit, count, wrote>>
       \/ (HoldsRow(r) \/ count[r] >= limit[r]) /\ Rollback(r)

\* The transaction: create, increment of whatever usedSeats is by then, commit.
DirInsert(r) ==
    /\ pc[r] = "dirInsert"
    /\ who[r] \subseteq staff
    /\ Unlocked(r, lic[r])
    /\ \E i \in Fresh(1) :
          Publish(r, [Clean EXCEPT ![lic[r]] = used[lic[r]] + 1],
                  [seat EXCEPT ![i] = [lic |-> lic[r], user |-> User(r),
                                       st |-> "open", by |-> NoRequest]])
    /\ UNCHANGED <<total, staff>>

-----------------------------------------------------------------------------
(* unassignLicense and remove: usedSeats less one per row, never below 0.  *)

\* remove: findMany of the user's rows, unassigned ones included.
DirFindRows(r) ==
    /\ pc[r] = "dirFindRows"
    /\ targets' = [targets EXCEPT ![r] = RowsOfUser(r, User(r))]
    /\ Goto(r, "dirNextRow")
    /\ UNCHANGED <<tables, op, ending, alone, lic, todo, who, limit, count, wrote>>

\* deleteMany: every row of the user, whatever the loop has seen.
RowsToDelete(r) == RowsOfUser(r, User(r))

\* remove: the next row of the loop, or deleteMany of the rows the user has by now.
DirNextRow(r) ==
    /\ pc[r] = "dirNextRow"
    /\ \/ \E i \in targets[r] :
             /\ targets' = [targets EXCEPT ![r] = @ \ {i}]
             /\ lic' = [lic EXCEPT ![r] = seat[i].lic]
             /\ Goto(r, "dirReadUsed")
             /\ UNCHANGED ending
       \/ /\ targets[r] = {}
          /\ NotEnded(r, RowsToDelete(r))
          /\ ending' = [ending EXCEPT ![r] = RowsToDelete(r)]
          /\ Goto(r, "dirDeleteUser")
          /\ UNCHANGED <<targets, lic>>
    /\ UNCHANGED <<tables, op, alone, todo, who, limit, count, wrote>>

DirReadUsed(r) ==
    /\ pc[r] = "dirReadUsed"
    /\ count' = [count EXCEPT ![r] =
          IF wrote[r][lic[r]] = NoCount THEN used[lic[r]] ELSE wrote[r][lic[r]]]
    /\ Goto(r, "dirWriteUsed")
    /\ UNCHANGED <<tables, locals, lic, todo, who, limit, wrote>>

\* Mutant of OneLess: the counter is not kept from going below zero.
OneLessUnclamped(n) == n - 1

\* Mutant of OneLess: a seat is given back without being taken off the counter.
NoneLess(n) == n

OneLess(n) == IF n = 0 THEN 0 ELSE n - 1

DirWriteUsed(r) ==
    /\ pc[r] = "dirWriteUsed"
    /\ Unlocked(r, lic[r])
    /\ wrote' = [wrote EXCEPT ![r][lic[r]] = OneLess(count[r])]
    /\ Goto(r, IF op[r] = "dirRemove" THEN "dirNextRow" ELSE "dirDelete")
    /\ UNCHANGED <<tables, locals, lic, todo, who, limit, count>>

\* unassignLicense: the row goes; one that is gone already rolls all back.
DirDelete(r) ==
    /\ pc[r] = "dirDelete"
    /\ NotEnded(r, targets[r])
    /\ \/ /\ targets[r] \subseteq Rows(NoRequest)
          /\ Publish(r, wrote[r], [i \in SeatIds |-> IF i \in targets[r]
                                                     THEN Deleted(i) ELSE seat[i]])
          /\ UNCHANGED <<total, staff>>
       \/ ~(targets[r] \subseteq Rows(NoRequest)) /\ Rollback(r)

\* remove: the user goes (once no transaction is inserting a row for it), and a
\* row committed since deleteMany stays, without a user (onDelete: SetNull).
DirDeleteUser(r) ==
    /\ pc[r] = "dirDeleteUser"
    /\ \A i \in SeatIds : seat[i].user = User(r) => seat[i].by = NoRequest
    /\ NotEnded(r, RowsOfUser(r, User(r)))
    /\ User(r) \in staff
    /\ staff' = staff \ {User(r)}
    /\ Publish(r, wrote[r],
               [i \in SeatIds |->
                  IF i \in ending[r] THEN Deleted(i)
                  ELSE IF i \in RowsOfUser(r, User(r))
                       THEN [seat[i] EXCEPT !.user = NoUser] ELSE seat[i]])
    /\ UNCHANGED total

DirArrive(r) ==
    \/ \E u \in staff :
          \/ \E l \in Licenses : StartDirAssign(r, l, u)
          \/ StartDirRemove(r, u)
    \/ \E i \in SeatIds : StartDirUnassign(r, i)

DirStatement(r) ==
    \/ DirRead(r)
    \/ DirFind(r)
    \/ DirInsert(r)
    \/ DirFindRows(r)
    \/ DirNextRow(r)
    \/ DirReadUsed(r)
    \/ DirWriteUsed(r)
    \/ DirDelete(r)
    \/ DirDeleteUser(r)

DirNext == Next \/ \E r \in Requests : DirArrive(r) \/ DirStatement(r)

DirSpec == Init /\ [][DirNext]_vars
-----------------------------------------------------------------------------
(* Properties.                                                             *)

\* One request at a time, the counter the directory trusts never exceeds the
\* seats taken: it never refuses a seat that is free.
UsedNotOverstated == \A l \in Licenses : used[l] <= Cardinality(Active(l))
=============================================================================
