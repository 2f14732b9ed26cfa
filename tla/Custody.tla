------------------------------ MODULE Custody ------------------------------
(***************************************************************************)
(* Custody of physical assets: AssetsService.allocate, returnUnits,        *)
(* returnAsset, transfer, batchAssign, attachHandoverDocument, update,     *)
(* updateUnit, deleteUnit, remove and batchDelete                          *)
(* (apps/api/src/modules/assets/assets.service.ts), and the parts of       *)
(* DirectoryService that reach them: assignAsset calls allocate,           *)
(* unassignAsset calls returnUnits, remove releases the user's assets.     *)
(*                                                                         *)
(* Transactions run at READ COMMITTED.  A step reads, or it makes the last *)
(* writes of a transaction and commits; the writes of one transaction that *)
(* others could wait for in between (resolved records, released assets)    *)
(* are kept as locks of the request.                                       *)
(***************************************************************************)
EXTENDS Naturals, FiniteSets, SequencesExt

CONSTANTS
    Assets, Users, Requests,
    MaxRecords,   \* bound: handover records ever created
    Endpoints,    \* which endpoints are called
    Overrides,    \* statuses a batchAssign or update payload may name
    NoUser

ASSUME CustodyAssumption ==
    /\ MaxRecords \in Nat /\ IsFiniteSet(Assets)
    /\ Overrides \subseteq {"AVAILABLE", "IN_USE", "MAINTENANCE", "RETIRED"}
    /\ NoUser \notin Users

Status == {"AVAILABLE", "IN_USE", "MAINTENANCE", "RETIRED", "deleted"}

\* Mutant of ReturnStatus: the payload is stored without mapAssetStatus.
ReturnStatusUnmapped == {"AVAILABLE", "IN STORAGE", "MAINTENANCE", "IN REPAIR", "RETIRED"}

ReturnStatus == {"AVAILABLE", "MAINTENANCE", "RETIRED"}
Holder == Users \cup {NoUser}

\* AssetHandoverRecord; transfer: its notes name a custody transfer.
Record == [asset : Assets, type : {"ASSIGNMENT", "RETURN"}, to : Holder,
           pending : BOOLEAN, transfer : BOOLEAN]

VARIABLES
    unit,      \* Asset: status, holder (assignedToId), flag (hasPendingRecord)
    ledger,    \* AssetHandoverRecord, in the order of creation
    staff,     \* DirectoryUser
    pc, op,
    units,     \* the assets a request is about
    who,       \* the recipient, or the user a directory request is about
    doc,       \* a signed document came with the request
    seen,      \* the holders it has read
    status,    \* the status it has read
    resolved,  \* records it has updated and not committed
    released,  \* assets it has updated and not committed
    left,      \* attach: records are still pending
    alone      \* history: no other request has run since it began

vars == <<unit, ledger, staff, pc, op, units, who, doc, seen, status, resolved,
          released, left, alone>>
tables == <<unit, ledger, staff>>
request == <<op, units, who, doc, alone>>

Unseen == [a \in Assets |-> NoUser]

TypeOK ==
    /\ unit \in [Assets -> [status : Status, holder : Holder, flag : BOOLEAN]]
    /\ ledger \in Seq(Record) /\ Len(ledger) <= MaxRecords
    /\ staff \in [Users -> {"active", "suspended", "gone"}]
    /\ units \in [Requests -> SUBSET Assets]
    /\ who \in [Requests -> Holder]
    /\ doc \in [Requests -> BOOLEAN]
    /\ seen \in [Requests -> [Assets -> Holder]]
    /\ status \in [Requests -> Status]
    /\ resolved \in [Requests -> SUBSET (1 .. MaxRecords)]
    /\ released \in [Requests -> SUBSET Assets]
    /\ left \in [Requests -> BOOLEAN]

Init ==
    /\ unit = [a \in Assets |-> [status |-> "AVAILABLE", holder |-> NoUser,
                                 flag |-> FALSE]]
    /\ ledger = <<>>
    /\ staff = [u \in Users |-> "active"]
    /\ pc = [r \in Requests |-> "idle"]
    /\ op = [r \in Requests |-> "none"]
    /\ units = [r \in Requests |-> {}]
    /\ who = [r \in Requests |-> NoUser]
    /\ doc = [r \in Requests |-> FALSE]
    /\ seen = [r \in Requests |-> Unseen]
    /\ status = [r \in Requests |-> "AVAILABLE"]
    /\ resolved = [r \in Requests |-> {}]
    /\ released = [r \in Requests |-> {}]
    /\ left = [r \in Requests |-> FALSE]
    /\ alone = [r \in Requests |-> FALSE]

\* A recipient the foreign key accepts: nobody, or a user whose row exists.
Exists(u) == u \in {v \in Users : staff[v] # "gone"} \cup {NoUser}
Live == {a \in Assets : unit[a].status # "deleted"}

\* The records of a deleted asset are deleted with it (Cascade): they keep their
\* place in the sequence, and nobody finds them.
RecordsOf(a) == {i \in DOMAIN ledger : ledger[i].asset = a /\ a \in Live}
PendingOf(a) == {i \in RecordsOf(a) : ledger[i].pending}

\* The asset of a request about one.
Unit(r) == CHOOSE a \in units[r] : TRUE

\* The rows are not locked by another transaction.
FreeUnits(r, S) == \A q \in Requests \ {r} : S \cap released[q] = {}
FreeRecords(r, S) == \A q \in Requests \ {r} : S \cap resolved[q] = {}

Goto(r, step) == pc' = [pc EXCEPT ![r] = step]

Reset(r) ==
    /\ pc' = [pc EXCEPT ![r] = "idle"]
    /\ op' = [op EXCEPT ![r] = "none"]
    /\ units' = [units EXCEPT ![r] = {}]
    /\ who' = [who EXCEPT ![r] = NoUser]
    /\ doc' = [doc EXCEPT ![r] = FALSE]
    /\ seen' = [seen EXCEPT ![r] = Unseen]
    /\ status' = [status EXCEPT ![r] = "AVAILABLE"]
    /\ resolved' = [resolved EXCEPT ![r] = {}]
    /\ released' = [released EXCEPT ![r] = {}]
    /\ left' = [left EXCEPT ![r] = FALSE]
    /\ UNCHANGED alone

\* The request throws, times out, or loses a deadlock: all it wrote is undone.
Abort(r) ==
    /\ pc[r] # "idle"
    /\ Reset(r)
    /\ UNCHANGED tables

Refuse(r) == Reset(r) /\ UNCHANGED tables

Begin(r, kind, S, u, signed, step) ==
    /\ kind \in Endpoints
    /\ pc[r] = "idle"
    /\ Goto(r, step)
    /\ op' = [op EXCEPT ![r] = kind]
    /\ units' = [units EXCEPT ![r] = S]
    /\ who' = [who EXCEPT ![r] = u]
    /\ doc' = [doc EXCEPT ![r] = signed]
    /\ alone' = [q \in Requests |->
                   q = r /\ \A p \in Requests \ {r} : pc[p] = "idle"]
    /\ UNCHANGED <<tables, seen, status, resolved, released, left>>

\* COMMIT: the assets in S get their new rows, the records in resolved[r] are no
\* longer pending, and the records added come at the end of the ledger.
Commit(r, S, rows, added) ==
    /\ S \subseteq Live /\ FreeUnits(r, S)
    /\ \A i \in DOMAIN added : Exists(added[i].to)
    /\ Len(ledger) + Len(added) <= MaxRecords
    /\ unit' = [a \in Assets |-> IF a \in S THEN rows[a] ELSE unit[a]]
    /\ ledger' = [i \in DOMAIN ledger |->
                    IF i \in resolved[r] THEN [ledger[i] EXCEPT !.pending = FALSE]
                    ELSE ledger[i]] \o added
    /\ Reset(r)
    /\ UNCHANGED staff

\* Mutant of NewRecord: a record without a document is not left pending.
NewRecordSettled(r, a, kind, u, moved) ==
    [asset |-> a, type |-> kind, to |-> u, pending |-> FALSE, transfer |-> moved]

NewRecord(r, a, kind, u, moved) ==
    [asset |-> a, type |-> kind, to |-> u, pending |-> ~doc[r], transfer |-> moved]

\* One record for each asset of S: to[a] is its recipient.
RecordEach(r, S, kind, to) ==
    LET order == SetToSeq(S)
    IN  [k \in 1 .. Len(order) |-> NewRecord(r, order[k], kind, to[order[k]], FALSE)]

\* The same row, and the same recipient, for every asset.
Row(r, s, u) == [a \in Assets |-> [status |-> s, holder |-> u, flag |-> ~doc[r]]]
To(u) == [a \in Assets |-> u]

-----------------------------------------------------------------------------
(* Requests arrive; the ones about a recipient have read its status.       *)

StartAllocate(r, S, u, signed) ==
    staff[u] = "active" /\ Begin(r, "allocate", S, u, signed, "checkAvailable")

StartReturn(r, S, signed) == Begin(r, "return", S, NoUser, signed, "checkIssued")

StartTransfer(r, a, u, signed) ==
    staff[u] = "active" /\ Begin(r, "transfer", {a}, u, signed, "checkTransfer")

\* A null recipient unassigns; the recipient's status is not looked at.
StartBatch(r, S, u, signed) ==
    Exists(u) /\ Begin(r, "batch", S, u, signed, "readBatch")

StartAttach(r, a) == a \in Live /\ Begin(r, "attach", {a}, NoUser, TRUE, "readHolder")

StartEdit(r, a, u) == a \in Live /\ Begin(r, "update", {a}, u, FALSE, "readStatus")

StartDelete(r, a) == a \in Live /\ Begin(r, "delete", {a}, NoUser, FALSE, "checkFree")

StartDirUnassign(r, a, u) ==
    /\ a \in Live /\ unit[a].holder = u
    /\ Begin(r, "dirUnassign", {a}, u, FALSE, "checkIssued")

StartDirRemove(r, u) ==
    /\ staff[u] # "gone"
    /\ Begin(r, "dirRemove", {}, u, FALSE, "release")

-----------------------------------------------------------------------------
(* allocate, returnUnits and returnAsset.                                  *)

\* The holders as read by findMany.
See(r) == seen' = [seen EXCEPT ![r] = [a \in Assets |-> unit[a].holder]]

\* Mutant of CheckAvailable: only that the assets exist is checked.
CheckExisting(r) ==
    /\ pc[r] = "checkAvailable"
    /\ units[r] \subseteq Live
    /\ Goto(r, "allocate")
    /\ UNCHANGED <<tables, request, seen, status, resolved, released, left>>

CheckAvailable(r) ==
    /\ pc[r] = "checkAvailable"
    /\ \/ /\ \A a \in units[r] : unit[a].status = "AVAILABLE" /\ unit[a].holder = NoUser
          /\ Goto(r, "allocate")
          /\ UNCHANGED <<tables, request, seen, status, resolved, released, left>>
       \/ /\ \E a \in units[r] : unit[a].status # "AVAILABLE" \/ unit[a].holder # NoUser
          /\ Refuse(r)

\* Mutant of Allocate: the assets are given out without a handover record.
AllocateUnrecorded(r) ==
    /\ pc[r] = "allocate"
    /\ Exists(who[r])
    /\ Commit(r, units[r], Row(r, "IN_USE", who[r]), <<>>)

\* updateMany by id alone: the check is not repeated.
Allocate(r) ==
    /\ pc[r] = "allocate"
    /\ Exists(who[r])
    /\ Commit(r, units[r], Row(r, "IN_USE", who[r]),
              RecordEach(r, units[r], "ASSIGNMENT", To(who[r])))

CheckIssued(r) ==
    /\ pc[r] = "checkIssued"
    /\ \/ /\ \A a \in units[r] : unit[a].status = "IN_USE"
          /\ See(r)
          /\ Goto(r, "return")
          /\ UNCHANGED <<tables, request, status, resolved, released, left>>
       \/ (\E a \in units[r] : unit[a].status # "IN_USE") /\ Refuse(r)

\* Mutant of Return: the asset keeps its holder.
ReturnKeepsHolder(r) ==
    /\ pc[r] = "return"
    /\ \E s \in ReturnStatus :
          Commit(r, units[r], Row(r, s, seen[r][Unit(r)]),
                 RecordEach(r, units[r], "RETURN", seen[r]))

Return(r) ==
    /\ pc[r] = "return"
    /\ \E s \in IF op[r] = "dirUnassign" THEN {"AVAILABLE"} ELSE ReturnStatus :
          Commit(r, units[r], Row(r, s, NoUser),
                 RecordEach(r, units[r], "RETURN", seen[r]))

-----------------------------------------------------------------------------
(* transfer, of one asset (several are the same loop in one transaction).  *)

CheckTransfer(r) ==
    /\ pc[r] = "checkTransfer"
    /\ LET ok == unit[Unit(r)].status = "IN_USE" /\ unit[Unit(r)].holder # who[r]
       IN  \/ /\ ok
              /\ See(r)
              /\ Goto(r, "supersede")
              /\ UNCHANGED <<tables, request, status, resolved, released, left>>
           \/ ~ok /\ Refuse(r)

\* updateMany of the releasing custodian's pending assignments.
Supersede(r) ==
    /\ pc[r] = "supersede"
    /\ LET prior == {i \in PendingOf(Unit(r)) : /\ ledger[i].type = "ASSIGNMENT"
                                                /\ ledger[i].to = seen[r][Unit(r)]
                                                /\ ledger[i].to # NoUser}
       IN  /\ FreeRecords(r, prior)
           /\ resolved' = [resolved EXCEPT ![r] = prior]
    /\ Goto(r, "transfer")
    /\ UNCHANGED <<tables, request, seen, status, released, left>>

\* Mutant of Transfer: the two records are written in the wrong order.
TransferSwapped(r) ==
    /\ pc[r] = "transfer"
    /\ Commit(r, units[r], Row(r, "IN_USE", who[r]),
              <<NewRecord(r, Unit(r), "ASSIGNMENT", who[r], TRUE),
                NewRecord(r, Unit(r), "RETURN", seen[r][Unit(r)], TRUE)>>)

Transfer(r) ==
    /\ pc[r] = "transfer"
    /\ Commit(r, units[r], Row(r, "IN_USE", who[r]),
              <<NewRecord(r, Unit(r), "RETURN", seen[r][Unit(r)], TRUE),
                NewRecord(r, Unit(r), "ASSIGNMENT", who[r], TRUE)>>)

-----------------------------------------------------------------------------
(* batchAssign: any existing asset, whoever holds it.                      *)

ReadBatch(r) ==
    /\ pc[r] = "readBatch"
    /\ units' = [units EXCEPT ![r] = @ \cap Live]
    /\ See(r)
    /\ Goto(r, "batch")
    /\ UNCHANGED <<tables, op, who, doc, alone, status, resolved, released, left>>

\* The assets for which an unassigning batch writes no record.
Unheld(r) == {a \in units[r] : who[r] = NoUser /\ seen[r][a] = NoUser}

\* Mutant of Batch: a batch that unassigns writes no return.
BatchUnrecorded(r) ==
    /\ pc[r] = "batch"
    /\ \E s \in Overrides \cup {IF who[r] = NoUser THEN "AVAILABLE" ELSE "IN_USE"} :
          Commit(r, units[r], Row(r, s, who[r]),
                 IF who[r] # NoUser
                 THEN RecordEach(r, units[r], "ASSIGNMENT", To(who[r])) ELSE <<>>)

\* An assignment is recorded for each asset, or a return for each that was held;
\* an asset deleted since is skipped unless a record names it.
Batch(r) ==
    /\ pc[r] = "batch"
    /\ \E s \in Overrides \cup {IF who[r] = NoUser THEN "AVAILABLE" ELSE "IN_USE"} :
          Commit(r, {a \in units[r] : a \in Live \/ a \notin Unheld(r)}, Row(r, s, who[r]),
                 IF who[r] # NoUser
                 THEN RecordEach(r, units[r], "ASSIGNMENT", To(who[r]))
                 ELSE RecordEach(r, {a \in units[r] : seen[r][a] # NoUser},
                                 "RETURN", seen[r]))

-----------------------------------------------------------------------------
(* attachHandoverDocument.                                                 *)

\* The asset, and its holder, are read before the transaction.
ReadHolder(r) ==
    /\ pc[r] = "readHolder"
    /\ See(r)
    /\ Goto(r, "resolve")
    /\ UNCHANGED <<tables, request, status, resolved, released, left>>

Newest(S) == CHOOSE i \in S : \A j \in S : j <= i

\* Without a record id: the newest pending record, or, when that belongs to a
\* transfer, every pending record of a transfer.
DefaultTargets(a) ==
    IF PendingOf(a) = {} THEN {}
    ELSE IF ledger[Newest(PendingOf(a))].transfer
    THEN {i \in PendingOf(a) : ledger[i].transfer}
    ELSE {Newest(PendingOf(a))}

\* Find and update; with no record to update one is created at the commit.
Resolve(r) ==
    /\ pc[r] = "resolve"
    /\ \E S \in {DefaultTargets(Unit(r))} \cup {{i} : i \in RecordsOf(Unit(r))} :
          /\ FreeRecords(r, S)
          /\ resolved' = [resolved EXCEPT ![r] = S]
    /\ Goto(r, "countPending")
    /\ UNCHANGED <<tables, request, seen, status, released, left>>

\* Mutant of CountPending: one document clears the asset.
CountNothing(r) ==
    /\ pc[r] = "countPending"
    /\ left' = [left EXCEPT ![r] = FALSE]
    /\ Goto(r, "attach")
    /\ UNCHANGED <<tables, request, seen, status, resolved, released>>

CountPending(r) ==
    /\ pc[r] = "countPending"
    /\ left' = [left EXCEPT ![r] = PendingOf(Unit(r)) \ resolved[r] # {}]
    /\ Goto(r, "attach")
    /\ UNCHANGED <<tables, request, seen, status, resolved, released>>

\* hasPendingRecord by the count made before.
Attach(r) ==
    /\ pc[r] = "attach"
    /\ LET u == seen[r][Unit(r)]
       IN  Commit(r, units[r], [a \in Assets |-> [unit[a] EXCEPT !.flag = left[r]]],
                  IF resolved[r] # {} THEN <<>>
                  ELSE RecordEach(r, units[r],
                                  IF u = NoUser THEN "RETURN" ELSE "ASSIGNMENT", To(u)))

-----------------------------------------------------------------------------
(* update, updateUnit, deleteUnit, remove and batchDelete.                 *)

ReadStatus(r) ==
    /\ pc[r] = "readStatus"
    /\ unit[Unit(r)].status # "deleted"
    /\ status' = [status EXCEPT ![r] = unit[Unit(r)].status]
    /\ Goto(r, "edit")
    /\ UNCHANGED <<tables, request, seen, resolved, released, left>>

\* update: the holder changes, the status follows the status read before, unless
\* the payload names one.  No handover record is written.
Edit(r) ==
    /\ pc[r] = "edit"
    /\ Exists(who[r])
    /\ LET follow == IF who[r] # NoUser /\ status[r] = "AVAILABLE" THEN {"IN_USE"}
                     ELSE IF who[r] = NoUser /\ status[r] = "IN_USE" THEN {"AVAILABLE"}
                     ELSE {unit[Unit(r)].status}
       IN  \E s \in follow \cup Overrides :
              Commit(r, units[r],
                     [a \in Assets |-> [unit[a] EXCEPT !.status = s, !.holder = who[r]]],
                     <<>>)

\* updateUnit and update with a status alone.
SetStatus(a) ==
    /\ "setStatus" \in Endpoints
    /\ a \in Live /\ \A r \in Requests : a \notin released[r]
    /\ \E s \in Overrides : unit' = [unit EXCEPT ![a].status = s]
    /\ UNCHANGED <<ledger, staff, pc, request, seen, status, resolved, released, left>>

\* deleteUnit refuses an issued asset, and deletes in another statement.
CheckFree(r) ==
    /\ pc[r] = "checkFree"
    /\ LET issued == unit[Unit(r)].status = "IN_USE" \/ unit[Unit(r)].holder # NoUser
       IN  \/ /\ ~issued
              /\ Goto(r, "delete")
              /\ UNCHANGED <<tables, request, seen, status, resolved, released, left>>
           \/ issued /\ Refuse(r)

Deleted == [status |-> "deleted", holder |-> NoUser, flag |-> FALSE]

Delete(r) ==
    /\ pc[r] = "delete"
    /\ FreeRecords(r, RecordsOf(Unit(r)))
    /\ Commit(r, units[r], [a \in Assets |-> Deleted], <<>>)

\* remove and batchDelete delete an asset whoever holds it.
RemoveAsset(a) ==
    /\ "remove" \in Endpoints
    /\ a \in Live /\ \A r \in Requests : a \notin released[r]
    /\ \A r \in Requests : RecordsOf(a) \cap resolved[r] = {}
    /\ unit' = [unit EXCEPT ![a] = Deleted]
    /\ UNCHANGED <<ledger, staff, pc, request, seen, status, resolved, released, left>>

-----------------------------------------------------------------------------
(* DirectoryService.remove, and the status of a user.                      *)

\* updateMany of the user's assets; the licenses follow before the user goes.
Release(r) ==
    /\ pc[r] = "release"
    /\ LET held == {a \in Live : unit[a].holder = who[r]}
       IN  FreeUnits(r, held) /\ released' = [released EXCEPT ![r] = held]
    /\ Goto(r, "deleteUser")
    /\ UNCHANGED <<tables, request, seen, status, resolved, left>>

\* Mutant of DeleteUser: the assets lose their holder by the foreign key alone.
DeleteUserOnly(r) ==
    /\ pc[r] = "deleteUser"
    /\ Exists(who[r])
    /\ unit' = [a \in Assets |->
          IF unit[a].holder = who[r] THEN [unit[a] EXCEPT !.holder = NoUser] ELSE unit[a]]
    /\ ledger' = [i \in DOMAIN ledger |->
          IF ledger[i].to = who[r] THEN [ledger[i] EXCEPT !.to = NoUser] ELSE ledger[i]]
    /\ staff' = [staff EXCEPT ![who[r]] = "gone"]
    /\ Reset(r)

\* The commit; an asset assigned since Release loses its holder by the foreign
\* key (SetNull) and keeps its status, and so do the records their recipient.
DeleteUser(r) ==
    /\ pc[r] = "deleteUser"
    /\ Exists(who[r])
    /\ FreeUnits(r, {a \in Live : unit[a].holder = who[r]})
    /\ FreeRecords(r, {i \in DOMAIN ledger : ledger[i].to = who[r]})
    /\ unit' = [a \in Assets |->
          IF a \in released[r] THEN [unit[a] EXCEPT !.holder = NoUser, !.status = "AVAILABLE"]
          ELSE IF unit[a].holder = who[r] THEN [unit[a] EXCEPT !.holder = NoUser]
          ELSE unit[a]]
    /\ ledger' = [i \in DOMAIN ledger |->
          IF ledger[i].to = who[r] THEN [ledger[i] EXCEPT !.to = NoUser] ELSE ledger[i]]
    /\ staff' = [staff EXCEPT ![who[r]] = "gone"]
    /\ Reset(r)

Suspend(u) ==
    /\ "suspend" \in Endpoints
    /\ staff[u] # "gone"
    /\ \E s \in {"active", "suspended"} : staff' = [staff EXCEPT ![u] = s]
    /\ UNCHANGED <<unit, ledger, pc, request, seen, status, resolved, released, left>>

Groups == (SUBSET Assets) \ {{}}

Arrive(r) ==
    \/ \E S \in Groups, signed \in BOOLEAN :
          \/ \E u \in Users : StartAllocate(r, S, u, signed)
          \/ StartReturn(r, S, signed)
          \/ \E u \in Holder : StartBatch(r, S, u, signed)
    \/ \E a \in Assets :
          \/ \E u \in Users :
                \/ \E signed \in BOOLEAN : StartTransfer(r, a, u, signed)
                \/ StartDirUnassign(r, a, u)
          \/ \E u \in Holder : StartEdit(r, a, u)
          \/ StartAttach(r, a)
          \/ StartDelete(r, a)
    \/ \E u \in Users : StartDirRemove(r, u)

Step(r) ==
    \/ CheckAvailable(r) \/ Allocate(r)
    \/ CheckIssued(r) \/ Return(r)
    \/ CheckTransfer(r) \/ Supersede(r) \/ Transfer(r)
    \/ ReadBatch(r) \/ Batch(r)
    \/ ReadHolder(r) \/ Resolve(r) \/ CountPending(r) \/ Attach(r)
    \/ ReadStatus(r) \/ Edit(r)
    \/ CheckFree(r) \/ Delete(r)
    \/ Release(r) \/ DeleteUser(r)

Next ==
    \/ \E r \in Requests : Arrive(r) \/ Step(r) \/ Abort(r)
    \/ \E a \in Assets : SetStatus(a) \/ RemoveAsset(a)
    \/ \E u \in Users : Suspend(u)

Spec == Init /\ [][Next]_vars
-----------------------------------------------------------------------------
(* Properties.                                                             *)

\* An asset is in use exactly when somebody holds it.
HolderIffInUse ==
    \A a \in Live : unit[a].status = "IN_USE" <=> unit[a].holder # NoUser

\* Whoever holds an asset has a handover record for it.
HolderHasRecord ==
    \A a \in Live : unit[a].holder # NoUser =>
        \E i \in RecordsOf(a) : /\ ledger[i].type = "ASSIGNMENT"
                                /\ ledger[i].to = unit[a].holder

\* The newest record of an asset tells who holds it.
LedgerTellsHolder ==
    \A a \in Live : RecordsOf(a) # {} =>
        LET last == ledger[Newest(RecordsOf(a))]
        IN  unit[a].holder = IF last.type = "ASSIGNMENT" THEN last.to ELSE NoUser

\* The chain of custody: between the assignments of one asset to two users the
\* first has handed it back.
ChainUnbroken ==
    \A a \in Assets : \A i, j \in RecordsOf(a) :
        /\ i < j /\ ledger[i].type = "ASSIGNMENT" /\ ledger[j].type = "ASSIGNMENT"
        /\ ledger[i].to # ledger[j].to
        => \E k \in (i + 1) .. (j - 1) :
              /\ ledger[k].asset = a /\ ledger[k].type = "RETURN"
              /\ ledger[k].to = ledger[i].to

\* hasPendingRecord never outlives the records it announces: a flag has a record
\* that waits for its document (the converse fails: a return with a document clears
\* the flag over an unsigned assignment).
FlagHasRecord == \A a \in Live : unit[a].flag => PendingOf(a) # {}

\* A document attached while nothing else runs leaves the flag right, whatever it
\* was before.
AttachHeals ==
    [][\A r \in Requests : \A a \in units[r] :
          alone[r] /\ Attach(r)
          => unit'[a].flag = (PendingOf(a) # {})']_vars
=============================================================================
