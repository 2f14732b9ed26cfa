---------------------------- MODULE LicenseSeats ----------------------------
(***************************************************************************)
(* Seats of software licenses: LicensesService.assignUser, revokeUser,     *)
(* batchAssignUsers, batchAssignLicensesToUser and update                  *)
(* (apps/api/src/modules/licenses/licenses.service.ts).                    *)
(*                                                                         *)
(* Each endpoint is one interactive Prisma transaction, which PostgreSQL   *)
(* runs at READ COMMITTED: every statement sees the rows committed before  *)
(* it and the transaction's own, an updated row stays locked until the     *)
(* commit, and nothing else keeps two transactions apart (LicenseAssignment *)
(* has no unique index).  A step below is one statement; an insert, which  *)
(* nobody else sees before the commit, joins the statement it depends on.  *)
(***************************************************************************)
EXTENDS Naturals, FiniteSetsExt, Functions

CONSTANTS
    Licenses, Users, Requests,
    MaxRows,     \* bound: assignment rows ever inserted
    MaxSeats,    \* bound: the largest License.totalSeats
    Unlimited,   \* licenses of type OPEN_SOURCE or OEM
    Endpoints,   \* which endpoints are called
    NoUser,      \* a seat given to a name and an email, no directory user
    NoLicense, NoRequest, NoCount

ASSUME SeatsAssumption ==
    /\ MaxSeats \in Nat \ {0}
    /\ MaxRows \in Nat
    /\ IsFiniteSet(Requests) /\ IsFiniteSet(Users)
    /\ Unlimited \subseteq Licenses
    /\ NoUser \notin Users /\ NoLicense \notin Licenses
    /\ NoRequest \notin Requests
    /\ NoCount \notin Nat

SeatIds == 1 .. MaxRows

\* A row id: its state, and the transaction that has inserted it and not committed.
Row == [lic : Licenses \cup {NoLicense}, user : Users \cup {NoUser},
        st : {"unused", "open", "closed", "deleted"},
        by : Requests \cup {NoRequest}]
Unused == [lic |-> NoLicense, user |-> NoUser, st |-> "unused", by |-> NoRequest]

VARIABLES
    total,   \* License.totalSeats
    used,    \* License.usedSeats, as committed
    seat,    \* LicenseAssignment by row id
    staff,   \* DirectoryUser rows
    pc, op,
    lic,     \* the license a request works on
    todo,    \* the licenses a bundle has yet to reach
    who,     \* the users to seat
    targets, \* the rows to revoke
    limit,   \* totalSeats as the transaction read it
    count,   \* the number of open rows it counted
    ending,  \* rows it has ended and not committed
    wrote,   \* usedSeats it has written and not committed: the locked licenses
    alone    \* history: no other request has run since it began

vars == <<total, used, seat, staff, pc, op, lic, todo, who, targets, limit, count,
          ending, wrote, alone>>
tables == <<total, used, seat, staff>>
locals == <<op, targets, ending, alone>>

Clean == [l \in Licenses |-> NoCount]

TypeOK ==
    /\ total \in [Licenses -> 1 .. MaxSeats]
    /\ used \in [Licenses -> Nat]
    /\ seat \in [SeatIds -> Row]
    /\ staff \subseteq Users
    /\ \A r \in Requests :
          /\ lic[r] \in Licenses \cup {NoLicense}
          /\ todo[r] \subseteq Licenses
          /\ who[r] \subseteq Users \cup {NoUser}
          /\ targets[r] \subseteq SeatIds
          /\ limit[r] \in 0 .. MaxSeats
          /\ count[r] \in Nat
          /\ ending[r] \subseteq SeatIds
          /\ wrote[r] \in [Licenses -> Nat \cup {NoCount}]

Init ==
    /\ total \in [Licenses -> 1 .. MaxSeats]
    /\ used = [l \in Licenses |-> 0]
    /\ seat = [i \in SeatIds |-> Unused]
    /\ staff = Users
    /\ pc = [r \in Requests |-> "idle"]
    /\ op = [r \in Requests |-> "none"]
    /\ lic = [r \in Requests |-> NoLicense]
    /\ todo = [r \in Requests |-> {}]
    /\ who = [r \in Requests |-> {}]
    /\ targets = [r \in Requests |-> {}]
    /\ limit = [r \in Requests |-> 0]
    /\ count = [r \in Requests |-> 0]
    /\ ending = [r \in Requests |-> {}]
    /\ wrote = [r \in Requests |-> Clean]
    /\ alone = [r \in Requests |-> FALSE]

\* The rows a statement of request r sees, and those of them that hold a seat of l.
Rows(r) == {i \in SeatIds : /\ seat[i].st \in {"open", "closed"}
                             /\ seat[i].by \in {r, NoRequest}}
OpenSeats(r, l) ==
    {i \in Rows(r) \ ending[r] : seat[i].lic = l /\ seat[i].st = "open"}

\* What everyone else sees: the seats of l taken, as committed.
Active(l) == {i \in Rows(NoRequest) : seat[i].lic = l /\ seat[i].st = "open"}

\* No other transaction holds the row of license l.
Unlocked(r, l) == \A q \in Requests \ {r} : wrote[q][l] = NoCount

Goto(r, step) == pc' = [pc EXCEPT ![r] = step]

\* The transaction is over and with it all the request holds.
Reset(r) ==
    /\ pc' = [pc EXCEPT ![r] = "idle"]
    /\ op' = [op EXCEPT ![r] = "none"]
    /\ lic' = [lic EXCEPT ![r] = NoLicense]
    /\ todo' = [todo EXCEPT ![r] = {}]
    /\ who' = [who EXCEPT ![r] = {}]
    /\ targets' = [targets EXCEPT ![r] = {}]
    /\ limit' = [limit EXCEPT ![r] = 0]
    /\ count' = [count EXCEPT ![r] = 0]
    /\ ending' = [ending EXCEPT ![r] = {}]
    /\ wrote' = [wrote EXCEPT ![r] = Clean]
    /\ UNCHANGED alone

\* COMMIT: the rows and the usedSeats the transaction wrote are there to read.
Publish(r, writes, newSeat) ==
    /\ seat' = newSeat
    /\ used' = [l \in Licenses |->
                  IF writes[l] = NoCount THEN used[l] ELSE writes[l]]
    /\ Reset(r)

\* The rows it inserted appear, the ones it ended are unassigned.
Revealed(r) ==
    [i \in SeatIds |-> IF i \in ending[r] THEN [seat[i] EXCEPT !.st = "closed"]
                       ELSE IF seat[i].by = r THEN [seat[i] EXCEPT !.by = NoRequest]
                       ELSE seat[i]]

\* ROLLBACK.
Rollback(r) ==
    /\ seat' = [i \in SeatIds |-> IF seat[i].by = r THEN Unused ELSE seat[i]]
    /\ Reset(r)
    /\ UNCHANGED <<total, used, staff>>

Begin(r, kind, step) ==
    /\ kind \in Endpoints
    /\ pc[r] = "idle"
    /\ Goto(r, step)
    /\ op' = [op EXCEPT ![r] = kind]
    /\ alone' = [q \in Requests |->
                   q = r /\ \A p \in Requests \ {r} : pc[p] = "idle"]
    /\ UNCHANGED <<tables, limit, count, ending, wrote>>

-----------------------------------------------------------------------------
(* Requests arrive.                                                        *)

StartAssign(r, l, u) ==
    /\ Begin(r, "assign", "readLicense")
    /\ lic' = [lic EXCEPT ![r] = l]
    /\ who' = [who EXCEPT ![r] = {u}]
    /\ UNCHANGED <<todo, targets>>

StartBatch(r, l, U) ==
    /\ Begin(r, "batch", "readLicense")
    /\ lic' = [lic EXCEPT ![r] = l]
    /\ who' = [who EXCEPT ![r] = U]
    /\ UNCHANGED <<todo, targets>>

StartBundle(r, u, L) ==
    /\ Begin(r, "bundle", "next")
    /\ todo' = [todo EXCEPT ![r] = L]
    /\ who' = [who EXCEPT ![r] = {u}]
    /\ UNCHANGED <<lic, targets>>

\* revokeUser accepts a row that is already unassigned.
StartRevoke(r, i) ==
    /\ i \in Rows(NoRequest)
    /\ Begin(r, "revoke", "endSeat")
    /\ lic' = [lic EXCEPT ![r] = seat[i].lic]
    /\ targets' = [targets EXCEPT ![r] = {i}]
    /\ UNCHANGED <<todo, who>>

StartUpdate(r, l) ==
    /\ Begin(r, "update", "writeTotal")
    /\ lic' = [lic EXCEPT ![r] = l]
    /\ UNCHANGED <<todo, who, targets>>

-----------------------------------------------------------------------------
(* The statements of a transaction.                                        *)

\* The bundle turns to its next license, in the order of the payload, or commits.
NextLicense(r) ==
    /\ pc[r] = "next"
    /\ \/ \E l \in todo[r] :
             /\ lic' = [lic EXCEPT ![r] = l]
             /\ todo' = [todo EXCEPT ![r] = @ \ {l}]
             /\ Goto(r, "readLicense")
             /\ UNCHANGED <<tables, locals, who, limit, count, wrote>>
       \/ /\ todo[r] = {}
          /\ Publish(r, wrote[r], Revealed(r))
          /\ UNCHANGED <<total, staff>>

\* This license gets no seat: the bundle goes on, the others return or throw.
Skip(r) ==
    \/ /\ op[r] = "bundle"
       /\ Goto(r, "next")
       /\ UNCHANGED <<tables, locals, lic, todo, who, limit, count, wrote>>
    \/ op[r] # "bundle" /\ Rollback(r)

ReadLicense(r) ==
    /\ pc[r] = "readLicense"
    /\ limit' = [limit EXCEPT ![r] = total[lic[r]]]
    /\ Goto(r, "findSeat")
    /\ UNCHANGED <<tables, locals, lic, todo, who, count, wrote>>

\* Mutant of Unseated: the seats users hold are not looked up.
UnseatedUnchecked(r) == who[r]

\* The users who hold no open seat; an email-only seat is not looked for.
Unseated(r) ==
    {u \in who[r] : u = NoUser \/ \A i \in OpenSeats(r, lic[r]) : seat[i].user # u}

FindSeat(r) ==
    /\ pc[r] = "findSeat"
    /\ \/ Unseated(r) = {} /\ Skip(r)
       \/ /\ Unseated(r) # {}
          /\ who' = [who EXCEPT ![r] = Unseated(r)]
          /\ Goto(r, "countSeats")
          /\ UNCHANGED <<tables, locals, lic, todo, limit, count, wrote>>

\* Mutant of Room: the seats already taken are not counted.
RoomIgnoresSeats(r) == IF lic[r] \in Unlimited THEN Cardinality(who[r]) ELSE limit[r]

\* Mutant of Room: one seat too many (> for >=).
RoomOffByOne(r) ==
    LET n == Cardinality(OpenSeats(r, lic[r]))
    IN  IF lic[r] \in Unlimited THEN Cardinality(who[r])
        ELSE IF n > limit[r] THEN 0 ELSE limit[r] - n + 1

\* How many of the users still fit, by the limit read before.
Room(r) ==
    LET n == Cardinality(OpenSeats(r, lic[r]))
    IN  IF lic[r] \in Unlimited THEN Cardinality(who[r])
        ELSE IF n >= limit[r] THEN 0 ELSE limit[r] - n

\* The next n row ids.
Fresh(n) ==
    LET unused == {i \in SeatIds : seat[i].st = "unused"}
    IN  {i \in unused : Cardinality({j \in unused : j < i}) < n}

\* licenseAssignment.create for each user of U that exists.
Insert(r, U) ==
    \E f \in Injection(U \cap (staff \cup {NoUser}), Fresh(Cardinality(U))) :
        seat' = [i \in SeatIds |->
                   IF i \in Range(f)
                   THEN [lic |-> lic[r], user |-> CHOOSE u \in DOMAIN f : f[u] = i,
                         st |-> "open", by |-> r]
                   ELSE seat[i]]

\* Count, check the capacity, seat as many as fit.  Nobody locks the license, so
\* two transactions can count the same free seat.  A batch leaves out users that do
\* not exist; for the others the insert fails (Abort).
CountSeats(r) ==
    /\ pc[r] = "countSeats"
    /\ \/ Room(r) = 0 /\ Skip(r)
       \/ /\ Room(r) > 0
          /\ op[r] = "batch" \/ who[r] \subseteq staff \cup {NoUser}
          /\ \E U \in kSubset(Min({Room(r), Cardinality(who[r])}), who[r]) :
                Insert(r, U)
          /\ count' = [count EXCEPT ![r] = Cardinality(OpenSeats(r, lic[r])) + 1]
          /\ Goto(r, IF op[r] = "bundle" THEN "writeUsed" ELSE "recount")
          /\ UNCHANGED <<total, used, staff, locals, lic, todo, who, limit, wrote>>

\* No other transaction has written, and so locked, a row of S.
NotEnded(r, S) == \A q \in Requests \ {r} : S \cap ending[q] = {}

\* findFirst and update of the row to revoke; a row deleted meanwhile throws, a
\* row another transaction has ended is waited for.
EndSeat(r) ==
    /\ pc[r] = "endSeat"
    /\ NotEnded(r, targets[r])
    /\ \/ /\ targets[r] \subseteq Rows(NoRequest)
          /\ ending' = [ending EXCEPT ![r] = targets[r]]
          /\ Goto(r, "recount")
          /\ UNCHANGED <<tables, op, lic, todo, who, targets, limit, count, wrote, alone>>
       \/ ~(targets[r] \subseteq Rows(NoRequest)) /\ Rollback(r)

\* Mutant of Recount: the stored counter adjusted instead of the rows counted.
RecountByDelta(r) ==
    /\ pc[r] = "recount"
    /\ count' = [count EXCEPT ![r] =
          IF op[r] # "revoke" THEN used[lic[r]] + 1
          ELSE IF used[lic[r]] = 0 THEN 0 ELSE used[lic[r]] - 1]
    /\ Goto(r, "writeUsed")
    /\ UNCHANGED <<tables, locals, lic, todo, who, limit, wrote>>

Recount(r) ==
    /\ pc[r] = "recount"
    /\ count' = [count EXCEPT ![r] = Cardinality(OpenSeats(r, lic[r]))]
    /\ Goto(r, "writeUsed")
    /\ UNCHANGED <<tables, locals, lic, todo, who, limit, wrote>>

\* license.update of usedSeats: the last statement, and the commit, but for a bundle.
WriteUsed(r) ==
    /\ pc[r] = "writeUsed"
    /\ Unlocked(r, lic[r])
    /\ LET writes == [wrote[r] EXCEPT ![lic[r]] = count[r]]
       IN  \/ /\ op[r] = "bundle"
              /\ wrote' = [wrote EXCEPT ![r] = writes]
              /\ Goto(r, "next")
              /\ UNCHANGED <<tables, locals, lic, todo, who, limit, count>>
           \/ /\ op[r] # "bundle"
              /\ Publish(r, writes, Revealed(r))
              /\ UNCHANGED <<total, staff>>

\* The transaction times out, loses a deadlock or its connection.
Abort(r) ==
    /\ pc[r] # "idle"
    /\ Rollback(r)

\* Mutant of WriteTotal: the payload's totalSeats is not validated.
WriteTotalUnchecked(r) ==
    /\ pc[r] = "writeTotal"
    /\ Unlocked(r, lic[r])
    /\ \E n \in 0 .. MaxSeats : total' = [total EXCEPT ![lic[r]] = n]
    /\ Reset(r)
    /\ UNCHANGED <<used, seat, staff>>

\* license.update of totalSeats (1 or more), below the seats in use if asked to.
WriteTotal(r) ==
    /\ pc[r] = "writeTotal"
    /\ Unlocked(r, lic[r])
    /\ \E n \in 1 .. MaxSeats : total' = [total EXCEPT ![lic[r]] = n]
    /\ Reset(r)
    /\ UNCHANGED <<used, seat, staff>>

Arrive(r) ==
    \/ \E l \in Licenses :
          \/ \E u \in staff \cup {NoUser} : StartAssign(r, l, u)
          \/ \E U \in (SUBSET Users) \ {{}} : StartBatch(r, l, U)
          \/ StartUpdate(r, l)
    \/ \E u \in staff, L \in (SUBSET Licenses) \ {{}} : StartBundle(r, u, L)
    \/ \E i \in SeatIds : StartRevoke(r, i)

Statement(r) ==
    \/ NextLicense(r)
    \/ ReadLicense(r)
    \/ FindSeat(r)
    \/ CountSeats(r)
    \/ EndSeat(r)
    \/ Recount(r)
    \/ WriteUsed(r)
    \/ WriteTotal(r)

Next == \E r \in Requests : Arrive(r) \/ Statement(r) \/ Abort(r)

Spec == Init /\ [][Next]_vars
-----------------------------------------------------------------------------
(* Properties.                                                             *)

\* A directory user holds one seat of a license at a time.
NoDoubleSeat ==
    \A l \in Licenses : \A i, j \in Active(l) :
        seat[i].user = seat[j].user /\ seat[i].user # NoUser => i = j

\* Two assignments that race count the same free seat and both take it, and
\* assignLicense of the directory trusts a usedSeats that may be behind.  An endpoint
\* of LicensesService that no other request overlapped never seats beyond the total,
\* whatever races and the directory did before.
AloneWithinCapacity ==
    [][\A r \in Requests : \A l \in Licenses \ Unlimited :
          /\ alone[r] /\ (WriteUsed(r) \/ NextLicense(r))
          /\ Cardinality(Active(l))' > Cardinality(Active(l))
          => Cardinality(Active(l))' <= total'[l]]_vars

\* However transactions race, the overshoot is bounded: each of them checked the
\* capacity against all that was committed, so they can at most each fill the
\* license once.
OvershootBounded ==
    \A l \in Licenses \ Unlimited :
        Cardinality(Active(l)) <= MaxSeats * Cardinality(Requests)

\* Drift heals: a seat operation that no other overlapped leaves usedSeats equal
\* to the active assignments, whatever usedSeats was before.
AloneHeals ==
    [][\A r \in Requests :
          alone[r] /\ op[r] # "bundle" /\ WriteUsed(r)
          => \A l \in {lic[r]} : used'[l] = Cardinality(Active(l))']_vars
=============================================================================
