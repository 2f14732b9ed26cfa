---------------------------- MODULE CustodyProof -----------------------------
(***************************************************************************)
(* Proofs about Custody, for any finite set of assets, any sets of users   *)
(* and requests, and any number of handover records.                       *)
(*                                                                         *)
(* The types hold whichever endpoints are called.  That an asset is in use *)
(* exactly when it is held, and that whoever holds it has a record for it, *)
(* is proved for all the endpoints but those that break it (update, a      *)
(* status by hand, and the removal of a directory user).  A request that   *)
(* runs alone mends the records of the assets it attaches a document to;   *)
(* and when requests come one at a time, and only endpoints are called     *)
(* that record both sides of a change of custody (batchAssign hands a held *)
(* asset on without its return), the ledger accounts for who holds what.   *)
(***************************************************************************)
EXTENDS Custody, FiniteSetTheorems, TLAPS

\* The order in which an endpoint goes through its assets reaches each of them.
LEMMA OrderReachesAll ==
    ASSUME NEW S \in SUBSET Assets
    PROVE  /\ SetToSeq(S) \in Seq(S)
           /\ \A a \in S : \E k \in 1 .. Len(SetToSeq(S)) : SetToSeq(S)[k] = a
<1> DEFINE n == Cardinality(S)
<1>1. IsFiniteSet(S) /\ n \in Nat
  BY FS_Subset, FS_CardinalityType, CustodyAssumption
<1>2. PICK g : g \in Bijection(1 .. n, S)
  BY <1>1, FS_CardinalityType DEF ExistsBijection
<1>3. g \in [1 .. n -> S] /\ IsInjective(g)
  BY <1>2 DEF Bijection, Injection
<1>4. SetToSeq(S) \in [1 .. n -> S] /\ IsInjective(SetToSeq(S))
  BY <1>3 DEF SetToSeq
<1>5. SetToSeq(S) \in Injection(1 .. n, S)
  BY <1>4 DEF Injection
<1>6. IsFiniteSet(1 .. n) /\ Cardinality(1 .. n) = n
  BY <1>1, FS_Interval
<1>7. SetToSeq(S) \in Surjection(1 .. n, S)
  BY <1>1, <1>5, <1>6, FS_Injection
<1>8. SetToSeq(S) \in Seq(S) /\ Len(SetToSeq(S)) = n
  BY <1>1, <1>4
<1> QED BY <1>7, <1>8 DEF Surjection

UnitRow == [status : Status, holder : Holder, flag : BOOLEAN]

TablesOK ==
    /\ unit \in [Assets -> UnitRow]
    /\ ledger \in Seq(Record) /\ Len(ledger) <= MaxRecords
    /\ staff \in [Users -> {"active", "suspended", "gone"}]

LocalsOK ==
    /\ units \in [Requests -> SUBSET Assets]
    /\ who \in [Requests -> Holder]
    /\ doc \in [Requests -> BOOLEAN]
    /\ seen \in [Requests -> [Assets -> Holder]]
    /\ status \in [Requests -> Status]
    /\ resolved \in [Requests -> SUBSET (1 .. MaxRecords)]
    /\ released \in [Requests -> SUBSET Assets]
    /\ left \in [Requests -> BOOLEAN]

\* The steps of requests that need not be about an asset, and those that hand one to a user:
\* a transfer is about one.
Unitless == {"idle", "readBatch", "batch", "release", "deleteUser"}
Moving == {"checkTransfer", "supersede", "transfer"}
Giving == {"checkAvailable", "allocate"} \cup Moving

StepsOK ==
    /\ pc = [r \in Requests |-> pc[r]]
    /\ \A r \in Requests : /\ pc[r] \notin Unitless => units[r] # {}
                           /\ pc[r] \in Giving => who[r] \in Users
                           /\ pc[r] \in Moving => \E a \in Assets : units[r] = {a}

TypeInv == TablesOK /\ LocalsOK /\ StepsOK

\* The asset of a request about one.
LEMMA UnitIs ==
    ASSUME TypeInv, NEW r \in Requests, pc[r] \notin Unitless
    PROVE  Unit(r) \in units[r] /\ Unit(r) \in Assets
  BY DEF TypeInv, LocalsOK, StepsOK, Unit

\* One record is written for each asset.
LEMMA RecordsWritten ==
    ASSUME TypeInv, NEW r \in Requests, NEW S \in SUBSET Assets, NEW kind \in {"ASSIGNMENT", "RETURN"},
           NEW to \in [Assets -> Holder]
    PROVE  /\ RecordEach(r, S, kind, to) \in Seq(Record)
           /\ \A a \in S : \E k \in DOMAIN RecordEach(r, S, kind, to) :
                 RecordEach(r, S, kind, to)[k] = NewRecord(r, a, kind, to[a], FALSE)
<1> DEFINE order == SetToSeq(S)
           rec(k) == NewRecord(r, order[k], kind, to[order[k]], FALSE)
<1>1. order \in Seq(S) /\ \A a \in S : \E k \in 1 .. Len(order) : order[k] = a
  BY OrderReachesAll
<1>2. Len(order) \in Nat /\ \A k \in 1 .. Len(order) : order[k] \in S
  BY <1>1
<1>3. doc[r] \in BOOLEAN
  BY DEF TypeInv, LocalsOK
<1>4. \A k \in 1 .. Len(order) : rec(k) \in Record
  BY <1>2, <1>3 DEF NewRecord, Record
<1>5. RecordEach(r, S, kind, to) = [k \in 1 .. Len(order) |-> rec(k)]
  BY DEF RecordEach
<1>6. RecordEach(r, S, kind, to) \in Seq(Record)
  <2> HIDE DEF rec, order
  <2> QED BY <1>2, <1>4, <1>5
<1>7. \A a \in S : \E k \in 1 .. Len(order) : rec(k) = NewRecord(r, a, kind, to[a], FALSE)
  BY <1>1
<1> QED
  <2> HIDE DEF rec, order
  <2> QED BY <1>5, <1>6, <1>7

\* A request that is over holds nothing.
LEMMA ResetTypes ==
    ASSUME TypeInv, NEW r \in Requests, Reset(r)
    PROVE  /\ LocalsOK' /\ StepsOK'
           /\ pc'[r] = "idle" /\ \A q \in Requests \ {r} : pc'[q] = pc[q]
<1>1. Unseen \in [Assets -> Holder] /\ NoUser \in Holder /\ "AVAILABLE" \in Status
  BY DEF Unseen, Holder, Status
<1>2. LocalsOK'
  BY <1>1 DEF TypeInv, LocalsOK, Reset
<1>3. pc' = [pc EXCEPT ![r] = "idle"] /\ units' = [units EXCEPT ![r] = {}] /\ who' = [who EXCEPT ![r] = NoUser]
  BY DEF Reset
<1>4. \A q \in Requests \ {r} : pc'[q] = pc[q] /\ units'[q] = units[q] /\ who'[q] = who[q]
  BY <1>3 DEF TypeInv, LocalsOK, StepsOK
<1>5. pc'[r] = "idle" /\ pc' = [q \in Requests |-> pc'[q]]
  BY <1>3 DEF TypeInv, StepsOK
<1> QED BY <1>2, <1>4, <1>5 DEF TypeInv, StepsOK, Unitless, Giving, Moving

\* What a commit leaves of the ledger, and adds to it.
LEMMA CommitLedger ==
    ASSUME TypeInv, NEW r \in Requests, NEW S, NEW rows, NEW added \in Seq(Record),
           Commit(r, S, rows, added)
    PROVE  /\ ledger' \in Seq(Record) /\ Len(ledger') <= MaxRecords
           /\ Len(ledger') = Len(ledger) + Len(added)
           /\ \A i \in DOMAIN ledger : /\ ledger'[i].asset = ledger[i].asset
                                       /\ ledger'[i].type = ledger[i].type
                                       /\ ledger'[i].to = ledger[i].to
           /\ \A k \in DOMAIN added : ledger'[Len(ledger) + k] = added[k]
<1> DEFINE new(i) == IF i \in resolved[r] THEN [ledger[i] EXCEPT !.pending = FALSE] ELSE ledger[i]
           old == [i \in DOMAIN ledger |-> new(i)]
<1>1. ledger \in Seq(Record) /\ Len(ledger) \in Nat /\ DOMAIN ledger = 1 .. Len(ledger)
  BY DEF TypeInv, TablesOK
<1>2. \A i \in DOMAIN ledger : ledger[i] \in Record
  BY <1>1
<1>3. \A i \in DOMAIN ledger : /\ new(i) \in Record
                               /\ new(i).asset = ledger[i].asset
                               /\ new(i).type = ledger[i].type
                               /\ new(i).to = ledger[i].to
  BY <1>2 DEF Record
<1>4. ledger' = old \o added /\ Len(ledger) + Len(added) <= MaxRecords
  BY DEF Commit
<1> HIDE DEF new
<1>5. old \in Seq(Record) /\ Len(old) = Len(ledger)
  BY <1>1, <1>3
<1>6. \A i \in DOMAIN ledger : old[i] = new(i)
  OBVIOUS
<1> HIDE DEF old
<1>7. ledger' \in Seq(Record) /\ Len(ledger') = Len(ledger) + Len(added)
  <2>1. old \o added \in Seq(Record)
    BY <1>5
  <2>2. Len(old \o added) = Len(old) + Len(added)
    BY <1>5
  <2> QED BY <1>4, <1>5, <2>1, <2>2
<1>8. \A i \in DOMAIN ledger : ledger'[i] = new(i)
  BY <1>1, <1>4, <1>5, <1>6
<1>9. \A k \in DOMAIN added : ledger'[Len(ledger) + k] = added[k]
  BY <1>1, <1>4, <1>5
<1> QED BY <1>3, <1>4, <1>7, <1>8, <1>9

\* A commit of rows and records that can be.
LEMMA CommitTypes ==
    ASSUME TypeInv, NEW r \in Requests, NEW S \in SUBSET Assets, NEW rows, NEW added \in Seq(Record),
           Commit(r, S, rows, added), \A a \in S : rows[a] \in UnitRow
    PROVE  TypeInv'
<1>1. Reset(r) /\ UNCHANGED staff /\ unit' = [a \in Assets |-> IF a \in S THEN rows[a] ELSE unit[a]]
  BY DEF Commit
<1>2. unit' \in [Assets -> UnitRow]
  BY <1>1 DEF TypeInv, TablesOK
<1> QED BY <1>1, <1>2, CommitLedger, ResetTypes DEF TypeInv, TablesOK

\* A request goes on to a step that is about an asset if it was.
LEMMA StepTypes ==
    ASSUME TypeInv, NEW r \in Requests, NEW step, Goto(r, step), TablesOK', LocalsOK',
           UNCHANGED <<units, who>>,
           step \notin Unitless => pc[r] \notin Unitless,
           step \in Giving => pc[r] \in Giving,
           step \in Moving => pc[r] \in Moving
    PROVE  TypeInv'
<1>1. pc' = [q \in Requests |-> pc'[q]] /\ pc'[r] = step /\ \A q \in Requests \ {r} : pc'[q] = pc[q]
  BY DEF TypeInv, StepsOK, Goto
<1> QED BY <1>1 DEF TypeInv, StepsOK

\* A request arrives.
LEMMA BeginTypes ==
    ASSUME TypeInv, NEW r \in Requests, NEW kind, NEW S \in SUBSET Assets, NEW u \in Holder,
           NEW signed \in BOOLEAN, NEW step, Begin(r, kind, S, u, signed, step),
           step \notin Unitless => S # {},
           step \in Giving => u \in Users,
           step \in Moving => \E a \in Assets : S = {a}
    PROVE  TypeInv'
<1>1. /\ pc' = [pc EXCEPT ![r] = step] /\ units' = [units EXCEPT ![r] = S]
      /\ who' = [who EXCEPT ![r] = u] /\ doc' = [doc EXCEPT ![r] = signed]
      /\ UNCHANGED <<unit, ledger, staff, seen, status, resolved, released, left>>
  BY DEF Begin, Goto, tables
<1>2. TablesOK' /\ LocalsOK'
  BY <1>1 DEF TypeInv, TablesOK, LocalsOK
<1>3. /\ units'[r] = S /\ who'[r] = u /\ pc'[r] = step
      /\ \A q \in Requests \ {r} : units'[q] = units[q] /\ who'[q] = who[q] /\ pc'[q] = pc[q]
      /\ pc' = [q \in Requests |-> pc'[q]]
  BY <1>1 DEF TypeInv, LocalsOK, StepsOK
<1> QED BY <1>2, <1>3 DEF TypeInv, StepsOK

\* Whatever arrives.
LEMMA ArriveTypes ==
    ASSUME TypeInv, NEW r \in Requests, Arrive(r)
    PROVE  TypeInv'
<1> USE DEF Holder, Unitless, Giving, Moving, Groups
<1>1. ASSUME NEW S \in Groups, NEW signed \in BOOLEAN, NEW u \in Users, StartAllocate(r, S, u, signed)
      PROVE  TypeInv'
  <2>1. S \in SUBSET Assets /\ S # {}
    BY DEF Groups
  <2> QED BY <1>1, <2>1, BeginTypes DEF StartAllocate
<1>2. ASSUME NEW S \in Groups, NEW signed \in BOOLEAN, StartReturn(r, S, signed)
      PROVE  TypeInv'
  <2>1. S \in SUBSET Assets /\ S # {} /\ NoUser \in Holder
    BY DEF Groups
  <2> QED BY <1>2, <2>1, BeginTypes DEF StartReturn
<1>3. ASSUME NEW S \in Groups, NEW signed \in BOOLEAN, NEW u \in Holder, StartBatch(r, S, u, signed)
      PROVE  TypeInv'
  BY <1>3, BeginTypes DEF StartBatch
<1>4. ASSUME NEW a \in Assets, NEW signed \in BOOLEAN, NEW u \in Users, StartTransfer(r, a, u, signed)
      PROVE  TypeInv'
  BY <1>4, BeginTypes DEF StartTransfer
<1>5. ASSUME NEW a \in Assets, NEW u \in Users, StartDirUnassign(r, a, u)
      PROVE  TypeInv'
  BY <1>5, BeginTypes DEF StartDirUnassign
<1>6. ASSUME NEW a \in Assets, NEW u \in Holder, StartEdit(r, a, u)
      PROVE  TypeInv'
  BY <1>6, BeginTypes DEF StartEdit
<1>7. ASSUME NEW a \in Assets, StartAttach(r, a) \/ StartDelete(r, a)
      PROVE  TypeInv'
  BY <1>7, BeginTypes DEF StartAttach, StartDelete
<1>8. ASSUME NEW u \in Users, StartDirRemove(r, u)
      PROVE  TypeInv'
  BY <1>8, BeginTypes DEF StartDirRemove
<1> QED BY <1>1, <1>2, <1>3, <1>4, <1>5, <1>6, <1>7, <1>8 DEF Arrive

\* A set of records that is not empty has a newest.
LEMMA NewestIs ==
    ASSUME NEW S \in SUBSET (1 .. MaxRecords), S # {}
    PROVE  Newest(S) \in S /\ \A j \in S : j <= Newest(S)
<1> DEFINE R == OpToRel(<, Nat)
           gaps == {n \in Nat : \E i \in S : n = MaxRecords - i}
<1>1. IsWellFoundedOn(R, Nat)
  BY NatLessThanWellFounded
<1>2. MaxRecords \in Nat /\ gaps \subseteq Nat /\ gaps # {}
  <2>1. PICK i \in S : i \in 1 .. MaxRecords
    OBVIOUS
  <2>2. MaxRecords \in Nat
    BY CustodyAssumption
  <2>3. MaxRecords - i \in gaps
    BY <2>1, <2>2
  <2> QED BY <2>2, <2>3
<1> HIDE DEF R
<1>3. \E n \in gaps : \A m \in gaps : ~ (<<m, n>> \in R)
  <2> HIDE DEF gaps
  <2> QED BY <1>1, <1>2, WFMin
<1>4. PICK n \in gaps : \A m \in gaps : ~ (<<m, n>> \in R)
  BY <1>3
<1>5. \A m \in gaps : n <= m
  <2>1. \A m, k \in Nat : m < k => <<m, k>> \in R
    BY DEF R, OpToRel
  <2>2. n \in Nat /\ \A m \in gaps : m \in Nat /\ ~ (m < n)
    BY <1>4, <2>1
  <2> QED BY <2>2
<1>6. PICK i \in S : n = MaxRecords - i
  BY <1>4
<1>7. \A j \in S : j \in Nat /\ MaxRecords - j \in gaps
  BY <1>2
<1>8. \A j \in S : j <= i
  <2> HIDE DEF gaps
  <2> TAKE j \in S
  <2>1. n <= MaxRecords - j
    BY <1>5, <1>7
  <2> QED BY <1>2, <1>6, <1>7, <2>1
<1> QED BY <1>8 DEF Newest

\* Steps that read, or write what only the request itself sees.
LEMMA ReadTypes ==
    ASSUME TypeInv, NEW r \in Requests,
           \/ CheckAvailable(r) \/ CheckIssued(r) \/ CheckTransfer(r) \/ Supersede(r)
           \/ ReadBatch(r) \/ ReadHolder(r) \/ Resolve(r) \/ CountPending(r)
           \/ ReadStatus(r) \/ CheckFree(r) \/ Release(r)
    PROVE  TypeInv'
<1> USE DEF Unitless, Giving, Moving
<1>1. ASSUME Refuse(r) PROVE TypeInv'
  BY <1>1, ResetTypes DEF Refuse, TypeInv, TablesOK, tables
<1>2. ASSUME UNCHANGED tables PROVE TablesOK'
  BY <1>2 DEF TypeInv, TablesOK, tables
<1>3. ASSUME UNCHANGED <<unit, units, who, doc, status, resolved, released, left>>, See(r) \/ UNCHANGED seen
      PROVE  LocalsOK'
  <2>1. [a \in Assets |-> unit[a].holder] \in [Assets -> Holder]
    BY DEF TypeInv, TablesOK, UnitRow
  <2> QED BY <1>3, <2>1 DEF TypeInv, LocalsOK, See
<1>4. CASE CheckAvailable(r)
  <2>1. CASE Refuse(r)
    BY <1>1, <2>1
  <2>2. CASE ~Refuse(r)
    <3>1. Goto(r, "allocate") /\ UNCHANGED <<tables, request, seen, status, resolved, released, left>>
          /\ pc[r] = "checkAvailable"
      BY <1>4, <2>2 DEF CheckAvailable
    <3> QED BY <1>2, <1>3, <3>1, StepTypes DEF request, tables
  <2> QED BY <2>1, <2>2
<1>5. CASE CheckIssued(r)
  <2>1. CASE Refuse(r)
    BY <1>1, <2>1
  <2>2. CASE ~Refuse(r)
    <3>1. Goto(r, "return") /\ See(r) /\ UNCHANGED <<tables, request, status, resolved, released, left>>
          /\ pc[r] = "checkIssued"
      BY <1>5, <2>2 DEF CheckIssued
    <3> QED BY <1>2, <1>3, <3>1, StepTypes DEF request, tables
  <2> QED BY <2>1, <2>2
<1>6. CASE CheckTransfer(r)
  <2>1. CASE Refuse(r)
    BY <1>1, <2>1
  <2>2. CASE ~Refuse(r)
    <3>1. Goto(r, "supersede") /\ See(r) /\ UNCHANGED <<tables, request, status, resolved, released, left>>
          /\ pc[r] = "checkTransfer"
      BY <1>6, <2>2 DEF CheckTransfer
    <3> QED BY <1>2, <1>3, <3>1, StepTypes DEF request, tables
  <2> QED BY <2>1, <2>2
<1>7. \A a \in Assets : PendingOf(a) \subseteq RecordsOf(a) /\ RecordsOf(a) \subseteq 1 .. MaxRecords
  <2>1. DOMAIN ledger = 1 .. Len(ledger) /\ Len(ledger) \in Nat /\ Len(ledger) <= MaxRecords
    BY DEF TypeInv, TablesOK
  <2>2. DOMAIN ledger \subseteq 1 .. MaxRecords
    BY <2>1, CustodyAssumption
  <2> QED BY <2>2 DEF PendingOf, RecordsOf
<1>8. ASSUME NEW S \in SUBSET (1 .. MaxRecords), resolved' = [resolved EXCEPT ![r] = S],
             UNCHANGED <<units, who, doc, seen, status, released, left>>
      PROVE  LocalsOK'
  BY <1>8 DEF TypeInv, LocalsOK
<1>9. CASE Supersede(r)
  <2>1. /\ pc[r] = "supersede" /\ Goto(r, "transfer")
        /\ UNCHANGED <<tables, request, seen, status, released, left>>
        /\ \E S \in SUBSET PendingOf(Unit(r)) : resolved' = [resolved EXCEPT ![r] = S]
    BY <1>9 DEF Supersede
  <2>2. Unit(r) \in Assets
    BY <2>1, UnitIs
  <2>3. LocalsOK'
    BY <1>7, <1>8, <2>1, <2>2 DEF request
  <2> QED BY <1>2, <2>1, <2>3, StepTypes DEF request
<1>10. CASE ReadBatch(r)
  <2>1. /\ pc' = [pc EXCEPT ![r] = "batch"] /\ See(r)
        /\ units' = [units EXCEPT ![r] = @ \cap Live]
        /\ UNCHANGED <<tables, who, doc, status, resolved, released, left>>
    BY <1>10 DEF ReadBatch, Goto
  <2>2. [a \in Assets |-> unit[a].holder] \in [Assets -> Holder]
    BY DEF TypeInv, TablesOK, UnitRow
  <2>3. LocalsOK'
    BY <2>1, <2>2 DEF TypeInv, LocalsOK, See
  <2>4. /\ pc'[r] = "batch" /\ pc' = [q \in Requests |-> pc'[q]]
        /\ \A q \in Requests \ {r} : units'[q] = units[q] /\ pc'[q] = pc[q]
    BY <2>1 DEF TypeInv, StepsOK, LocalsOK
  <2> QED BY <1>2, <2>1, <2>3, <2>4 DEF TypeInv, StepsOK
<1>11. CASE ReadHolder(r)
  <2>1. Goto(r, "resolve") /\ See(r) /\ UNCHANGED <<tables, request, status, resolved, released, left>>
        /\ pc[r] = "readHolder"
    BY <1>11 DEF ReadHolder
  <2> QED BY <1>2, <1>3, <2>1, StepTypes DEF request, tables
<1>12. CASE Resolve(r)
  <2>1. /\ pc[r] = "resolve" /\ Goto(r, "countPending")
        /\ UNCHANGED <<tables, request, seen, status, released, left>>
    BY <1>12 DEF Resolve
  <2>2. Unit(r) \in Assets
    BY <2>1, UnitIs
  <2>3. PICK S \in {DefaultTargets(Unit(r))} \cup {{i} : i \in RecordsOf(Unit(r))} :
           resolved' = [resolved EXCEPT ![r] = S]
    BY <1>12 DEF Resolve
  <2>4. PendingOf(Unit(r)) # {} => DefaultTargets(Unit(r)) \subseteq PendingOf(Unit(r))
                                   \/ DefaultTargets(Unit(r)) = {Newest(PendingOf(Unit(r)))}
    BY DEF DefaultTargets
  <2>5. S \subseteq 1 .. MaxRecords
    <3>1. CASE S = DefaultTargets(Unit(r))
      <4>1. CASE PendingOf(Unit(r)) = {}
        BY <3>1, <4>1 DEF DefaultTargets
      <4>2. CASE PendingOf(Unit(r)) # {}
        <5>1. Newest(PendingOf(Unit(r))) \in 1 .. MaxRecords
          BY <1>7, <2>2, <4>2, NewestIs
        <5> QED BY <1>7, <2>2, <2>4, <3>1, <4>2, <5>1
      <4> QED BY <4>1, <4>2
    <3>2. CASE S # DefaultTargets(Unit(r))
      BY <1>7, <2>2, <2>3, <3>2
    <3> QED BY <3>1, <3>2
  <2>6. LocalsOK'
    BY <1>8, <2>1, <2>3, <2>5 DEF request
  <2> QED BY <1>2, <2>1, <2>6, StepTypes DEF request
<1>13. CASE CountPending(r)
  <2>1. /\ pc[r] = "countPending" /\ Goto(r, "attach")
        /\ UNCHANGED <<tables, request, seen, status, resolved, released>>
        /\ left' = [left EXCEPT ![r] = PendingOf(Unit(r)) \ resolved[r] # {}]
    BY <1>13 DEF CountPending
  <2>2. LocalsOK'
    BY <2>1 DEF TypeInv, LocalsOK, request
  <2> QED BY <1>2, <2>1, <2>2, StepTypes DEF request
<1>14. CASE ReadStatus(r)
  <2>1. /\ pc[r] = "readStatus" /\ Goto(r, "edit")
        /\ UNCHANGED <<tables, request, seen, resolved, released, left>>
        /\ status' = [status EXCEPT ![r] = unit[Unit(r)].status]
    BY <1>14 DEF ReadStatus
  <2>2. unit[Unit(r)].status \in Status
    BY <2>1, UnitIs DEF TypeInv, TablesOK, UnitRow
  <2>3. LocalsOK'
    BY <2>1, <2>2 DEF TypeInv, LocalsOK, request
  <2> QED BY <1>2, <2>1, <2>3, StepTypes DEF request
<1>15. CASE CheckFree(r)
  <2>1. CASE Refuse(r)
    BY <1>1, <2>1
  <2>2. CASE ~Refuse(r)
    <3>1. Goto(r, "delete") /\ UNCHANGED <<tables, request, seen, status, resolved, released, left>>
          /\ pc[r] = "checkFree"
      BY <1>15, <2>2 DEF CheckFree
    <3> QED BY <1>2, <1>3, <3>1, StepTypes DEF request, tables
  <2> QED BY <2>1, <2>2
<1>16. CASE Release(r)
  <2>1. /\ pc[r] = "release" /\ Goto(r, "deleteUser")
        /\ UNCHANGED <<tables, request, seen, status, resolved, left>>
        /\ \E S \in SUBSET Assets : released' = [released EXCEPT ![r] = S]
    BY <1>16 DEF Release, Live
  <2>2. LocalsOK'
    BY <2>1 DEF TypeInv, LocalsOK, request
  <2> QED BY <1>2, <2>1, <2>2, StepTypes DEF request
<1> QED BY <1>4, <1>5, <1>6, <1>9, <1>10, <1>11, <1>12, <1>13, <1>14, <1>15, <1>16

\* The row an asset gets from allocate, return, transfer or batchAssign.
LEMMA RowIs ==
    ASSUME TypeInv, NEW r \in Requests, NEW s \in Status, NEW u \in Holder, NEW a \in Assets
    PROVE  /\ Row(r, s, u)[a] \in UnitRow
           /\ Row(r, s, u)[a].status = s /\ Row(r, s, u)[a].holder = u
  BY DEF Row, UnitRow, TypeInv, LocalsOK

\* A handover record, whatever the payload.
LEMMA RecordIs ==
    ASSUME TypeInv, NEW r \in Requests, NEW a \in Assets, NEW kind \in {"ASSIGNMENT", "RETURN"},
           NEW u \in Holder, NEW moved \in BOOLEAN
    PROVE  NewRecord(r, a, kind, u, moved) \in Record
  BY DEF NewRecord, Record, TypeInv, LocalsOK

\* Commits.
LEMMA WriteTypes ==
    ASSUME TypeInv, NEW r \in Requests,
           \/ Allocate(r) \/ Return(r) \/ Transfer(r) \/ Batch(r)
           \/ Attach(r) \/ Edit(r) \/ Delete(r)
    PROVE  TypeInv'
<1> USE DEF Unitless
<1>1. /\ units[r] \in SUBSET Assets /\ who[r] \in Holder /\ seen[r] \in [Assets -> Holder]
      /\ status[r] \in Status /\ left[r] \in BOOLEAN
      /\ \A a \in Assets : unit[a] \in UnitRow
      /\ Overrides \subseteq Status /\ ReturnStatus \subseteq Status /\ NoUser \in Holder
      /\ \A u \in Holder : To(u) \in [Assets -> Holder]
      /\ <<>> \in Seq(Record)
  BY CustodyAssumption DEF TypeInv, TablesOK, LocalsOK, Status, ReturnStatus, Holder, To
<1>2. CASE Allocate(r)
  <2>1. Commit(r, units[r], Row(r, "IN_USE", who[r]),
               RecordEach(r, units[r], "ASSIGNMENT", To(who[r])))
    BY <1>2 DEF Allocate
  <2>2. RecordEach(r, units[r], "ASSIGNMENT", To(who[r])) \in Seq(Record)
    BY <1>1, RecordsWritten
  <2>3. \A a \in units[r] : Row(r, "IN_USE", who[r])[a] \in UnitRow
    BY <1>1, RowIs DEF Status
  <2> QED BY <1>1, <2>1, <2>2, <2>3, CommitTypes
<1>3. CASE Return(r)
  <2>1. PICK s \in Status : Commit(r, units[r], Row(r, s, NoUser),
                                   RecordEach(r, units[r], "RETURN", seen[r]))
    BY <1>1, <1>3 DEF Return, Status
  <2>2. RecordEach(r, units[r], "RETURN", seen[r]) \in Seq(Record)
    BY <1>1, RecordsWritten
  <2>3. \A a \in units[r] : Row(r, s, NoUser)[a] \in UnitRow
    BY <1>1, RowIs
  <2> QED BY <1>1, <2>1, <2>2, <2>3, CommitTypes
<1>4. CASE Transfer(r)
  <2> DEFINE back == NewRecord(r, Unit(r), "RETURN", seen[r][Unit(r)], TRUE)
             out == NewRecord(r, Unit(r), "ASSIGNMENT", who[r], TRUE)
  <2>1. Commit(r, units[r], Row(r, "IN_USE", who[r]), <<back, out>>) /\ pc[r] = "transfer"
    BY <1>4 DEF Transfer
  <2>2. Unit(r) \in Assets
    BY <2>1, UnitIs
  <2>3. back \in Record /\ out \in Record
    BY <1>1, <2>2, RecordIs
  <2>4. \A a \in units[r] : Row(r, "IN_USE", who[r])[a] \in UnitRow
    BY <1>1, RowIs DEF Status
  <2> HIDE DEF back, out
  <2>5. <<back, out>> \in Seq(Record)
    BY <2>3
  <2> QED BY <1>1, <2>1, <2>4, <2>5, CommitTypes
<1>5. CASE Batch(r)
  <2> DEFINE S == {a \in units[r] : a \in Live \/ a \notin Unheld(r)}
             added == IF who[r] # NoUser THEN RecordEach(r, units[r], "ASSIGNMENT", To(who[r]))
                      ELSE RecordEach(r, {a \in units[r] : seen[r][a] # NoUser}, "RETURN", seen[r])
  <2>1. PICK s \in Status : Commit(r, S, Row(r, s, who[r]), added)
    BY <1>1, <1>5 DEF Batch, Status
  <2>2. RecordEach(r, units[r], "ASSIGNMENT", To(who[r])) \in Seq(Record)
    BY <1>1, RecordsWritten
  <2>3. RecordEach(r, {a \in units[r] : seen[r][a] # NoUser}, "RETURN", seen[r]) \in Seq(Record)
    BY <1>1, RecordsWritten
  <2>4. S \in SUBSET Assets /\ added \in Seq(Record)
    BY <1>1, <2>2, <2>3
  <2>5. \A a \in S : Row(r, s, who[r])[a] \in UnitRow
    BY <1>1, RowIs
  <2> HIDE DEF S, added
  <2> QED BY <2>1, <2>4, <2>5, CommitTypes
<1>6. CASE Attach(r)
  <2> DEFINE u == seen[r][Unit(r)]
             kind == IF u = NoUser THEN "RETURN" ELSE "ASSIGNMENT"
             rows == [a \in Assets |-> [unit[a] EXCEPT !.flag = left[r]]]
             added == IF resolved[r] # {} THEN <<>> ELSE RecordEach(r, units[r], kind, To(u))
  <2>1. Commit(r, units[r], rows, added) /\ pc[r] = "attach"
    BY <1>6 DEF Attach
  <2>2. u \in Holder
    BY <1>1, <2>1, UnitIs
  <2>3. kind \in {"ASSIGNMENT", "RETURN"}
    OBVIOUS
  <2>4. RecordEach(r, units[r], kind, To(u)) \in Seq(Record)
    <3> HIDE DEF kind, u
    <3> QED BY <1>1, <2>2, <2>3, RecordsWritten
  <2>5. added \in Seq(Record)
    BY <1>1, <2>4
  <2>6. \A a \in units[r] : rows[a] \in UnitRow
    BY <1>1 DEF UnitRow
  <2> HIDE DEF rows, added
  <2> QED BY <1>1, <2>1, <2>5, <2>6, CommitTypes
<1>7. CASE Edit(r)
  <2> DEFINE rows(s) == [a \in Assets |-> [unit[a] EXCEPT !.status = s, !.holder = who[r]]]
  <2>1. pc[r] = "edit"
    BY <1>7 DEF Edit
  <2>2. unit[Unit(r)].status \in Status
    BY <1>1, <2>1, UnitIs DEF UnitRow
  <2>3. PICK s \in Status : Commit(r, units[r], rows(s), <<>>)
    BY <1>1, <1>7, <2>2 DEF Edit, Status
  <2>4. \A a \in units[r] : rows(s)[a] \in UnitRow
    BY <1>1 DEF UnitRow
  <2> HIDE DEF rows
  <2> QED BY <1>1, <2>3, <2>4, CommitTypes
<1>8. CASE Delete(r)
  <2> DEFINE rows == [a \in Assets |-> Deleted]
  <2>1. Commit(r, units[r], rows, <<>>)
    BY <1>8 DEF Delete
  <2>2. \A a \in units[r] : rows[a] \in UnitRow
    BY <1>1 DEF UnitRow, Deleted, Status
  <2> HIDE DEF rows
  <2> QED BY <1>1, <2>1, <2>2, CommitTypes
<1> QED BY <1>2, <1>3, <1>4, <1>5, <1>6, <1>7, <1>8

\* Writes outside a request, and the removal of a directory user.
LEMMA OtherTypes ==
    ASSUME TypeInv,
           \/ \E r \in Requests : DeleteUser(r) \/ Abort(r)
           \/ \E a \in Assets : SetStatus(a) \/ RemoveAsset(a)
           \/ \E u \in Users : Suspend(u)
    PROVE  TypeInv'
<1>1. CASE \E r \in Requests : Abort(r)
  <2>1. PICK r \in Requests : Reset(r) /\ UNCHANGED tables
    BY <1>1 DEF Abort
  <2> QED BY <2>1, ResetTypes DEF TypeInv, TablesOK, tables
<1>2. CASE \E r \in Requests : DeleteUser(r)
  <2>1. PICK r \in Requests : DeleteUser(r)
    BY <1>2
  <2>2. Reset(r) /\ staff' = [staff EXCEPT ![who[r]] = "gone"]
    BY <2>1 DEF DeleteUser
  <2>3. unit' \in [Assets -> UnitRow]
    BY <2>1 DEF DeleteUser, TypeInv, TablesOK, UnitRow, Holder, Status
  <2>4. ledger' \in Seq(Record) /\ Len(ledger') <= MaxRecords
    <3> DEFINE new(i) == IF ledger[i].to = who[r] THEN [ledger[i] EXCEPT !.to = NoUser] ELSE ledger[i]
    <3>1. ledger \in Seq(Record) /\ Len(ledger) \in Nat /\ DOMAIN ledger = 1 .. Len(ledger)
      BY DEF TypeInv, TablesOK
    <3>2. \A i \in DOMAIN ledger : ledger[i] \in Record
      BY <3>1
    <3>3. \A i \in DOMAIN ledger : new(i) \in Record
      BY <3>2 DEF Record, Holder
    <3>4. ledger' = [i \in 1 .. Len(ledger) |-> new(i)] /\ Len(ledger) <= MaxRecords
      BY <2>1, <3>1 DEF DeleteUser, TypeInv, TablesOK
    <3> HIDE DEF new
    <3> QED BY <3>1, <3>3, <3>4
  <2> QED BY <2>2, <2>3, <2>4, ResetTypes DEF TypeInv, TablesOK
<1>3. CASE \E a \in Assets : SetStatus(a)
  <2>1. PICK a \in Assets : SetStatus(a)
    BY <1>3
  <2>2. PICK s \in Status : unit' = [unit EXCEPT ![a].status = s]
    BY <2>1, CustodyAssumption DEF SetStatus, Status
  <2>3. UNCHANGED <<ledger, staff, pc, request, seen, status, resolved, released, left>>
    BY <2>1 DEF SetStatus
  <2>4. unit' \in [Assets -> UnitRow]
    BY <2>2 DEF TypeInv, TablesOK, UnitRow
  <2> QED BY <2>3, <2>4 DEF TypeInv, TablesOK, LocalsOK, StepsOK, request
<1>4. CASE \E a \in Assets : RemoveAsset(a)
  BY <1>4 DEF RemoveAsset, TypeInv, TablesOK, LocalsOK, StepsOK, UnitRow, Status, Holder, Deleted, request
<1>5. CASE \E u \in Users : Suspend(u)
  BY <1>5 DEF Suspend, TypeInv, TablesOK, LocalsOK, StepsOK, request
<1> QED BY <1>1, <1>2, <1>3, <1>4, <1>5

\* The strengthening of the types is inductive.
LEMMA AlwaysTyped == Spec => []TypeInv
<1>1. Init => TypeInv
  <2> SUFFICES ASSUME Init PROVE TypeInv
    OBVIOUS
  <2>1. <<>> \in Seq(Record) /\ Len(<<>>) = 0 /\ Len(<<>>) <= MaxRecords
    BY CustodyAssumption
  <2>2. Unseen \in [Assets -> Holder]
    BY DEF Unseen, Holder
  <2>3. TablesOK
    BY <2>1 DEF Init, TablesOK, UnitRow, Status, Holder
  <2>4. LocalsOK
    BY <2>2 DEF Init, LocalsOK, Status, Holder
  <2>5. StepsOK
    BY DEF Init, StepsOK, Unitless, Giving, Moving
  <2> QED BY <2>3, <2>4, <2>5 DEF TypeInv
<1>2. TypeInv /\ [Next]_vars => TypeInv'
  <2> SUFFICES ASSUME TypeInv, [Next]_vars PROVE TypeInv'
    OBVIOUS
  <2>1. CASE UNCHANGED vars
    BY <2>1 DEF vars, TypeInv, TablesOK, LocalsOK, StepsOK
  <2>2. CASE \E r \in Requests : Arrive(r)
    BY <2>2, ArriveTypes
  <2>3. CASE \E r \in Requests : Step(r)
    <3>1. PICK r \in Requests : Step(r)
      BY <2>3
    <3> QED BY <3>1, ReadTypes, WriteTypes, OtherTypes DEF Step
  <2>4. CASE \/ \E r \in Requests : Abort(r)
             \/ \E a \in Assets : SetStatus(a) \/ RemoveAsset(a)
             \/ \E u \in Users : Suspend(u)
    BY <2>4, OtherTypes
  <2> QED BY <2>1, <2>2, <2>3, <2>4 DEF Next
<1> QED BY <1>1, <1>2, PTL DEF Spec

\* The types of the tables and of what each request keeps, whichever endpoints are
\* called (AssetsService and DirectoryService.remove).
THEOREM TypeCorrect == Spec => []TypeOK
<1>1. TypeInv => TypeOK
  BY DEF TypeInv, TablesOK, LocalsOK, TypeOK, UnitRow
<1> QED BY <1>1, AlwaysTyped, PTL
-----------------------------------------------------------------------------
(* Holders, statuses and records, without the endpoints that break them.   *)

Tame == Overrides = {} /\ Endpoints \cap {"update", "dirRemove"} = {}

\* No request is at a step of those endpoints.
Wild == {"readStatus", "edit", "release", "deleteUser"}
NoneWild == \A r \in Requests : pc[r] \notin Wild

HoldOK == NoneWild /\ HolderIffInUse /\ HolderHasRecord

\* A deletion, a row with a holder exactly when it is in use.
Consistent(row) == row.status = "deleted" \/ (row.status = "IN_USE" <=> row.holder # NoUser)

\* The new holder of an asset is nobody, the old one, or named by a new record.
Accounted(row, a, added) ==
    \/ row.status = "deleted" \/ row.holder = NoUser
    \/ row.holder = unit[a].holder
    \/ \E k \in DOMAIN added : /\ added[k].asset = a /\ added[k].type = "ASSIGNMENT"
                                /\ added[k].to = row.holder

\* A commit of rows that are consistent and accounted for.
LEMMA CommitHolds ==
    ASSUME TypeInv, HoldOK, NEW r \in Requests, NEW S \in SUBSET Assets, NEW rows,
           NEW added \in Seq(Record), Commit(r, S, rows, added),
           \A a \in S : Consistent(rows[a]) /\ Accounted(rows[a], a, added)
    PROVE  HoldOK'
<1>1. /\ S \subseteq Live /\ Reset(r)
      /\ unit' = [a \in Assets |-> IF a \in S THEN rows[a] ELSE unit[a]]
  BY DEF Commit
<1>2. NoneWild'
  BY <1>1, ResetTypes DEF HoldOK, NoneWild, Wild
<1>3. \A a \in Live' : a \in Live /\ a \in Assets
  BY <1>1 DEF Live
<1>4. HolderIffInUse'
  <2> SUFFICES ASSUME NEW a \in Live'
               PROVE  unit'[a].status = "IN_USE" <=> unit'[a].holder # NoUser
    BY DEF HolderIffInUse
  <2>1. CASE a \in S
    BY <1>1, <1>3, <2>1 DEF Consistent, Live
  <2>2. CASE a \notin S
    BY <1>1, <1>3, <2>2 DEF HoldOK, HolderIffInUse
  <2> QED BY <2>1, <2>2
<1>5. HolderHasRecord'
  <2> SUFFICES ASSUME NEW a \in Live', unit'[a].holder # NoUser
               PROVE  \E i \in RecordsOf(a)' : /\ ledger'[i].type = "ASSIGNMENT"
                                               /\ ledger'[i].to = unit'[a].holder
    BY DEF HolderHasRecord
  <2>1. /\ ledger \in Seq(Record) /\ ledger' \in Seq(Record) /\ added \in Seq(Record)
        /\ Len(ledger') = Len(ledger) + Len(added)
        /\ \A i \in DOMAIN ledger : /\ ledger'[i].asset = ledger[i].asset
                                    /\ ledger'[i].type = ledger[i].type
                                    /\ ledger'[i].to = ledger[i].to
        /\ \A k \in DOMAIN added : ledger'[Len(ledger) + k] = added[k]
    BY CommitLedger DEF TypeInv, TablesOK
  <2>2. /\ DOMAIN ledger = 1 .. Len(ledger) /\ Len(ledger) \in Nat
        /\ DOMAIN added = 1 .. Len(added) /\ Len(added) \in Nat
        /\ DOMAIN ledger' = 1 .. Len(ledger')
    BY <2>1
  <2>3. \A i \in DOMAIN ledger' : ledger'[i].asset = a => i \in RecordsOf(a)'
    BY DEF RecordsOf
  <2>4. CASE unit'[a].holder = unit[a].holder
    <3>1. PICK i \in RecordsOf(a) : ledger[i].type = "ASSIGNMENT" /\ ledger[i].to = unit[a].holder
      BY <1>3, <2>4 DEF HoldOK, HolderHasRecord
    <3>2. i \in DOMAIN ledger /\ ledger[i].asset = a /\ i \in DOMAIN ledger'
      BY <2>1, <2>2 DEF RecordsOf
    <3> QED BY <2>1, <2>3, <2>4, <3>1, <3>2
  <2>5. CASE unit'[a].holder # unit[a].holder
    <3>1. a \in S /\ unit'[a] = rows[a] /\ rows[a].status # "deleted"
      BY <1>1, <1>3, <2>5 DEF Live
    <3>2. PICK k \in DOMAIN added : /\ added[k].asset = a /\ added[k].type = "ASSIGNMENT"
                                    /\ added[k].to = rows[a].holder
      BY <2>5, <3>1 DEF Accounted
    <3>3. Len(ledger) + k \in DOMAIN ledger'
      BY <2>1, <2>2
    <3> QED BY <2>1, <2>3, <3>1, <3>2, <3>3
  <2> QED BY <2>4, <2>5
<1> QED BY <1>2, <1>4, <1>5 DEF HoldOK

\* The record written for an asset, when an endpoint gives it out.
LEMMA GivenAccounted ==
    ASSUME TypeInv, NEW r \in Requests, NEW a \in units[r], NEW s, NEW u \in Holder
    PROVE  Accounted(Row(r, s, u)[a], a, RecordEach(r, units[r], "ASSIGNMENT", To(u)))
<1>1. units[r] \in SUBSET Assets /\ a \in Assets /\ To(u) \in [Assets -> Holder] /\ To(u)[a] = u
  BY DEF TypeInv, LocalsOK, To
<1>2. PICK k \in DOMAIN RecordEach(r, units[r], "ASSIGNMENT", To(u)) :
         RecordEach(r, units[r], "ASSIGNMENT", To(u))[k] = NewRecord(r, a, "ASSIGNMENT", To(u)[a], FALSE)
  BY <1>1, RecordsWritten
<1>3. Row(r, s, u)[a].holder = u
  BY <1>1 DEF Row
<1> QED BY <1>1, <1>2, <1>3 DEF Accounted, NewRecord

\* Commits of the other endpoints.
LEMMA WriteHolds ==
    ASSUME Tame, TypeInv, HoldOK, NEW r \in Requests,
           \/ Allocate(r) \/ Return(r) \/ Transfer(r) \/ Batch(r) \/ Attach(r) \/ Delete(r)
    PROVE  HoldOK'
<1> USE DEF Unitless, Giving, Moving
<1>1. /\ units[r] \in SUBSET Assets /\ who[r] \in Holder /\ seen[r] \in [Assets -> Holder]
      /\ NoUser \in Holder /\ <<>> \in Seq(Record)
      /\ \A u \in Holder : To(u) \in [Assets -> Holder]
      /\ \A u \in Users : u # NoUser
  BY CustodyAssumption DEF TypeInv, LocalsOK, Holder, To
<1>2. \A s, u : \A a \in Assets : Row(r, s, u)[a].status = s /\ Row(r, s, u)[a].holder = u
  BY DEF Row
<1>3. \A a \in Assets : unit[a] \in UnitRow
  BY DEF TypeInv, TablesOK
<1>4. CASE Allocate(r)
  <2> DEFINE rows == Row(r, "IN_USE", who[r])
             added == RecordEach(r, units[r], "ASSIGNMENT", To(who[r]))
  <2>1. Commit(r, units[r], rows, added) /\ pc[r] = "allocate"
    BY <1>4 DEF Allocate
  <2>2. added \in Seq(Record)
    BY <1>1, RecordsWritten
  <2>3. who[r] # NoUser
    BY <1>1, <2>1 DEF TypeInv, StepsOK
  <2>4. \A a \in units[r] : Consistent(rows[a])
    BY <1>1, <1>2, <2>3 DEF Consistent
  <2>5. \A a \in units[r] : Accounted(rows[a], a, added)
    BY <1>1, GivenAccounted
  <2> HIDE DEF rows, added
  <2> QED BY <1>1, <2>1, <2>2, <2>4, <2>5, CommitHolds
<1>5. CASE Return(r)
  <2> DEFINE added == RecordEach(r, units[r], "RETURN", seen[r])
  <2>1. PICK s \in ReturnStatus : Commit(r, units[r], Row(r, s, NoUser), added)
    BY <1>5 DEF Return, ReturnStatus
  <2> DEFINE rows == Row(r, s, NoUser)
  <2>2. added \in Seq(Record)
    BY <1>1, RecordsWritten
  <2>3. \A a \in units[r] : Consistent(rows[a]) /\ Accounted(rows[a], a, added)
    BY <1>1, <1>2 DEF Consistent, Accounted, ReturnStatus
  <2> HIDE DEF rows, added
  <2> QED BY <1>1, <2>1, <2>2, <2>3, CommitHolds DEF rows
<1>6. CASE Transfer(r)
  <2> DEFINE back == NewRecord(r, Unit(r), "RETURN", seen[r][Unit(r)], TRUE)
             out == NewRecord(r, Unit(r), "ASSIGNMENT", who[r], TRUE)
             rows == Row(r, "IN_USE", who[r])
  <2>1. Commit(r, units[r], rows, <<back, out>>) /\ pc[r] = "transfer"
    BY <1>6 DEF Transfer
  <2>2. Unit(r) \in Assets
    BY <2>1, UnitIs
  <2>3. back \in Record /\ out \in Record
    BY <1>1, <2>2, RecordIs
  <2>4. out.asset = Unit(r) /\ out.type = "ASSIGNMENT" /\ out.to = who[r]
    BY DEF NewRecord
  <2>5. who[r] # NoUser
    BY <1>1, <2>1 DEF TypeInv, StepsOK
  <2>6. units[r] = {Unit(r)}
    BY <2>1 DEF TypeInv, StepsOK, Unit
  <2>7. \A a \in units[r] : Consistent(rows[a]) /\ rows[a].holder = who[r]
    BY <1>1, <1>2, <2>5 DEF Consistent
  <2> HIDE DEF back, out, rows
  <2>8. /\ <<back, out>> \in Seq(Record) /\ DOMAIN <<back, out>> = 1 .. 2 /\ <<back, out>>[2] = out
    BY <2>3
  <2>9. \A a \in units[r] : Accounted(rows[a], a, <<back, out>>)
    BY <2>4, <2>6, <2>7, <2>8 DEF Accounted
  <2> QED BY <1>1, <2>1, <2>7, <2>8, <2>9, CommitHolds
<1>7. CASE Batch(r)
  <2> DEFINE S == {a \in units[r] : a \in Live \/ a \notin Unheld(r)}
             s == IF who[r] = NoUser THEN "AVAILABLE" ELSE "IN_USE"
             rows == Row(r, s, who[r])
             given == RecordEach(r, units[r], "ASSIGNMENT", To(who[r]))
             taken == RecordEach(r, {a \in units[r] : seen[r][a] # NoUser}, "RETURN", seen[r])
             added == IF who[r] # NoUser THEN given ELSE taken
  <2>1. Commit(r, S, rows, added)
    BY <1>7 DEF Batch, Tame
  <2>2. given \in Seq(Record) /\ taken \in Seq(Record)
    BY <1>1, RecordsWritten
  <2>3. S \subseteq units[r] /\ added \in Seq(Record)
    BY <2>2
  <2>4. \A a \in units[r] : Consistent(rows[a]) /\ rows[a].holder = who[r]
    BY <1>1, <1>2 DEF Consistent
  <2>5. \A a \in units[r] : Accounted(rows[a], a, given)
    BY <1>1, GivenAccounted
  <2> HIDE DEF S, s, rows, given, taken
  <2>6. \A a \in units[r] : Accounted(rows[a], a, added)
    BY <2>4, <2>5 DEF Accounted
  <2> HIDE DEF added
  <2> QED BY <1>1, <2>1, <2>3, <2>4, <2>6, CommitHolds
<1>8. CASE Attach(r)
  <2> DEFINE u == seen[r][Unit(r)]
             kind == IF u = NoUser THEN "RETURN" ELSE "ASSIGNMENT"
             rows == [a \in Assets |-> [unit[a] EXCEPT !.flag = left[r]]]
             added == IF resolved[r] # {} THEN <<>> ELSE RecordEach(r, units[r], kind, To(u))
  <2>1. Commit(r, units[r], rows, added) /\ pc[r] = "attach" /\ units[r] \subseteq Live
    BY <1>8 DEF Attach, Commit
  <2>2. u \in Holder
    BY <1>1, <2>1, UnitIs
  <2>3. kind \in {"ASSIGNMENT", "RETURN"}
    OBVIOUS
  <2>4. RecordEach(r, units[r], kind, To(u)) \in Seq(Record)
    <3> HIDE DEF kind, u
    <3> QED BY <1>1, <2>2, <2>3, RecordsWritten
  <2>5. added \in Seq(Record)
    BY <1>1, <2>4
  <2>6. \A a \in units[r] : rows[a].status = unit[a].status /\ rows[a].holder = unit[a].holder
    BY <1>1, <1>3 DEF UnitRow
  <2> HIDE DEF rows, added
  <2>7. \A a \in units[r] : Consistent(rows[a]) /\ Accounted(rows[a], a, added)
    BY <2>1, <2>6 DEF Consistent, Accounted, HoldOK, HolderIffInUse
  <2> QED BY <1>1, <2>1, <2>5, <2>7, CommitHolds
<1>9. CASE Delete(r)
  <2> DEFINE rows == [a \in Assets |-> Deleted]
  <2>1. Commit(r, units[r], rows, <<>>)
    BY <1>9 DEF Delete
  <2>2. \A a \in units[r] : Consistent(rows[a]) /\ Accounted(rows[a], a, <<>>)
    BY <1>1 DEF Deleted, Consistent, Accounted
  <2> HIDE DEF rows
  <2> QED BY <1>1, <2>1, <2>2, CommitHolds
<1> QED BY <1>4, <1>5, <1>6, <1>7, <1>8, <1>9

\* Steps that write neither assets nor records.
LEMMA StillHolds ==
    ASSUME HoldOK, UNCHANGED <<unit, ledger>>, NoneWild'
    PROVE  HoldOK'
  BY DEF HoldOK, HolderIffInUse, HolderHasRecord, Live, RecordsOf

\* What arrives, is undone, or reads.
LEMMA ReadHolds ==
    ASSUME Tame, TypeInv, HoldOK, NEW r \in Requests,
           \/ Arrive(r) \/ Abort(r)
           \/ CheckAvailable(r) \/ CheckIssued(r) \/ CheckTransfer(r) \/ Supersede(r)
           \/ ReadBatch(r) \/ ReadHolder(r) \/ Resolve(r) \/ CountPending(r) \/ CheckFree(r)
    PROVE  HoldOK'
<1>1. ASSUME NEW step, step \notin Wild, Goto(r, step) PROVE NoneWild'
  BY <1>1 DEF Goto, TypeInv, StepsOK, HoldOK, NoneWild
<1>2. ASSUME Reset(r) PROVE NoneWild'
  BY <1>2, ResetTypes DEF HoldOK, NoneWild, Wild
<1>3. CASE Arrive(r)
  <2>1. ASSUME NEW kind, NEW S, NEW u, NEW signed, NEW step, step \notin Wild,
               Begin(r, kind, S, u, signed, step)
        PROVE  HoldOK'
    BY <1>1, <2>1, StillHolds DEF Begin, tables
  <2>2. ASSUME NEW S, NEW signed, NEW u, StartAllocate(r, S, u, signed) PROVE HoldOK'
    BY <2>1, <2>2 DEF StartAllocate, Wild
  <2>3. ASSUME NEW S, NEW signed, StartReturn(r, S, signed) PROVE HoldOK'
    BY <2>1, <2>3 DEF StartReturn, Wild
  <2>4. ASSUME NEW S, NEW signed, NEW u, StartBatch(r, S, u, signed) PROVE HoldOK'
    BY <2>1, <2>4 DEF StartBatch, Wild
  <2>5. ASSUME NEW a, NEW signed, NEW u, StartTransfer(r, a, u, signed) PROVE HoldOK'
    BY <2>1, <2>5 DEF StartTransfer, Wild
  <2>6. ASSUME NEW a, NEW u, StartDirUnassign(r, a, u) PROVE HoldOK'
    <3>1. Begin(r, "dirUnassign", {a}, u, FALSE, "checkIssued")
      BY <2>6 DEF StartDirUnassign
    <3> QED BY <2>1, <3>1 DEF Wild
  <2>7. ASSUME NEW a, StartAttach(r, a) PROVE HoldOK'
    BY <2>1, <2>7 DEF StartAttach, Wild
  <2>8. ASSUME NEW a, StartDelete(r, a) PROVE HoldOK'
    BY <2>1, <2>8 DEF StartDelete, Wild
  <2>9. /\ \A a, u : ~ StartEdit(r, a, u)
        /\ \A u : ~ StartDirRemove(r, u)
    BY DEF Tame, StartEdit, StartDirRemove, Begin
  <2> QED BY <1>3, <2>2, <2>3, <2>4, <2>5, <2>6, <2>7, <2>8, <2>9 DEF Arrive
<1>4. CASE Abort(r)
  BY <1>2, <1>4, StillHolds DEF Abort, tables
<1>5. CASE CheckAvailable(r)
  BY <1>1, <1>2, <1>5, StillHolds DEF CheckAvailable, Refuse, tables, Wild
<1>6. CASE CheckIssued(r)
  BY <1>1, <1>2, <1>6, StillHolds DEF CheckIssued, Refuse, tables, Wild
<1>7. CASE CheckTransfer(r)
  BY <1>1, <1>2, <1>7, StillHolds DEF CheckTransfer, Refuse, tables, Wild
<1>8. CASE Supersede(r)
  BY <1>1, <1>8, StillHolds DEF Supersede, tables, Wild
<1>9. CASE ReadBatch(r)
  BY <1>1, <1>9, StillHolds DEF ReadBatch, tables, Wild
<1>10. CASE ReadHolder(r)
  BY <1>1, <1>10, StillHolds DEF ReadHolder, tables, Wild
<1>11. CASE Resolve(r)
  BY <1>1, <1>11, StillHolds DEF Resolve, tables, Wild
<1>12. CASE CountPending(r)
  BY <1>1, <1>12, StillHolds DEF CountPending, tables, Wild
<1>13. CASE CheckFree(r)
  BY <1>1, <1>2, <1>13, StillHolds DEF CheckFree, Refuse, tables, Wild
<1> QED BY <1>3, <1>4, <1>5, <1>6, <1>7, <1>8, <1>9, <1>10, <1>11, <1>12, <1>13

\* An asset is removed at once, whoever holds it.
LEMMA RemoveHolds ==
    ASSUME TypeInv, HoldOK, NEW b \in Assets, RemoveAsset(b)
    PROVE  HoldOK'
<1>1. unit' = [unit EXCEPT ![b] = Deleted] /\ UNCHANGED <<ledger, pc>>
  BY DEF RemoveAsset
<1>2. \A a \in Live' : a \in Live /\ unit'[a] = unit[a]
  BY <1>1 DEF TypeInv, TablesOK, Live, Deleted
<1>3. \A a \in Live' : RecordsOf(a)' = RecordsOf(a)
  BY <1>1, <1>2 DEF RecordsOf
<1> QED BY <1>1, <1>2, <1>3 DEF HoldOK, NoneWild, HolderIffInUse, HolderHasRecord

\* Holders, statuses and records agree while those endpoints are not called.
LEMMA AlwaysHeld == ASSUME Tame PROVE Spec => []HoldOK
<1>1. Init => HoldOK
  BY DEF Init, HoldOK, NoneWild, Wild, HolderIffInUse, HolderHasRecord, Live
<1>2. TypeInv /\ HoldOK /\ [Next]_vars => HoldOK'
  <2> SUFFICES ASSUME TypeInv, HoldOK, [Next]_vars PROVE HoldOK'
    OBVIOUS
  <2>1. CASE UNCHANGED vars
    BY <2>1, StillHolds DEF vars, HoldOK, NoneWild
  <2>2. CASE \E r \in Requests : Arrive(r) \/ Abort(r)
    BY <2>2, ReadHolds
  <2>3. CASE \E r \in Requests : Step(r)
    <3>1. PICK r \in Requests : Step(r)
      BY <2>3
    <3>2. ~ ReadStatus(r) /\ ~ Edit(r) /\ ~ Release(r) /\ ~ DeleteUser(r)
      BY DEF HoldOK, NoneWild, Wild, ReadStatus, Edit, Release, DeleteUser
    <3> QED BY <3>1, <3>2, ReadHolds, WriteHolds DEF Step
  <2>4. CASE \E a \in Assets : SetStatus(a)
    BY <2>4 DEF SetStatus, Tame
  <2>5. CASE \E a \in Assets : RemoveAsset(a)
    BY <2>5, RemoveHolds
  <2>6. CASE \E u \in Users : Suspend(u)
    BY <2>6, StillHolds DEF Suspend, HoldOK, NoneWild
  <2> QED BY <2>1, <2>2, <2>3, <2>4, <2>5, <2>6 DEF Next
<1> QED BY <1>1, <1>2, AlwaysTyped, PTL DEF Spec

\* An asset is in use exactly when somebody holds it (Asset.status and assignedToId),
\* however allocations, returns, transfers, batches, documents and deletions race.
THEOREM StatusFollowsHolder ==
    ASSUME Tame
    PROVE  Spec => []HolderIffInUse
<1>1. HoldOK => HolderIffInUse
  BY DEF HoldOK
<1> QED BY <1>1, AlwaysHeld, PTL

\* Nobody holds an asset for which no AssetHandoverRecord was written, however those
\* endpoints race.
THEOREM HolderIsRecorded ==
    ASSUME Tame
    PROVE  Spec => []HolderHasRecord
<1>1. HoldOK => HolderHasRecord
  BY DEF HoldOK
<1> QED BY <1>1, AlwaysHeld, PTL
-----------------------------------------------------------------------------
(* A document attached while nothing else runs.                            *)

\* The steps of an attachment, and those after it has chosen its records.
Attaching == {"readHolder", "resolve", "countPending", "attach"}
Chosen == {"countPending", "attach"}

\* The records an attachment settles are the asset's; it settles none only when none
\* is pending; its count says whether one is left.
ChoiceIs(r, a) ==
    /\ resolved[r] \subseteq RecordsOf(a)
    /\ resolved[r] = {} => PendingOf(a) = {}
CountIs(r, a) == left[r] = (PendingOf(a) \ resolved[r] # {})

AttachOK(r) ==
    pc[r] \in Attaching =>
        /\ doc[r]
        /\ \E a \in Assets :
              /\ units[r] = {a}
              /\ a \in Live /\ pc[r] \in Chosen => ChoiceIs(r, a)
              /\ a \in Live /\ pc[r] = "attach" => CountIs(r, a)

\* A request no other has overlapped is the only one that runs.
AloneOK ==
    /\ \A r \in Requests : alone[r] => \A q \in Requests \ {r} : pc[q] = "idle"
    /\ \A r \in Requests : alone[r] => AttachOK(r)
    /\ \A r \in Requests : pc[r] = "idle" => resolved[r] = {}

\* A step of a request that goes on.
LEMMA GoesOnAlone ==
    ASSUME TypeInv, AloneOK, NEW r \in Requests, NEW step, pc[r] # "idle", Goto(r, step), step # "idle",
           UNCHANGED alone, \A q \in Requests \ {r} : resolved'[q] = resolved[q],
           alone[r] => AttachOK(r)'
    PROVE  AloneOK'
<1>1. pc'[r] = step /\ \A q \in Requests \ {r} : pc'[q] = pc[q]
  BY DEF TypeInv, StepsOK, Goto
<1>2. \A q \in Requests \ {r} : ~ alone[q]
  BY DEF AloneOK
<1>3. \A q \in Requests : alone'[q] = alone[q]
  OBVIOUS
<1>4. \A q \in Requests : alone'[q] => \A p \in Requests \ {q} : pc'[p] = "idle"
  BY <1>1, <1>2, <1>3 DEF AloneOK
<1>5. \A q \in Requests : alone'[q] => AttachOK(q)'
  BY <1>2, <1>3
<1>6. \A q \in Requests : pc'[q] = "idle" => resolved'[q] = {}
  BY <1>1 DEF AloneOK
<1> QED BY <1>4, <1>5, <1>6 DEF AloneOK

\* The end of a request.
LEMMA EndsAlone ==
    ASSUME TypeInv, AloneOK, NEW r \in Requests, pc[r] # "idle", Reset(r)
    PROVE  AloneOK'
<1>1. pc'[r] = "idle" /\ \A q \in Requests \ {r} : pc'[q] = pc[q]
  BY ResetTypes
<1>2. \A q \in Requests \ {r} : ~ alone[q]
  BY DEF AloneOK
<1>3. \A q \in Requests : alone'[q] = alone[q]
  BY DEF Reset
<1>4. \A q \in Requests : alone'[q] => \A p \in Requests \ {q} : pc'[p] = "idle"
  BY <1>1, <1>2, <1>3 DEF AloneOK
<1>5. AttachOK(r)'
  BY <1>1 DEF AttachOK, Attaching
<1>6. \A q \in Requests : alone'[q] => AttachOK(q)'
  BY <1>2, <1>3, <1>5
<1>7. resolved'[r] = {} /\ \A q \in Requests \ {r} : resolved'[q] = resolved[q]
  BY DEF Reset, TypeInv, LocalsOK
<1>8. \A q \in Requests : pc'[q] = "idle" => resolved'[q] = {}
  BY <1>1, <1>7 DEF AloneOK
<1> QED BY <1>4, <1>6, <1>8 DEF AloneOK

\* The start of a request: of another that ran none is alone any more.
LEMMA BeginsAlone ==
    ASSUME TypeInv, AloneOK, NEW r \in Requests, NEW kind, NEW S, NEW u, NEW signed, NEW step,
           Begin(r, kind, S, u, signed, step), step # "idle", step \notin Chosen,
           step \in Attaching => signed /\ \E a \in Assets : S = {a}
    PROVE  AloneOK'
<1>1. /\ pc[r] = "idle" /\ pc' = [pc EXCEPT ![r] = step] /\ units' = [units EXCEPT ![r] = S]
      /\ doc' = [doc EXCEPT ![r] = signed] /\ UNCHANGED resolved
      /\ alone' = [q \in Requests |-> q = r /\ \A p \in Requests \ {r} : pc[p] = "idle"]
  BY DEF Begin, Goto
<1>2. /\ pc'[r] = step /\ units'[r] = S /\ doc'[r] = signed
      /\ \A q \in Requests \ {r} : pc'[q] = pc[q]
  BY <1>1 DEF TypeInv, StepsOK, LocalsOK
<1>3. \A q \in Requests : alone'[q] => q = r /\ \A p \in Requests \ {r} : pc[p] = "idle"
  BY <1>1
<1>4. \A q \in Requests : alone'[q] => \A p \in Requests \ {q} : pc'[p] = "idle"
  BY <1>2, <1>3
<1>5. AttachOK(r)'
  BY <1>2 DEF AttachOK, Attaching, Chosen
<1>6. \A q \in Requests : pc'[q] = "idle" => resolved'[q] = {}
  BY <1>1, <1>2 DEF AloneOK
<1>7. \A q \in Requests : alone'[q] => AttachOK(q)'
  BY <1>3, <1>5
<1> QED BY <1>4, <1>6, <1>7 DEF AloneOK

\* The start of a request that attaches no document.
LEMMA BeginsOther ==
    ASSUME TypeInv, AloneOK, NEW r \in Requests, NEW kind, NEW S, NEW u, NEW signed, NEW step,
           Begin(r, kind, S, u, signed, step), step # "idle", step \notin Attaching
    PROVE  AloneOK'
<1>1. step \notin Chosen
  BY DEF Attaching, Chosen
<1> QED BY <1>1, BeginsAlone

\* Whatever arrives.
LEMMA ArrivesAlone ==
    ASSUME TypeInv, AloneOK, NEW r \in Requests, Arrive(r)
    PROVE  AloneOK'
<1>0. /\ {"checkAvailable", "checkIssued", "readBatch", "checkTransfer"} \cap Attaching = {}
      /\ {"readStatus", "checkFree", "release"} \cap Attaching = {}
  BY DEF Attaching
<1>1. ASSUME NEW S, NEW signed, NEW u, StartAllocate(r, S, u, signed) PROVE AloneOK'
  BY <1>0, <1>1, BeginsOther DEF StartAllocate
<1>2. ASSUME NEW S, NEW signed, StartReturn(r, S, signed) PROVE AloneOK'
  BY <1>0, <1>2, BeginsOther DEF StartReturn
<1>3. ASSUME NEW S, NEW signed, NEW u, StartBatch(r, S, u, signed) PROVE AloneOK'
  BY <1>0, <1>3, BeginsOther DEF StartBatch
<1>4. ASSUME NEW a, NEW signed, NEW u, StartTransfer(r, a, u, signed) PROVE AloneOK'
  BY <1>0, <1>4, BeginsOther DEF StartTransfer
<1>5. ASSUME NEW a, NEW u, StartDirUnassign(r, a, u) PROVE AloneOK'
  <2>1. Begin(r, "dirUnassign", {a}, u, FALSE, "checkIssued")
    BY <1>5 DEF StartDirUnassign
  <2> QED BY <1>0, <2>1, BeginsOther
<1>6. ASSUME NEW a, NEW u, StartEdit(r, a, u) PROVE AloneOK'
  BY <1>0, <1>6, BeginsOther DEF StartEdit
<1>7. ASSUME NEW a \in Assets, StartAttach(r, a) PROVE AloneOK'
  <2>1. Begin(r, "attach", {a}, NoUser, TRUE, "readHolder")
    BY <1>7 DEF StartAttach
  <2>2. "readHolder" # "idle" /\ "readHolder" \notin Chosen
    BY DEF Chosen
  <2>3. TRUE /\ \E b \in Assets : {a} = {b}
    OBVIOUS
  <2> QED BY <2>1, <2>2, <2>3, BeginsAlone
<1>8. ASSUME NEW a, StartDelete(r, a) PROVE AloneOK'
  BY <1>0, <1>8, BeginsOther DEF StartDelete
<1>9. ASSUME NEW u, StartDirRemove(r, u) PROVE AloneOK'
  BY <1>0, <1>9, BeginsOther DEF StartDirRemove
<1> QED BY <1>1, <1>2, <1>3, <1>4, <1>5, <1>6, <1>7, <1>8, <1>9 DEF Arrive

\* Records are among those of the ledger.
LEMMA RecordsNumbered ==
    ASSUME TypeInv, NEW a
    PROVE  RecordsOf(a) \subseteq 1 .. MaxRecords /\ PendingOf(a) \subseteq RecordsOf(a)
<1>1. DOMAIN ledger = 1 .. Len(ledger) /\ Len(ledger) \in Nat /\ Len(ledger) <= MaxRecords
  BY DEF TypeInv, TablesOK
<1>2. DOMAIN ledger \subseteq 1 .. MaxRecords
  BY <1>1, CustodyAssumption
<1> QED BY <1>2 DEF PendingOf, RecordsOf

\* What attachHandoverDocument settles without a record id: some of the pending records of
\* the asset, and none only if none is.
LEMMA TargetsAre ==
    ASSUME TypeInv, NEW a
    PROVE  /\ DefaultTargets(a) \subseteq PendingOf(a)
           /\ DefaultTargets(a) = {} => PendingOf(a) = {}
<1> DEFINE n == Newest(PendingOf(a))
<1>1. CASE PendingOf(a) = {}
  BY <1>1 DEF DefaultTargets
<1>2. CASE PendingOf(a) # {}
  <2>1. n \in PendingOf(a)
    BY <1>2, RecordsNumbered, NewestIs
  <2>2. DefaultTargets(a) = {n} \/ (/\ ledger[n].transfer
                                    /\ DefaultTargets(a) = {i \in PendingOf(a) : ledger[i].transfer})
    BY <1>2 DEF DefaultTargets
  <2>3. n \in DefaultTargets(a)
    BY <2>1, <2>2
  <2> QED BY <2>1, <2>2, <2>3
<1> QED BY <1>1, <1>2

\* The steps of an attachment before its commit.
LEMMA AttachingAlone ==
    ASSUME TypeInv, AloneOK, NEW r \in Requests, ReadHolder(r) \/ Resolve(r) \/ CountPending(r)
    PROVE  AloneOK'
<1>1. pc[r] \in Attaching /\ pc[r] # "idle" /\ UNCHANGED <<unit, ledger, units, doc, alone>>
  BY DEF ReadHolder, Resolve, CountPending, Attaching, tables, request
<1>2. \A a : RecordsOf(a)' = RecordsOf(a) /\ PendingOf(a)' = PendingOf(a)
  BY <1>1 DEF Live, RecordsOf, PendingOf
<1>3. Live' = Live
  BY <1>1 DEF Live
<1>4. alone[r] => AttachOK(r)'
  <2> SUFFICES ASSUME alone[r] PROVE AttachOK(r)'
    OBVIOUS
  <2>1. doc[r] /\ AttachOK(r)
    BY <1>1 DEF AloneOK, AttachOK
  <2>2. PICK a \in Assets : /\ units[r] = {a}
                            /\ a \in Live /\ pc[r] \in Chosen => ChoiceIs(r, a)
                            /\ a \in Live /\ pc[r] = "attach" => CountIs(r, a)
    BY <1>1, <2>1 DEF AttachOK
  <2>3. Unit(r) = a /\ units'[r] = {a} /\ doc'[r]
    BY <1>1, <2>1, <2>2 DEF Unit
  <2>4. CASE ReadHolder(r)
    <3>1. pc'[r] = "resolve"
      BY <2>4 DEF ReadHolder, Goto, TypeInv, StepsOK
    <3> QED BY <2>3, <3>1 DEF AttachOK, Chosen
  <2>5. CASE Resolve(r)
    <3>1. pc'[r] = "countPending"
      BY <2>5 DEF Resolve, Goto, TypeInv, StepsOK
    <3>2. PICK S \in {DefaultTargets(a)} \cup {{i} : i \in RecordsOf(a)} :
             resolved' = [resolved EXCEPT ![r] = S]
      BY <2>3, <2>5 DEF Resolve
    <3>3. resolved'[r] = S
      BY <3>2 DEF TypeInv, LocalsOK
    <3>4. S \subseteq RecordsOf(a) /\ (S = {} => PendingOf(a) = {})
      BY <3>2, TargetsAre, RecordsNumbered
    <3>5. ChoiceIs(r, a)'
      BY <1>2, <3>3, <3>4 DEF ChoiceIs
    <3> QED BY <2>3, <3>1, <3>5 DEF AttachOK
  <2>6. CASE CountPending(r)
    <3>1. pc[r] = "countPending" /\ pc'[r] = "attach" /\ UNCHANGED resolved
          /\ left' = [left EXCEPT ![r] = PendingOf(a) \ resolved[r] # {}]
      BY <2>3, <2>6 DEF CountPending, Goto, TypeInv, StepsOK
    <3>2. left'[r] = (PendingOf(a) \ resolved[r] # {})
      BY <3>1 DEF TypeInv, LocalsOK
    <3>3. CountIs(r, a)'
      BY <1>2, <3>1, <3>2 DEF CountIs
    <3>4. a \in Live => ChoiceIs(r, a)'
      BY <1>2, <2>2, <3>1 DEF ChoiceIs, Chosen
    <3> QED BY <1>3, <2>3, <3>1, <3>3, <3>4 DEF AttachOK
  <2> QED BY <2>4, <2>5, <2>6
<1>5. \A q \in Requests \ {r} : resolved'[q] = resolved[q]
  BY DEF ReadHolder, Resolve, CountPending, TypeInv, LocalsOK
<1>6. ASSUME NEW step, step # "idle", Goto(r, step) PROVE AloneOK'
  BY <1>1, <1>4, <1>5, <1>6, GoesOnAlone
<1> QED BY <1>6 DEF ReadHolder, Resolve, CountPending

\* The steps of the other endpoints.
LEMMA OthersAlone ==
    ASSUME TypeInv, AloneOK, NEW r \in Requests,
           \/ CheckAvailable(r) \/ CheckIssued(r) \/ CheckTransfer(r) \/ Supersede(r)
           \/ ReadBatch(r) \/ ReadStatus(r) \/ CheckFree(r) \/ Release(r)
           \/ Allocate(r) \/ Return(r) \/ Transfer(r) \/ Batch(r) \/ Attach(r) \/ Edit(r)
           \/ Delete(r) \/ DeleteUser(r) \/ Abort(r)
    PROVE  AloneOK'
<1>1. ASSUME Reset(r), pc[r] # "idle" PROVE AloneOK'
  BY <1>1, EndsAlone
<1>2. ASSUME NEW step, step # "idle", step \notin Attaching, Goto(r, step), pc[r] # "idle", UNCHANGED alone,
             \A q \in Requests \ {r} : resolved'[q] = resolved[q]
      PROVE  AloneOK'
  <2>1. pc'[r] = step
    BY <1>2 DEF Goto, TypeInv, StepsOK
  <2>2. alone[r] => AttachOK(r)'
    BY <1>2, <2>1 DEF AttachOK
  <2> QED BY <1>2, <2>2, GoesOnAlone
<1>3. CASE CheckAvailable(r)
  BY <1>1, <1>2, <1>3 DEF CheckAvailable, Refuse, request, Attaching
<1>4. CASE CheckIssued(r)
  BY <1>1, <1>2, <1>4 DEF CheckIssued, Refuse, request, Attaching
<1>5. CASE CheckTransfer(r)
  BY <1>1, <1>2, <1>5 DEF CheckTransfer, Refuse, request, Attaching
<1>6. CASE CheckFree(r)
  BY <1>1, <1>2, <1>6 DEF CheckFree, Refuse, request, Attaching
<1>7. CASE Supersede(r)
  <2>1. \A q \in Requests \ {r} : resolved'[q] = resolved[q]
    BY <1>7 DEF Supersede, TypeInv, LocalsOK
  <2> QED BY <1>2, <1>7, <2>1 DEF Supersede, request, Attaching
<1>8. CASE ReadBatch(r)
  BY <1>2, <1>8 DEF ReadBatch, Attaching
<1>9. CASE ReadStatus(r)
  BY <1>2, <1>9 DEF ReadStatus, request, Attaching
<1>10. CASE Release(r)
  BY <1>2, <1>10 DEF Release, request, Attaching
<1>11. CASE \/ Allocate(r) \/ Return(r) \/ Transfer(r) \/ Batch(r) \/ Attach(r) \/ Edit(r)
            \/ Delete(r) \/ DeleteUser(r) \/ Abort(r)
  <2>1. pc[r] # "idle" /\ Reset(r)
    BY <1>11 DEF Allocate, Return, Transfer, Batch, Attach, Edit, Delete, DeleteUser, Abort, Commit
  <2> QED BY <1>1, <2>1
<1> QED BY <1>3, <1>4, <1>5, <1>6, <1>7, <1>8, <1>9, <1>10, <1>11

\* Assets that are still there, when the ledger has not changed.
LEMMA StillAlone ==
    ASSUME AloneOK, UNCHANGED <<ledger, pc, units, doc, resolved, left, alone>>, Live' \subseteq Live
    PROVE  AloneOK'
<1>1. \A a \in Live' : RecordsOf(a)' = RecordsOf(a) /\ PendingOf(a)' = PendingOf(a)
  BY DEF RecordsOf, PendingOf
<1>2. ASSUME NEW r \in Requests, AttachOK(r) PROVE AttachOK(r)'
  BY <1>1, <1>2 DEF AttachOK, ChoiceIs, CountIs
<1> QED BY <1>2 DEF AloneOK

\* A request that runs alone is still in step with the tables.
LEMMA AlwaysAlone == Spec => []AloneOK
<1>1. Init => AloneOK
  BY DEF Init, AloneOK
<1>2. TypeInv /\ AloneOK /\ [Next]_vars => AloneOK'
  <2> SUFFICES ASSUME TypeInv, AloneOK, [Next]_vars PROVE AloneOK'
    OBVIOUS
  <2>1. CASE UNCHANGED vars
    BY <2>1, StillAlone DEF vars, Live
  <2>2. CASE \E r \in Requests : Arrive(r)
    BY <2>2, ArrivesAlone
  <2>3. CASE \E r \in Requests : Step(r) \/ Abort(r)
    <3>1. PICK r \in Requests : Step(r) \/ Abort(r)
      BY <2>3
    <3> QED BY <3>1, AttachingAlone, OthersAlone DEF Step
  <2>4. CASE \E a \in Assets : SetStatus(a)
    <3>1. PICK a \in Assets : SetStatus(a)
      BY <2>4
    <3>2. a \in Live /\ \E s : unit' = [unit EXCEPT ![a].status = s]
      BY <3>1 DEF SetStatus
    <3>3. Live' \subseteq Live
      BY <3>2 DEF Live, TypeInv, TablesOK
    <3> QED BY <3>1, <3>3, StillAlone DEF SetStatus, request
  <2>5. CASE \E a \in Assets : RemoveAsset(a)
    <3>1. PICK a \in Assets : RemoveAsset(a)
      BY <2>5
    <3>2. Live' \subseteq Live
      BY <3>1 DEF RemoveAsset, Live, TypeInv, TablesOK, Deleted
    <3> QED BY <3>1, <3>2, StillAlone DEF RemoveAsset, request
  <2>6. CASE \E u \in Users : Suspend(u)
    BY <2>6, StillAlone DEF Suspend, request, Live
  <2> QED BY <2>1, <2>2, <2>3, <2>4, <2>5, <2>6 DEF Next
<1> QED BY <1>1, <1>2, AlwaysTyped, PTL DEF Spec

\* Each record written is of one of the assets, for its recipient.
WrittenFor(records, r, S, kind, to) ==
    \A k \in DOMAIN records :
        /\ records[k].asset \in S
        /\ records[k].type = kind
        /\ records[k].to = to[records[k].asset]
        /\ records[k].pending = (~ doc[r])

\* So are those of an endpoint that records each asset.
LEMMA RecordsAreOf ==
    ASSUME TypeInv, NEW r \in Requests, NEW S \in SUBSET Assets, NEW kind \in {"ASSIGNMENT", "RETURN"},
           NEW to \in [Assets -> Holder]
    PROVE  WrittenFor(RecordEach(r, S, kind, to), r, S, kind, to)
<1> DEFINE order == SetToSeq(S)
           rec(k) == NewRecord(r, order[k], kind, to[order[k]], FALSE)
<1>1. order \in Seq(S)
  BY OrderReachesAll
<1>2. RecordEach(r, S, kind, to) = [k \in 1 .. Len(order) |-> rec(k)]
  BY DEF RecordEach
<1>3. \A k \in 1 .. Len(order) : order[k] \in S
  BY <1>1
<1>4. \A k \in 1 .. Len(order) : /\ rec(k).asset \in S /\ rec(k).type = kind
                                 /\ rec(k).to = to[rec(k).asset]
                                 /\ rec(k).pending = (~ doc[r])
  BY <1>3 DEF NewRecord
<1> HIDE DEF order, rec
<1> QED BY <1>2, <1>4 DEF WrittenFor

\* The numbers of the ledger after a commit: those it had, and those of the records added.
LEMMA CommitNumbers ==
    ASSUME TypeInv, NEW r \in Requests, NEW S, NEW rows, NEW added \in Seq(Record),
           Commit(r, S, rows, added)
    PROVE  /\ DOMAIN ledger = 1 .. Len(ledger) /\ Len(ledger) \in Nat
           /\ DOMAIN ledger \subseteq DOMAIN ledger'
           /\ \A k \in DOMAIN added : Len(ledger) + k \in DOMAIN ledger' /\ k \in Nat /\ k > 0
           /\ \A i \in DOMAIN ledger' \ DOMAIN ledger :
                 \E k \in DOMAIN added : i = Len(ledger) + k /\ ledger'[i] = added[k]
<1>1. /\ ledger \in Seq(Record) /\ ledger' \in Seq(Record) /\ Len(ledger') = Len(ledger) + Len(added)
      /\ \A k \in DOMAIN added : ledger'[Len(ledger) + k] = added[k]
  BY CommitLedger DEF TypeInv, TablesOK
<1>2. /\ DOMAIN ledger = 1 .. Len(ledger) /\ Len(ledger) \in Nat
      /\ DOMAIN added = 1 .. Len(added) /\ Len(added) \in Nat
      /\ DOMAIN ledger' = 1 .. (Len(ledger) + Len(added))
  BY <1>1
<1>3. ASSUME NEW i \in DOMAIN ledger' \ DOMAIN ledger
      PROVE  \E k \in DOMAIN added : i = Len(ledger) + k /\ ledger'[i] = added[k]
  <2>1. i - Len(ledger) \in DOMAIN added /\ i = Len(ledger) + (i - Len(ledger))
    BY <1>2
  <2> QED BY <1>1, <2>1
<1> QED BY <1>2, <1>3

\* A commit settles the records it has resolved, and no other.
LEMMA CommitSettles ==
    ASSUME TypeInv, NEW r \in Requests, NEW S, NEW rows, NEW added \in Seq(Record),
           Commit(r, S, rows, added)
    PROVE  \A i \in DOMAIN ledger : ledger'[i].pending <=> ledger[i].pending /\ i \notin resolved[r]
<1> DEFINE new(i) == IF i \in resolved[r] THEN [ledger[i] EXCEPT !.pending = FALSE] ELSE ledger[i]
           old == [i \in DOMAIN ledger |-> new(i)]
<1>1. ledger \in Seq(Record) /\ Len(ledger) \in Nat /\ DOMAIN ledger = 1 .. Len(ledger)
  BY DEF TypeInv, TablesOK
<1>2. \A i \in DOMAIN ledger : ledger[i] \in Record
  BY <1>1
<1>3. \A i \in DOMAIN ledger : /\ new(i) \in Record
                               /\ new(i).pending <=> ledger[i].pending /\ i \notin resolved[r]
  BY <1>2 DEF Record
<1>4. ledger' = old \o added
  BY DEF Commit
<1> HIDE DEF new
<1>5. old \in Seq(Record) /\ Len(old) = Len(ledger)
  BY <1>1, <1>3
<1>6. \A i \in DOMAIN ledger : old[i] = new(i)
  OBVIOUS
<1> HIDE DEF old
<1>7. \A i \in DOMAIN ledger : ledger'[i] = new(i)
  BY <1>1, <1>4, <1>5, <1>6
<1> QED BY <1>3, <1>7

\* The document of a request that runs alone leaves the flag right.
LEMMA AttachLeavesRight ==
    ASSUME TypeInv, AloneOK, NEW r \in Requests, alone[r], Attach(r), NEW a \in units[r]
    PROVE  unit'[a].flag = (PendingOf(a) # {})'
<1> DEFINE u == seen[r][Unit(r)]
           kind == IF u = NoUser THEN "RETURN" ELSE "ASSIGNMENT"
           rows == [b \in Assets |-> [unit[b] EXCEPT !.flag = left[r]]]
           new == RecordEach(r, units[r], kind, To(u))
           added == IF resolved[r] # {} THEN <<>> ELSE new
<1>1. Commit(r, units[r], rows, added) /\ pc[r] = "attach" /\ units[r] \subseteq Live
  BY DEF Attach, Commit
<1>2. /\ doc[r] /\ a \in Assets /\ a \in Live
      /\ ChoiceIs(r, a) /\ CountIs(r, a)
  BY <1>1 DEF AloneOK, AttachOK, Attaching, Chosen
<1>3. u \in Holder /\ To(u) \in [Assets -> Holder] /\ units[r] \in SUBSET Assets
  BY <1>1, UnitIs DEF Unitless, TypeInv, LocalsOK, To
<1>4. kind \in {"ASSIGNMENT", "RETURN"}
  OBVIOUS
<1>5. unit[a] \in UnitRow
  BY <1>2 DEF TypeInv, TablesOK
<1>6. rows[a].flag = left[r] /\ rows[a].status = unit[a].status
  BY <1>2, <1>5 DEF UnitRow
<1> HIDE DEF kind, u
<1>7. new \in Seq(Record)
  BY <1>3, <1>4, RecordsWritten
<1>8. WrittenFor(new, r, units[r], kind, To(u))
  BY <1>3, <1>4, RecordsAreOf
<1>9. \A k \in DOMAIN new : ~ new[k].pending
  <2> HIDE DEF new
  <2> QED BY <1>2, <1>8 DEF WrittenFor
<1> HIDE DEF rows, new
<1>10. added \in Seq(Record) /\ \A k \in DOMAIN added : ~ added[k].pending
  BY <1>7, <1>9
<1> HIDE DEF added
<1>11. unit'[a] = rows[a]
  BY <1>1, <1>2 DEF Commit
<1>12. a \in Live'
  BY <1>2, <1>6, <1>11 DEF Live
<1>13. /\ \A i \in DOMAIN ledger : /\ ledger'[i].asset = ledger[i].asset
                                   /\ ledger'[i].pending <=> ledger[i].pending /\ i \notin resolved[r]
       /\ DOMAIN ledger \subseteq DOMAIN ledger'
       /\ \A i \in DOMAIN ledger' \ DOMAIN ledger : ~ ledger'[i].pending
  BY <1>1, <1>10, CommitLedger, CommitNumbers, CommitSettles
<1>14. PendingOf(a)' = PendingOf(a) \ resolved[r]
  BY <1>2, <1>12, <1>13 DEF PendingOf, RecordsOf
<1> QED BY <1>2, <1>6, <1>11, <1>14 DEF CountIs

\* A handover document attached while nothing else runs leaves Asset.hasPendingRecord right,
\* whatever it was before and whatever endpoints left it so.
THEOREM AttachRepairs == Spec => AttachHeals
<1>1. TypeInv /\ AloneOK =>
        \A r \in Requests : \A a \in units[r] :
           alone[r] /\ Attach(r) => unit'[a].flag = (PendingOf(a) # {})'
  BY AttachLeavesRight
<1> QED BY <1>1, AlwaysTyped, AlwaysAlone, PTL DEF AttachHeals
-----------------------------------------------------------------------------
(* The ledger, when requests do not overlap.                               *)

OneAtATime ==
    \A q, r \in Requests : pc[q] # "idle" /\ pc[r] # "idle" => q = r

\* The endpoints that keep the ledger in step with the custody.
Orderly == Endpoints \cap {"batch", "update", "setStatus", "dirRemove"} = {}
Disorderly == Wild \cup {"readBatch", "batch"}

\* The newest record of an asset tells who holds it.
LastTells ==
    \A a \in Live : \A i \in RecordsOf(a) :
        (\A j \in RecordsOf(a) : j <= i)
        => unit[a].holder = IF ledger[i].type = "ASSIGNMENT" THEN ledger[i].to ELSE NoUser

\* Every assignment names its recipient.
Addressed ==
    \A i \in DOMAIN ledger : ledger[i].type = "ASSIGNMENT" => ledger[i].to # NoUser

\* Record k hands back what record i assigned.
HandsBack(i, k) ==
    /\ ledger[k].asset = ledger[i].asset /\ ledger[k].type = "RETURN"
    /\ ledger[k].to = ledger[i].to

\* Whoever was assigned an asset and does not hold it has handed it back since.
HandedBack ==
    \A a \in Live : \A i \in RecordsOf(a) :
        ledger[i].type = "ASSIGNMENT" /\ ledger[i].to # unit[a].holder
        => \E k \in DOMAIN ledger : i < k /\ HandsBack(i, k)

LedgerOK == LastTells /\ Addressed /\ HandedBack /\ ChainUnbroken /\ FlagHasRecord

\* What a request has read is still so.
Fresh(r) ==
    /\ pc[r] \notin Disorderly
    /\ pc[r] = "allocate" => \A a \in units[r] \cap Live : unit[a].holder = NoUser
    /\ pc[r] \in {"return", "supersede", "transfer", "resolve", "countPending", "attach"}
       => \A a \in units[r] \cap Live : seen[r][a] = unit[a].holder
    /\ \A i \in resolved[r] : i \in DOMAIN ledger /\ ledger[i].asset \in units[r]

OrderOK ==
    /\ \A r \in Requests : pc[r] # "idle" => alone[r]
    /\ \A r \in Requests : Fresh(r)
    /\ LedgerOK

\* What a commit says of asset a: the row it gets, and the records added, tell the same.
NewestTells(row, a, added) ==
    /\ (\A k \in DOMAIN added : added[k].asset # a) => row.holder = unit[a].holder
    /\ \A k \in DOMAIN added :
          /\ added[k].asset = a
          /\ \A m \in DOMAIN added : added[m].asset = a => m <= k
          => row.holder = IF added[k].type = "ASSIGNMENT" THEN added[k].to ELSE NoUser

GivenIs(row, a, added) ==
    \A k \in DOMAIN added :
        added[k].asset = a /\ added[k].type = "ASSIGNMENT" => added[k].to = row.holder

TakenBack(row, a, added) ==
    row.holder # unit[a].holder /\ unit[a].holder # NoUser =>
        \E m \in DOMAIN added :
            /\ added[m].asset = a /\ added[m].type = "RETURN" /\ added[m].to = unit[a].holder
            /\ \A k \in DOMAIN added : added[k].asset = a /\ added[k].type = "ASSIGNMENT" => m < k

Announced(r, row, a, added) ==
    row.flag => \/ \E k \in DOMAIN added : added[k].asset = a /\ added[k].pending
                \/ \E i \in PendingOf(a) : i \notin resolved[r]

Told(r, row, a, added) ==
    /\ NewestTells(row, a, added) /\ GivenIs(row, a, added)
    /\ TakenBack(row, a, added) /\ Announced(r, row, a, added)

\* The records added are of the assets of the commit, and assignments name a recipient.
About(S, added) ==
    \A k \in DOMAIN added : /\ added[k].asset \in S
                            /\ added[k].type = "ASSIGNMENT" => added[k].to # NoUser

\* The ledger before a commit and after it.
Appends(r, added) ==
    /\ DOMAIN ledger = 1 .. Len(ledger) /\ Len(ledger) \in Nat
    /\ DOMAIN ledger \subseteq DOMAIN ledger'
    /\ \A i \in DOMAIN ledger : /\ ledger'[i].asset = ledger[i].asset
                                /\ ledger'[i].type = ledger[i].type
                                /\ ledger'[i].to = ledger[i].to
                                /\ ledger'[i].pending <=> ledger[i].pending /\ i \notin resolved[r]
    /\ \A k \in DOMAIN added : /\ Len(ledger) + k \in DOMAIN ledger' /\ k \in Nat /\ k > 0
                               /\ ledger'[Len(ledger) + k] = added[k]
    /\ \A i \in DOMAIN ledger' \ DOMAIN ledger :
          \E k \in DOMAIN added : i = Len(ledger) + k /\ ledger'[i] = added[k]

\* A commit adds its records to the end of the ledger and changes of the others only who confirmed.
LEMMA CommitAppends ==
    ASSUME TypeInv, NEW r \in Requests, NEW S, NEW rows, NEW added \in Seq(Record),
           Commit(r, S, rows, added)
    PROVE  Appends(r, added)
  BY CommitLedger, CommitNumbers, CommitSettles DEF Appends

\* An asset a commit leaves, and what is known of one it writes.
LEMMA CommitLeaves ==
    ASSUME TypeInv, NEW r \in Requests, NEW S \in SUBSET Assets, NEW rows, NEW added \in Seq(Record),
           Commit(r, S, rows, added), About(S, added),
           \A a \in S : rows[a].status = "deleted" \/ Told(r, rows[a], a, added),
           NEW a \in Live'
    PROVE  /\ a \in Live /\ a \in Assets
           /\ a \notin S => unit'[a] = unit[a]
           /\ a \in S => Told(r, unit'[a], a, added)
           /\ \A k \in DOMAIN added : added[k].asset = a => a \in S
           /\ \A i : i \in RecordsOf(a) <=> i \in DOMAIN ledger /\ ledger[i].asset = a
           /\ \A i : i \in RecordsOf(a)' <=> i \in DOMAIN ledger' /\ ledger'[i].asset = a
<1>1. /\ S \subseteq Live
      /\ unit' = [b \in Assets |-> IF b \in S THEN rows[b] ELSE unit[b]]
  BY DEF Commit
<1>2. a \in Live /\ a \in Assets /\ unit'[a].status # "deleted"
  BY <1>1 DEF Live
<1>3. unit'[a] = IF a \in S THEN rows[a] ELSE unit[a]
  BY <1>1, <1>2
<1>4. a \in S => Told(r, unit'[a], a, added)
  BY <1>2, <1>3
<1> QED BY <1>2, <1>3, <1>4 DEF About, RecordsOf

\* The five parts of the invariant, after a commit that tells what it does.
LEMMA CommitTells ==
    ASSUME TypeInv, LedgerOK, NEW r \in Requests, NEW S \in SUBSET Assets, NEW rows,
           NEW added \in Seq(Record), Commit(r, S, rows, added), About(S, added),
           \A a \in S : rows[a].status = "deleted" \/ Told(r, rows[a], a, added)
    PROVE  LastTells' /\ Addressed'
<1>1. Appends(r, added)
  BY CommitAppends
<1>2. Addressed'
  <2> SUFFICES ASSUME NEW i \in DOMAIN ledger', ledger'[i].type = "ASSIGNMENT" PROVE ledger'[i].to # NoUser
    BY DEF Addressed
  <2>1. CASE i \in DOMAIN ledger
    BY <1>1, <2>1 DEF Appends, LedgerOK, Addressed
  <2>2. CASE i \notin DOMAIN ledger
    BY <1>1, <2>2 DEF Appends, About
  <2> QED BY <2>1, <2>2
<1>3. LastTells'
  <2> SUFFICES ASSUME NEW a \in Live', NEW i \in RecordsOf(a)', \A j \in RecordsOf(a)' : j <= i
               PROVE  unit'[a].holder = IF ledger'[i].type = "ASSIGNMENT" THEN ledger'[i].to ELSE NoUser
    BY DEF LastTells
  <2>1. /\ a \in Live /\ a \in Assets
        /\ a \notin S => unit'[a] = unit[a]
        /\ a \in S => Told(r, unit'[a], a, added)
        /\ \A k \in DOMAIN added : added[k].asset = a => a \in S
        /\ \A j : j \in RecordsOf(a) <=> j \in DOMAIN ledger /\ ledger[j].asset = a
        /\ \A j : j \in RecordsOf(a)' <=> j \in DOMAIN ledger' /\ ledger'[j].asset = a
    BY CommitLeaves
  <2>2. CASE i \in DOMAIN ledger
    <3>1. \A k \in DOMAIN added : added[k].asset # a
      <4> SUFFICES ASSUME NEW k \in DOMAIN added, added[k].asset = a PROVE FALSE
        OBVIOUS
      <4>1. Len(ledger) + k \in RecordsOf(a)'
        BY <1>1, <2>1 DEF Appends
      <4>2. Len(ledger) + k <= i /\ i \in Nat /\ i <= Len(ledger) /\ Len(ledger) \in Nat /\ k \in Nat /\ k > 0
        BY <1>1, <2>2, <4>1 DEF Appends
      <4> QED BY <4>2
    <3>2. unit'[a].holder = unit[a].holder
      BY <2>1, <3>1 DEF Told, NewestTells
    <3>3. i \in RecordsOf(a) /\ \A j \in RecordsOf(a) : j <= i
      BY <1>1, <2>1, <2>2 DEF Appends
    <3>4. unit[a].holder = IF ledger[i].type = "ASSIGNMENT" THEN ledger[i].to ELSE NoUser
      BY <2>1, <3>3 DEF LedgerOK, LastTells
    <3> QED BY <1>1, <2>2, <3>2, <3>4 DEF Appends
  <2>3. CASE i \notin DOMAIN ledger
    <3>1. PICK k \in DOMAIN added : i = Len(ledger) + k /\ ledger'[i] = added[k]
      BY <1>1, <2>1, <2>3 DEF Appends
    <3>2. added[k].asset = a /\ a \in S
      BY <2>1, <3>1
    <3>3. \A m \in DOMAIN added : added[m].asset = a => m <= k
      <4> SUFFICES ASSUME NEW m \in DOMAIN added, added[m].asset = a PROVE m <= k
        OBVIOUS
      <4>1. Len(ledger) + m \in RecordsOf(a)'
        BY <1>1, <2>1 DEF Appends
      <4>2. Len(ledger) + m <= Len(ledger) + k /\ Len(ledger) \in Nat /\ m \in Nat /\ k \in Nat
        BY <1>1, <3>1, <4>1 DEF Appends
      <4> QED BY <4>2
    <3> QED BY <2>1, <3>1, <3>2, <3>3 DEF Told, NewestTells
  <2> QED BY <2>2, <2>3
<1> QED BY <1>2, <1>3

\* A commit that tells whom it gives each of its assets to keeps every asset's records chained:
\* what was handed over comes back from the same person before it goes to another.
LEMMA CommitHandsBack ==
    ASSUME TypeInv, LedgerOK, NEW r \in Requests, NEW S \in SUBSET Assets, NEW rows,
           NEW added \in Seq(Record), Commit(r, S, rows, added), About(S, added),
           \A a \in S : rows[a].status = "deleted" \/ Told(r, rows[a], a, added)
    PROVE  HandedBack' /\ ChainUnbroken'
<1>1. Appends(r, added)
  BY CommitAppends
<1>2. \A i, k \in DOMAIN ledger : HandsBack(i, k) => HandsBack(i, k)'
  BY <1>1 DEF Appends, HandsBack
<1>3. ASSUME NEW a \in Live'
      PROVE  /\ a \in Live /\ a \in Assets
             /\ a \notin S => unit'[a] = unit[a]
             /\ a \in S => Told(r, unit'[a], a, added)
             /\ \A k \in DOMAIN added : added[k].asset = a => a \in S
             /\ \A j : j \in RecordsOf(a) <=> j \in DOMAIN ledger /\ ledger[j].asset = a
             /\ \A j : j \in RecordsOf(a)' <=> j \in DOMAIN ledger' /\ ledger'[j].asset = a
  BY <1>3, CommitLeaves
<1>4. HandedBack'
  <2> SUFFICES ASSUME NEW a \in Live', NEW i \in RecordsOf(a)',
                      ledger'[i].type = "ASSIGNMENT", ledger'[i].to # unit'[a].holder
               PROVE  \E k \in DOMAIN ledger' : i < k /\ HandsBack(i, k)'
    BY DEF HandedBack
  <2>1. i \in DOMAIN ledger' /\ ledger'[i].asset = a
    BY <1>3
  <2>2. i \in DOMAIN ledger
    <3> SUFFICES ASSUME i \notin DOMAIN ledger PROVE FALSE
      OBVIOUS
    <3>1. PICK k \in DOMAIN added : ledger'[i] = added[k]
      BY <1>1, <2>1 DEF Appends
    <3>2. Told(r, unit'[a], a, added)
      BY <1>3, <2>1, <3>1
    <3> QED BY <2>1, <3>1, <3>2 DEF Told, GivenIs
  <2>3. /\ i \in RecordsOf(a) /\ ledger[i].type = "ASSIGNMENT" /\ ledger[i].to = ledger'[i].to
        /\ ledger[i].asset = a
    BY <1>1, <1>3, <2>1, <2>2 DEF Appends
  <2>4. CASE ledger[i].to # unit[a].holder
    <3>1. PICK k \in DOMAIN ledger : i < k /\ HandsBack(i, k)
      BY <1>3, <2>3, <2>4 DEF LedgerOK, HandedBack
    <3> QED BY <1>1, <1>2, <2>2, <3>1 DEF Appends
  <2>5. CASE ledger[i].to = unit[a].holder
    <3>1. unit[a].holder # NoUser /\ unit'[a].holder # unit[a].holder
      BY <2>2, <2>3, <2>5 DEF LedgerOK, Addressed
    <3>2. Told(r, unit'[a], a, added)
      BY <1>3, <3>1
    <3>3. PICK m \in DOMAIN added : /\ added[m].asset = a /\ added[m].type = "RETURN"
                                    /\ added[m].to = unit[a].holder
      BY <3>1, <3>2 DEF Told, TakenBack
    <3>4. /\ Len(ledger) + m \in DOMAIN ledger' /\ ledger'[Len(ledger) + m] = added[m]
          /\ m \in Nat /\ m > 0 /\ Len(ledger) \in Nat /\ i \in Nat /\ i <= Len(ledger)
      BY <1>1, <2>2 DEF Appends
    <3>5. i < Len(ledger) + m
      BY <3>4
    <3>6. PICK n \in DOMAIN ledger' : n = Len(ledger) + m
      BY <3>4
    <3>7. HandsBack(i, n)'
      BY <2>1, <2>3, <2>5, <3>3, <3>4, <3>6 DEF HandsBack
    <3> QED BY <3>5, <3>6, <3>7
  <2> QED BY <2>4, <2>5
<1>5. ChainUnbroken'
  <2> SUFFICES ASSUME NEW a \in Assets, NEW i \in RecordsOf(a)', NEW j \in RecordsOf(a)',
                      i < j, ledger'[i].type = "ASSIGNMENT", ledger'[j].type = "ASSIGNMENT",
                      ledger'[i].to # ledger'[j].to
               PROVE  \E k \in (i + 1) .. (j - 1) : /\ ledger'[k].asset = a /\ ledger'[k].type = "RETURN"
                                                    /\ ledger'[k].to = ledger'[i].to
    BY DEF ChainUnbroken
  <2>1. a \in Live'
    BY DEF RecordsOf
  <2>2. /\ i \in DOMAIN ledger' /\ ledger'[i].asset = a
        /\ j \in DOMAIN ledger' /\ ledger'[j].asset = a
    BY <1>3, <2>1
  <2>3. ASSUME NEW n \in DOMAIN ledger', n \notin DOMAIN ledger
        PROVE  \E k \in DOMAIN added : /\ n = Len(ledger) + k /\ ledger'[n] = added[k]
                                       /\ k \in Nat /\ k > 0
    BY <1>1, <2>3 DEF Appends
  <2>4. ASSUME NEW n \in DOMAIN ledger', n \notin DOMAIN ledger, ledger'[n].asset = a,
               ledger'[n].type = "ASSIGNMENT"
        PROVE  ledger'[n].to = unit'[a].holder /\ Told(r, unit'[a], a, added)
    <3>1. PICK k \in DOMAIN added : ledger'[n] = added[k]
      BY <2>3, <2>4
    <3>2. Told(r, unit'[a], a, added)
      BY <1>3, <2>1, <2>4, <3>1
    <3> QED BY <2>4, <3>1, <3>2 DEF Told, GivenIs
  <2>5. i \in DOMAIN ledger
    <3> SUFFICES ASSUME i \notin DOMAIN ledger PROVE FALSE
      OBVIOUS
    <3>1. j \notin DOMAIN ledger
      <4>1. PICK k \in DOMAIN added : i = Len(ledger) + k /\ k \in Nat /\ k > 0
        BY <2>2, <2>3
      <4>2. j \in DOMAIN ledger => j \in Nat /\ j <= Len(ledger) /\ Len(ledger) \in Nat
        BY <1>1 DEF Appends
      <4> QED BY <4>1, <4>2
    <3> QED BY <2>2, <2>4, <3>1
  <2>6. /\ i \in Nat /\ i <= Len(ledger) /\ Len(ledger) \in Nat
        /\ ledger[i].asset = a /\ ledger[i].type = "ASSIGNMENT" /\ ledger[i].to = ledger'[i].to
        /\ i \in RecordsOf(a)
    BY <1>1, <1>3, <2>1, <2>2, <2>5 DEF Appends
  <2>7. CASE j \in DOMAIN ledger
    <3>1. j \in RecordsOf(a) /\ ledger[j].type = "ASSIGNMENT" /\ ledger[j].to = ledger'[j].to
      BY <1>1, <1>3, <2>1, <2>2, <2>7 DEF Appends
    <3>2. PICK k \in (i + 1) .. (j - 1) : /\ ledger[k].asset = a /\ ledger[k].type = "RETURN"
                                          /\ ledger[k].to = ledger[i].to
      BY <2>6, <3>1 DEF LedgerOK, ChainUnbroken
    <3>3. j \in Nat /\ j <= Len(ledger)
      BY <1>1, <2>7 DEF Appends
    <3>4. k \in DOMAIN ledger
      BY <1>1, <2>6, <3>2, <3>3 DEF Appends
    <3> QED BY <1>1, <2>6, <3>2, <3>4 DEF Appends
  <2>8. CASE j \notin DOMAIN ledger
    <3>1. PICK n \in DOMAIN added : j = Len(ledger) + n /\ ledger'[j] = added[n] /\ n \in Nat /\ n > 0
      BY <2>2, <2>3, <2>8
    <3>2. ledger'[j].to = unit'[a].holder /\ Told(r, unit'[a], a, added)
      BY <2>2, <2>4, <2>8
    <3>3. CASE ledger[i].to # unit[a].holder
      <4>1. PICK k \in DOMAIN ledger : i < k /\ HandsBack(i, k)
        BY <1>3, <2>1, <2>6, <3>3 DEF LedgerOK, HandedBack
      <4>2. k \in Nat /\ k <= Len(ledger)
        BY <1>1, <4>1 DEF Appends
      <4>3. k \in (i + 1) .. (j - 1)
        BY <2>6, <3>1, <4>1, <4>2
      <4>4. ledger'[k].asset = a /\ ledger'[k].type = "RETURN" /\ ledger'[k].to = ledger'[i].to
        BY <1>2, <2>2, <2>5, <4>1 DEF HandsBack
      <4> QED BY <4>3, <4>4
    <3>4. CASE ledger[i].to = unit[a].holder
      <4>1. unit[a].holder # NoUser /\ unit'[a].holder # unit[a].holder
        BY <2>5, <2>6, <3>2, <3>4 DEF LedgerOK, Addressed
      <4>2. PICK m \in DOMAIN added :
               /\ added[m].asset = a /\ added[m].type = "RETURN" /\ added[m].to = unit[a].holder
               /\ \A k \in DOMAIN added : added[k].asset = a /\ added[k].type = "ASSIGNMENT" => m < k
        BY <3>2, <4>1 DEF Told, TakenBack
      <4>3. m < n
        BY <2>2, <3>1, <4>2
      <4>4. m \in Nat /\ m > 0 /\ ledger'[Len(ledger) + m] = added[m]
        BY <1>1 DEF Appends
      <4>5. Len(ledger) + m \in (i + 1) .. (j - 1)
        BY <2>6, <3>1, <4>3, <4>4
      <4> QED BY <2>6, <3>4, <4>2, <4>4, <4>5
    <3> QED BY <3>3, <3>4
  <2> QED BY <2>7, <2>8
<1> QED BY <1>4, <1>5

\* A commit leaves no live asset flagged without a record that waits for a document.
LEMMA CommitFlags ==
    ASSUME TypeInv, LedgerOK, NEW r \in Requests, NEW S \in SUBSET Assets, NEW rows,
           NEW added \in Seq(Record), Commit(r, S, rows, added), About(S, added),
           \A a \in S : rows[a].status = "deleted" \/ Told(r, rows[a], a, added),
           \A i \in resolved[r] : i \in DOMAIN ledger /\ ledger[i].asset \in S
    PROVE  FlagHasRecord'
<1>1. Appends(r, added)
  BY CommitAppends
<1> SUFFICES ASSUME NEW a \in Live', unit'[a].flag PROVE PendingOf(a)' # {}
  BY DEF FlagHasRecord
<1>2. /\ a \in Live /\ a \in Assets
      /\ a \notin S => unit'[a] = unit[a]
      /\ a \in S => Told(r, unit'[a], a, added)
      /\ \A k \in DOMAIN added : added[k].asset = a => a \in S
      /\ \A j : j \in RecordsOf(a) <=> j \in DOMAIN ledger /\ ledger[j].asset = a
      /\ \A j : j \in RecordsOf(a)' <=> j \in DOMAIN ledger' /\ ledger'[j].asset = a
  BY CommitLeaves
<1>3. \A i : i \in PendingOf(a)' <=> i \in RecordsOf(a)' /\ ledger'[i].pending
  BY DEF PendingOf
<1>4. \A i : i \in PendingOf(a) <=> i \in RecordsOf(a) /\ ledger[i].pending
  BY DEF PendingOf
<1>5. ASSUME NEW i \in PendingOf(a), i \notin resolved[r] PROVE i \in PendingOf(a)'
  BY <1>1, <1>2, <1>3, <1>4, <1>5 DEF Appends
<1>6. CASE a \notin S
  <2>1. PICK i \in PendingOf(a) : TRUE
    BY <1>2, <1>6 DEF LedgerOK, FlagHasRecord
  <2>2. i \notin resolved[r]
    BY <1>2, <1>4, <1>6, <2>1
  <2> QED BY <1>5, <2>2
<1>7. CASE a \in S
  <2>1. CASE \E k \in DOMAIN added : added[k].asset = a /\ added[k].pending
    <3>1. PICK k \in DOMAIN added : added[k].asset = a /\ added[k].pending
      BY <2>1
    <3>2. Len(ledger) + k \in DOMAIN ledger' /\ ledger'[Len(ledger) + k] = added[k]
      BY <1>1 DEF Appends
    <3>3. Len(ledger) + k \in PendingOf(a)'
      BY <1>2, <1>3, <3>1, <3>2
    <3> QED BY <3>3
  <2>2. CASE ~ \E k \in DOMAIN added : added[k].asset = a /\ added[k].pending
    <3>1. PICK i \in PendingOf(a) : i \notin resolved[r]
      BY <1>2, <1>7, <2>2 DEF Told, Announced
    <3> QED BY <1>5, <3>1
  <2> QED BY <2>1, <2>2
<1> QED BY <1>6, <1>7

\* A commit that tells what it does keeps the ledger in step with the custody.
LEMMA CommitOrders ==
    ASSUME TypeInv, LedgerOK, NEW r \in Requests, NEW S \in SUBSET Assets, NEW rows,
           NEW added \in Seq(Record), Commit(r, S, rows, added), About(S, added),
           \A a \in S : rows[a].status = "deleted" \/ Told(r, rows[a], a, added),
           \A i \in resolved[r] : i \in DOMAIN ledger /\ ledger[i].asset \in S
    PROVE  LedgerOK'
<1>1. LastTells' /\ Addressed'
  BY CommitTells
<1>2. HandedBack' /\ ChainUnbroken'
  BY CommitHandsBack
<1>3. FlagHasRecord'
  BY CommitFlags
<1> QED BY <1>1, <1>2, <1>3 DEF LedgerOK

\* There is a record for each asset, and each is of one of them.
LEMMA EachIsWritten ==
    ASSUME TypeInv, NEW r \in Requests, NEW kind \in {"ASSIGNMENT", "RETURN"},
           NEW to \in [Assets -> Holder]
    PROVE  /\ RecordEach(r, units[r], kind, to) \in Seq(Record)
           /\ WrittenFor(RecordEach(r, units[r], kind, to), r, units[r], kind, to)
           /\ \A a \in units[r] : \E k \in DOMAIN RecordEach(r, units[r], kind, to) :
                 RecordEach(r, units[r], kind, to)[k].asset = a
<1>1. units[r] \in SUBSET Assets
  BY DEF TypeInv, LocalsOK
<1>2. /\ RecordEach(r, units[r], kind, to) \in Seq(Record)
      /\ \A a \in units[r] : \E k \in DOMAIN RecordEach(r, units[r], kind, to) :
            RecordEach(r, units[r], kind, to)[k] = NewRecord(r, a, kind, to[a], FALSE)
  BY <1>1, RecordsWritten
<1>3. WrittenFor(RecordEach(r, units[r], kind, to), r, units[r], kind, to)
  BY <1>1, RecordsAreOf
<1>4. \A a \in units[r] : NewRecord(r, a, kind, to[a], FALSE).asset = a
  BY DEF NewRecord
<1>5. \A a \in units[r] : \E k \in DOMAIN RecordEach(r, units[r], kind, to) :
         RecordEach(r, units[r], kind, to)[k].asset = a
  BY <1>2, <1>4
<1> QED BY <1>2, <1>3, <1>5

\* Assets given to a user who gets a record for each.
LEMMA GivenTold ==
    ASSUME NEW r \in Requests, NEW S, NEW added, NEW u \in Users, NEW a \in S, NEW row,
           WrittenFor(added, r, S, "ASSIGNMENT", To(u)), S \subseteq Assets,
           \E k \in DOMAIN added : added[k].asset = a,
           unit[a].holder \in {NoUser, u}, row.holder = u, row.flag => ~ doc[r]
    PROVE  Told(r, row, a, added)
<1>1. \A k \in DOMAIN added : /\ added[k].asset \in S /\ added[k].type = "ASSIGNMENT"
                              /\ added[k].to = u /\ added[k].pending = (~ doc[r])
  BY DEF WrittenFor, To
<1>2. NewestTells(row, a, added) /\ GivenIs(row, a, added)
  BY <1>1 DEF NewestTells, GivenIs
<1>3. TakenBack(row, a, added)
  BY DEF TakenBack
<1>4. Announced(r, row, a, added)
  BY <1>1 DEF Announced
<1> QED BY <1>2, <1>3, <1>4 DEF Told

\* Assets handed back by whom the record names.
LEMMA ReturnTold ==
    ASSUME NEW r \in Requests, NEW S, NEW added, NEW to, NEW a \in S, NEW row,
           WrittenFor(added, r, S, "RETURN", to),
           \E k \in DOMAIN added : added[k].asset = a,
           to[a] = unit[a].holder, row.holder = NoUser, row.flag => ~ doc[r]
    PROVE  Told(r, row, a, added)
<1>1. \A k \in DOMAIN added : /\ added[k].asset \in S /\ added[k].type = "RETURN"
                              /\ added[k].to = to[added[k].asset] /\ added[k].pending = (~ doc[r])
  BY DEF WrittenFor
<1>2. NewestTells(row, a, added) /\ GivenIs(row, a, added)
  BY <1>1 DEF NewestTells, GivenIs
<1>3. TakenBack(row, a, added)
  BY <1>1 DEF TakenBack
<1>4. Announced(r, row, a, added)
  BY <1>1 DEF Announced
<1> QED BY <1>2, <1>3, <1>4 DEF Told

\* The commits of the endpoints, by a request that runs alone.
LEMMA AllocateOrders ==
    ASSUME TypeInv, LedgerOK, NEW r \in Requests, Fresh(r), Allocate(r)
    PROVE  LedgerOK'
<1> DEFINE rows == Row(r, "IN_USE", who[r])
           added == RecordEach(r, units[r], "ASSIGNMENT", To(who[r]))
<1>1. Commit(r, units[r], rows, added) /\ pc[r] = "allocate" /\ units[r] \subseteq Live
  BY DEF Allocate, Commit
<1>2. units[r] \in SUBSET Assets /\ who[r] \in Users /\ who[r] # NoUser /\ doc[r] \in BOOLEAN
  BY <1>1, CustodyAssumption DEF TypeInv, LocalsOK, StepsOK, Giving
<1>3. To(who[r]) \in [Assets -> Holder] /\ \A a \in Assets : To(who[r])[a] = who[r]
  BY <1>2 DEF To, Holder
<1>4. /\ added \in Seq(Record)
      /\ WrittenFor(added, r, units[r], "ASSIGNMENT", To(who[r]))
      /\ \A a \in units[r] : \E k \in DOMAIN added : added[k].asset = a
  BY <1>3, EachIsWritten
<1>5. \A a \in units[r] : rows[a].holder = who[r] /\ (rows[a].flag => ~ doc[r])
  BY <1>2 DEF Row
<1>6. \A a \in units[r] : unit[a].holder = NoUser
  BY <1>1 DEF Fresh
<1>7. \A i \in resolved[r] : i \in DOMAIN ledger /\ ledger[i].asset \in units[r]
  BY DEF Fresh
<1> HIDE DEF rows, added
<1>8. About(units[r], added)
  BY <1>2, <1>3, <1>4 DEF About, WrittenFor
<1>9. \A a \in units[r] : Told(r, rows[a], a, added)
  BY <1>2, <1>4, <1>5, <1>6, GivenTold
<1> QED BY <1>1, <1>2, <1>4, <1>7, <1>8, <1>9, CommitOrders

\* returnAsset keeps the order of the records.
LEMMA ReturnOrders ==
    ASSUME TypeInv, LedgerOK, NEW r \in Requests, Fresh(r), Return(r)
    PROVE  LedgerOK'
<1> DEFINE added == RecordEach(r, units[r], "RETURN", seen[r])
<1>1. PICK s \in ReturnStatus : Commit(r, units[r], Row(r, s, NoUser), added)
  BY DEF Return, ReturnStatus
<1> DEFINE rows == Row(r, s, NoUser)
<1>2. pc[r] = "return" /\ units[r] \subseteq Live
  BY <1>1 DEF Return, Commit
<1>3. units[r] \in SUBSET Assets /\ seen[r] \in [Assets -> Holder] /\ doc[r] \in BOOLEAN
  BY DEF TypeInv, LocalsOK
<1>4. /\ added \in Seq(Record)
      /\ WrittenFor(added, r, units[r], "RETURN", seen[r])
      /\ \A a \in units[r] : \E k \in DOMAIN added : added[k].asset = a
  BY <1>3, EachIsWritten
<1>5. \A a \in units[r] : rows[a].holder = NoUser /\ (rows[a].flag => ~ doc[r])
  BY <1>3 DEF Row
<1>6. \A a \in units[r] : seen[r][a] = unit[a].holder
  BY <1>2 DEF Fresh
<1>7. \A i \in resolved[r] : i \in DOMAIN ledger /\ ledger[i].asset \in units[r]
  BY DEF Fresh
<1>8. Commit(r, units[r], rows, added)
  BY <1>1
<1> HIDE DEF rows, added
<1>9. About(units[r], added)
  BY <1>4 DEF About, WrittenFor
<1>10. \A a \in units[r] : Told(r, rows[a], a, added)
  BY <1>4, <1>5, <1>6, ReturnTold
<1> QED BY <1>3, <1>4, <1>7, <1>8, <1>9, <1>10, CommitOrders

\* transfer writes the return and the assignment in the order in which they happened.
LEMMA TransferOrders ==
    ASSUME TypeInv, LedgerOK, NEW r \in Requests, Fresh(r), Transfer(r)
    PROVE  LedgerOK'
<1> DEFINE back == NewRecord(r, Unit(r), "RETURN", seen[r][Unit(r)], TRUE)
           out == NewRecord(r, Unit(r), "ASSIGNMENT", who[r], TRUE)
           rows == Row(r, "IN_USE", who[r])
<1>1. Commit(r, units[r], rows, <<back, out>>) /\ pc[r] = "transfer" /\ units[r] \subseteq Live
  BY DEF Transfer, Commit
<1>2. /\ units[r] \in SUBSET Assets /\ who[r] \in Users /\ who[r] \in Holder /\ who[r] # NoUser
      /\ doc[r] \in BOOLEAN /\ seen[r] \in [Assets -> Holder]
  BY <1>1, CustodyAssumption DEF TypeInv, LocalsOK, StepsOK, Giving, Moving, Holder
<1>3. Unit(r) \in Assets /\ units[r] = {Unit(r)}
  BY <1>1, UnitIs DEF TypeInv, StepsOK, Moving, Unitless, Unit
<1>4. back \in Record /\ out \in Record
  BY <1>2, <1>3, RecordIs
<1>5. /\ back.asset = Unit(r) /\ back.type = "RETURN" /\ back.to = seen[r][Unit(r)]
      /\ out.asset = Unit(r) /\ out.type = "ASSIGNMENT" /\ out.to = who[r]
      /\ out.pending = (~ doc[r])
  BY DEF NewRecord
<1>6. rows[Unit(r)].holder = who[r] /\ (rows[Unit(r)].flag => ~ doc[r])
  BY <1>2, <1>3 DEF Row
<1>7. seen[r][Unit(r)] = unit[Unit(r)].holder
  BY <1>1, <1>3 DEF Fresh
<1>8. \A i \in resolved[r] : i \in DOMAIN ledger /\ ledger[i].asset \in units[r]
  BY DEF Fresh
<1> HIDE DEF back, out, rows
<1>9. PICK added \in Seq(Record) : added = <<back, out>>
  <2>1. <<back, out>> \in Seq(Record)
    BY <1>4
  <2> QED BY <2>1
<1>10. DOMAIN added = 1 .. 2 /\ added[1] = back /\ added[2] = out
  BY <1>9
<1>11. \A k \in DOMAIN added : k = 1 \/ k = 2
  BY <1>10
<1>12. About(units[r], added)
  BY <1>2, <1>3, <1>5, <1>10, <1>11 DEF About
<1>13. NewestTells(rows[Unit(r)], Unit(r), added)
  <2>1. 2 \in DOMAIN added /\ 1 \in DOMAIN added
    BY <1>10
  <2>2. \A k \in DOMAIN added : (\A m \in DOMAIN added : added[m].asset = Unit(r) => m <= k) => k = 2
    BY <1>5, <1>10, <1>11, <2>1
  <2> QED BY <1>5, <1>6, <1>10, <2>1, <2>2 DEF NewestTells
<1>14. GivenIs(rows[Unit(r)], Unit(r), added)
  BY <1>5, <1>6, <1>10, <1>11 DEF GivenIs
<1>15. TakenBack(rows[Unit(r)], Unit(r), added)
  <2>1. 1 \in DOMAIN added /\ added[1].asset = Unit(r) /\ added[1].type = "RETURN"
        /\ added[1].to = unit[Unit(r)].holder
    BY <1>5, <1>7, <1>10
  <2>2. \A k \in DOMAIN added : added[k].type = "ASSIGNMENT" => 1 < k
    BY <1>5, <1>10, <1>11
  <2> QED BY <2>1, <2>2 DEF TakenBack
<1>16. Announced(r, rows[Unit(r)], Unit(r), added)
  <2>1. 2 \in DOMAIN added /\ added[2].asset = Unit(r) /\ added[2].pending = (~ doc[r])
    BY <1>5, <1>10
  <2> QED BY <1>6, <2>1 DEF Announced
<1>17. \A a \in units[r] : Told(r, rows[a], a, added)
  BY <1>3, <1>13, <1>14, <1>15, <1>16 DEF Told
<1>18. Commit(r, units[r], rows, added)
  BY <1>1, <1>9
<1> QED BY <1>2, <1>8, <1>12, <1>17, <1>18, CommitOrders

\* attachHandoverDocument keeps the order: it confirms records of its own assets, or writes the
\* missing one, of the holder it read.
LEMMA AttachOrders ==
    ASSUME TypeInv, AloneOK, LedgerOK, NEW r \in Requests, alone[r], Fresh(r), Attach(r)
    PROVE  LedgerOK'
<1> DEFINE u == seen[r][Unit(r)]
           kind == IF u = NoUser THEN "RETURN" ELSE "ASSIGNMENT"
           rows == [b \in Assets |-> [unit[b] EXCEPT !.flag = left[r]]]
           new == RecordEach(r, units[r], kind, To(u))
           added == IF resolved[r] # {} THEN <<>> ELSE new
<1>1. Commit(r, units[r], rows, added) /\ pc[r] = "attach" /\ units[r] \subseteq Live
  BY DEF Attach, Commit
<1>2. PICK a \in Assets : units[r] = {a} /\ (a \in Live => ChoiceIs(r, a) /\ CountIs(r, a))
  BY <1>1 DEF AloneOK, AttachOK, Attaching, Chosen
<1>3. /\ a \in Live /\ Unit(r) = a /\ u = unit[a].holder /\ u \in Holder
      /\ To(u) \in [Assets -> Holder] /\ To(u)[a] = u /\ units[r] \in SUBSET Assets
  BY <1>1, <1>2 DEF Unit, Fresh, TypeInv, LocalsOK, To
<1>4. kind \in {"ASSIGNMENT", "RETURN"}
  OBVIOUS
<1>5. unit[a] \in UnitRow
  BY DEF TypeInv, TablesOK
<1>6. rows[a].flag = left[r] /\ rows[a].holder = unit[a].holder
  BY <1>5 DEF UnitRow
<1>7. kind = "ASSIGNMENT" <=> u # NoUser
  OBVIOUS
<1> HIDE DEF kind, u
<1>8. /\ new \in Seq(Record)
      /\ WrittenFor(new, r, units[r], kind, To(u))
      /\ \A b \in units[r] : \E k \in DOMAIN new : new[k].asset = b
  BY <1>3, <1>4, EachIsWritten
<1>9. \A i \in resolved[r] : i \in DOMAIN ledger /\ ledger[i].asset \in units[r]
  BY DEF Fresh
<1> HIDE DEF rows, new
<1>10. \A k \in DOMAIN new : new[k].asset = a /\ new[k].type = kind /\ new[k].to = u
  BY <1>2, <1>3, <1>8 DEF WrittenFor
<1>11. /\ added \in Seq(Record)
       /\ \A k \in DOMAIN added : added[k].asset = a /\ added[k].type = kind /\ added[k].to = u
  BY <1>8, <1>10
<1> HIDE DEF added
<1>12. About(units[r], added)
  BY <1>2, <1>7, <1>11 DEF About
<1>13. NewestTells(rows[a], a, added)
  BY <1>3, <1>4, <1>6, <1>7, <1>11 DEF NewestTells
<1>14. GivenIs(rows[a], a, added) /\ TakenBack(rows[a], a, added)
  BY <1>3, <1>6, <1>11 DEF GivenIs, TakenBack
<1>15. Announced(r, rows[a], a, added)
  BY <1>2, <1>3, <1>6 DEF Announced, CountIs
<1>16. \A b \in units[r] : Told(r, rows[b], b, added)
  BY <1>2, <1>13, <1>14, <1>15 DEF Told
<1> QED BY <1>1, <1>3, <1>9, <1>11, <1>12, <1>16, CommitOrders

\* Deleting assets adds no record, and who is gone needs none.
LEMMA DeleteOrders ==
    ASSUME TypeInv, LedgerOK, NEW r \in Requests, Fresh(r), Delete(r)
    PROVE  LedgerOK'
<1> DEFINE rows == [a \in Assets |-> Deleted]
<1>1. Commit(r, units[r], rows, <<>>) /\ units[r] \in SUBSET Assets /\ <<>> \in Seq(Record)
  BY DEF Delete, TypeInv, LocalsOK
<1>2. \A a \in units[r] : rows[a].status = "deleted"
  BY <1>1 DEF Deleted
<1>3. About(units[r], <<>>)
  BY DEF About
<1>4. \A i \in resolved[r] : i \in DOMAIN ledger /\ ledger[i].asset \in units[r]
  BY DEF Fresh
<1> HIDE DEF rows
<1> QED BY <1>1, <1>2, <1>3, <1>4, CommitOrders

\* Assets that are as they were, and a ledger that is.
LEMMA StillOrdered ==
    ASSUME LedgerOK, UNCHANGED ledger, Live' \subseteq Live, \A a \in Live' : unit'[a] = unit[a]
    PROVE  LedgerOK'
<1>1. \A a \in Live' : RecordsOf(a)' = RecordsOf(a) /\ PendingOf(a)' = PendingOf(a)
  BY DEF RecordsOf, PendingOf
<1>2. LastTells'
  BY <1>1 DEF LedgerOK, LastTells
<1>3. Addressed'
  BY DEF LedgerOK, Addressed
<1>4. HandedBack'
  BY <1>1 DEF LedgerOK, HandedBack, HandsBack
<1>5. ChainUnbroken'
  <2>1. \A a \in Assets : RecordsOf(a)' \subseteq RecordsOf(a)
    BY DEF RecordsOf
  <2> QED BY <2>1 DEF LedgerOK, ChainUnbroken
<1>6. FlagHasRecord'
  BY <1>1 DEF LedgerOK, FlagHasRecord
<1> QED BY <1>2, <1>3, <1>4, <1>5, <1>6 DEF LedgerOK

\* Only the request that runs is in the middle of anything.
LEMMA RestIsFresh ==
    ASSUME AloneOK', NEW r \in Requests, Fresh(r)', \A q \in Requests \ {r} : pc'[q] = "idle"
    PROVE  \A q \in Requests : Fresh(q)'
<1>1. ASSUME NEW q \in Requests, q # r PROVE Fresh(q)'
  <2>1. pc'[q] = "idle" /\ resolved'[q] = {}
    BY <1>1 DEF AloneOK
  <2> QED BY <2>1 DEF Fresh, Disorderly, Wild
<1> QED BY <1>1

\* The end of a request that ran alone.
LEMMA EndIsOrdered ==
    ASSUME TypeInv, AloneOK, AloneOK', OrderOK, NEW r \in Requests, pc[r] # "idle", Reset(r), LedgerOK'
    PROVE  OrderOK'
<1>1. alone[r] /\ \A q \in Requests \ {r} : pc[q] = "idle"
  BY DEF OrderOK, AloneOK
<1>2. \A q \in Requests : pc'[q] = "idle"
  BY <1>1, ResetTypes
<1>3. \A q \in Requests : Fresh(q)'
  <2> TAKE q \in Requests
  <2>1. pc'[q] = "idle" /\ resolved'[q] = {}
    BY <1>2 DEF AloneOK
  <2> QED BY <2>1 DEF Fresh, Disorderly, Wild
<1> QED BY <1>2, <1>3 DEF OrderOK

\* A step of a request that goes on, alone.
LEMMA StepIsOrdered ==
    ASSUME TypeInv, AloneOK, AloneOK', OrderOK, NEW r \in Requests, pc[r] # "idle",
           NEW step, Goto(r, step), UNCHANGED <<unit, ledger, alone>>, Fresh(r)'
    PROVE  OrderOK'
<1>1. alone[r] /\ \A q \in Requests \ {r} : pc[q] = "idle"
  BY DEF OrderOK, AloneOK
<1>2. \A q \in Requests \ {r} : pc'[q] = "idle"
  BY <1>1 DEF Goto, TypeInv, StepsOK
<1>3. \A q \in Requests : Fresh(q)'
  BY <1>2, RestIsFresh
<1>4. LedgerOK'
  BY StillOrdered DEF OrderOK, Live
<1>5. \A q \in Requests : pc'[q] # "idle" => alone'[q]
  BY <1>1, <1>2
<1> QED BY <1>3, <1>4, <1>5 DEF OrderOK

\* A request that begins while none runs.
LEMMA BeginIsOrdered ==
    ASSUME TypeInv, AloneOK, AloneOK', OrderOK, OneAtATime', NEW r \in Requests,
           NEW kind, NEW S, NEW u, NEW signed, NEW step, Begin(r, kind, S, u, signed, step),
           step \in {"checkAvailable", "checkIssued", "checkTransfer", "readHolder", "checkFree"}
    PROVE  OrderOK'
<1>1. /\ pc[r] = "idle" /\ pc' = [pc EXCEPT ![r] = step]
      /\ UNCHANGED <<unit, ledger, resolved>>
      /\ alone' = [q \in Requests |-> q = r /\ \A p \in Requests \ {r} : pc[p] = "idle"]
  BY DEF Begin, Goto, tables
<1>2. pc'[r] = step /\ \A q \in Requests \ {r} : pc'[q] = pc[q]
  BY <1>1 DEF TypeInv, StepsOK
<1>3. \A q \in Requests \ {r} : pc[q] = "idle" /\ pc'[q] = "idle"
  BY <1>2 DEF OneAtATime
<1>4. alone'[r]
  BY <1>1, <1>3
<1>5. resolved'[r] = {}
  BY <1>1 DEF AloneOK
<1>6. Fresh(r)'
  BY <1>2, <1>5 DEF Fresh, Disorderly, Wild
<1>7. \A q \in Requests : Fresh(q)'
  BY <1>3, <1>6, RestIsFresh
<1>8. LedgerOK'
  BY <1>1, StillOrdered DEF OrderOK, Live
<1>9. \A q \in Requests : pc'[q] # "idle" => alone'[q]
  BY <1>3, <1>4
<1> QED BY <1>7, <1>8, <1>9 DEF OrderOK

\* Whatever arrives.
LEMMA ArriveIsOrdered ==
    ASSUME Orderly, TypeInv, AloneOK, AloneOK', OrderOK, OneAtATime', NEW r \in Requests, Arrive(r)
    PROVE  OrderOK'
<1>1. ASSUME NEW S, NEW signed, NEW u, StartAllocate(r, S, u, signed) PROVE OrderOK'
  BY <1>1, BeginIsOrdered DEF StartAllocate
<1>2. ASSUME NEW S, NEW signed, StartReturn(r, S, signed) PROVE OrderOK'
  BY <1>2, BeginIsOrdered DEF StartReturn
<1>3. ASSUME NEW a, NEW signed, NEW u, StartTransfer(r, a, u, signed) PROVE OrderOK'
  BY <1>3, BeginIsOrdered DEF StartTransfer
<1>4. ASSUME NEW a, NEW u, StartDirUnassign(r, a, u) PROVE OrderOK'
  <2>1. Begin(r, "dirUnassign", {a}, u, FALSE, "checkIssued")
    BY <1>4 DEF StartDirUnassign
  <2> QED BY <2>1, BeginIsOrdered
<1>5. ASSUME NEW a, StartAttach(r, a) PROVE OrderOK'
  BY <1>5, BeginIsOrdered DEF StartAttach
<1>6. ASSUME NEW a, StartDelete(r, a) PROVE OrderOK'
  BY <1>6, BeginIsOrdered DEF StartDelete
<1>7. /\ \A a, u : ~ StartEdit(r, a, u)
      /\ \A u : ~ StartDirRemove(r, u)
      /\ \A S, u, signed : ~ StartBatch(r, S, u, signed)
  BY DEF Orderly, StartEdit, StartDirRemove, StartBatch, Begin
<1> QED BY <1>1, <1>2, <1>3, <1>4, <1>5, <1>6, <1>7 DEF Arrive

\* The steps that read, or choose records.
LEMMA ReadIsOrdered ==
    ASSUME TypeInv, AloneOK, AloneOK', OrderOK, NEW r \in Requests,
           \/ CheckAvailable(r) \/ CheckIssued(r) \/ CheckTransfer(r) \/ Supersede(r)
           \/ ReadHolder(r) \/ Resolve(r) \/ CountPending(r) \/ CheckFree(r)
    PROVE  OrderOK'
<1> USE DEF Disorderly, Wild
<1>1. ASSUME Refuse(r), pc[r] # "idle" PROVE OrderOK'
  <2>1. LedgerOK'
    BY <1>1, StillOrdered DEF OrderOK, Refuse, tables, Live
  <2> QED BY <1>1, <2>1, EndIsOrdered DEF Refuse
<1>2. Fresh(r)
  BY DEF OrderOK
<1>3. ASSUME NEW step, Goto(r, step) PROVE pc'[r] = step
  BY <1>3 DEF Goto, TypeInv, StepsOK
<1>4. ASSUME See(r), UNCHANGED <<unit, units>>
      PROVE  \A a \in units'[r] \cap Live' : seen'[r][a] = unit'[a].holder
  BY <1>4 DEF See, TypeInv, LocalsOK
<1>5. CASE CheckAvailable(r)
  <2>1. CASE Refuse(r)
    BY <1>1, <1>5, <2>1 DEF CheckAvailable
  <2>2. CASE ~ Refuse(r)
    <3>1. /\ pc[r] = "checkAvailable" /\ Goto(r, "allocate")
          /\ \A a \in units[r] : unit[a].holder = NoUser
          /\ UNCHANGED <<unit, ledger, units, resolved, alone>>
      BY <1>5, <2>2 DEF CheckAvailable, tables, request
    <3>2. Fresh(r)'
      BY <1>2, <1>3, <3>1 DEF Fresh
    <3> QED BY <3>1, <3>2, StepIsOrdered
  <2> QED BY <2>1, <2>2
<1>6. CASE CheckIssued(r)
  <2>1. CASE Refuse(r)
    BY <1>1, <1>6, <2>1 DEF CheckIssued
  <2>2. CASE ~ Refuse(r)
    <3>1. /\ pc[r] = "checkIssued" /\ Goto(r, "return") /\ See(r)
          /\ UNCHANGED <<unit, ledger, units, resolved, alone>>
      BY <1>6, <2>2 DEF CheckIssued, tables, request
    <3>2. Fresh(r)'
      BY <1>2, <1>3, <1>4, <3>1 DEF Fresh
    <3> QED BY <3>1, <3>2, StepIsOrdered
  <2> QED BY <2>1, <2>2
<1>7. CASE CheckTransfer(r)
  <2>1. CASE Refuse(r)
    BY <1>1, <1>7, <2>1 DEF CheckTransfer
  <2>2. CASE ~ Refuse(r)
    <3>1. /\ pc[r] = "checkTransfer" /\ Goto(r, "supersede") /\ See(r)
          /\ UNCHANGED <<unit, ledger, units, resolved, alone>>
      BY <1>7, <2>2 DEF CheckTransfer, tables, request
    <3>2. Fresh(r)'
      BY <1>2, <1>3, <1>4, <3>1 DEF Fresh
    <3> QED BY <3>1, <3>2, StepIsOrdered
  <2> QED BY <2>1, <2>2
<1>8. CASE ReadHolder(r)
  <2>1. /\ pc[r] = "readHolder" /\ Goto(r, "resolve") /\ See(r)
        /\ UNCHANGED <<unit, ledger, units, resolved, alone>>
    BY <1>8 DEF ReadHolder, tables, request
  <2>2. Fresh(r)'
    BY <1>2, <1>3, <1>4, <2>1 DEF Fresh
  <2> QED BY <2>1, <2>2, StepIsOrdered
<1>9. CASE CheckFree(r)
  <2>1. CASE Refuse(r)
    BY <1>1, <1>9, <2>1 DEF CheckFree
  <2>2. CASE ~ Refuse(r)
    <3>1. /\ pc[r] = "checkFree" /\ Goto(r, "delete")
          /\ UNCHANGED <<unit, ledger, units, resolved, alone>>
      BY <1>9, <2>2 DEF CheckFree, tables, request
    <3>2. Fresh(r)'
      BY <1>2, <1>3, <3>1 DEF Fresh
    <3> QED BY <3>1, <3>2, StepIsOrdered
  <2> QED BY <2>1, <2>2
<1>10. ASSUME NEW S, resolved' = [resolved EXCEPT ![r] = S], S \subseteq RecordsOf(Unit(r)),
              UNCHANGED <<unit, ledger, units, seen>>, pc[r] \notin Unitless,
              pc[r] \in {"supersede", "resolve"}, pc'[r] \in {"transfer", "countPending"}
       PROVE  Fresh(r)'
  <2>1. resolved'[r] = S
    BY <1>10 DEF TypeInv, LocalsOK
  <2>2. Unit(r) \in units[r]
    BY <1>10, UnitIs
  <2>3. \A i \in resolved'[r] : i \in DOMAIN ledger' /\ ledger'[i].asset \in units'[r]
    BY <1>10, <2>1, <2>2 DEF RecordsOf
  <2>4. Live' = Live
    BY <1>10 DEF Live
  <2> QED BY <1>2, <1>10, <2>3, <2>4 DEF Fresh
<1>11. CASE Supersede(r)
  <2>1. /\ pc[r] = "supersede" /\ Goto(r, "transfer")
        /\ UNCHANGED <<unit, ledger, units, seen, alone>>
    BY <1>11 DEF Supersede, tables, request
  <2>2. PICK S \in SUBSET PendingOf(Unit(r)) : resolved' = [resolved EXCEPT ![r] = S]
    BY <1>11 DEF Supersede
  <2>3. S \subseteq RecordsOf(Unit(r))
    BY <2>2 DEF PendingOf
  <2>4. Fresh(r)'
    BY <1>3, <1>10, <2>1, <2>2, <2>3 DEF Unitless
  <2> QED BY <2>1, <2>4, StepIsOrdered
<1>12. CASE Resolve(r)
  <2>1. /\ pc[r] = "resolve" /\ Goto(r, "countPending")
        /\ UNCHANGED <<unit, ledger, units, seen, alone>>
    BY <1>12 DEF Resolve, tables, request
  <2>2. PICK S \in {DefaultTargets(Unit(r))} \cup {{i} : i \in RecordsOf(Unit(r))} :
           resolved' = [resolved EXCEPT ![r] = S]
    BY <1>12 DEF Resolve
  <2>3. S \subseteq RecordsOf(Unit(r))
    BY <2>2, TargetsAre, RecordsNumbered
  <2>4. Fresh(r)'
    BY <1>3, <1>10, <2>1, <2>2, <2>3 DEF Unitless
  <2> QED BY <2>1, <2>4, StepIsOrdered
<1>13. CASE CountPending(r)
  <2>1. /\ pc[r] = "countPending" /\ Goto(r, "attach")
        /\ UNCHANGED <<unit, ledger, units, seen, resolved, alone>>
    BY <1>13 DEF CountPending, tables, request
  <2>2. Live' = Live
    BY <2>1 DEF Live
  <2>3. Fresh(r)'
    BY <1>2, <1>3, <2>1, <2>2 DEF Fresh
  <2> QED BY <2>1, <2>3, StepIsOrdered
<1> QED BY <1>5, <1>6, <1>7, <1>8, <1>9, <1>11, <1>12, <1>13

\* Commits, and what is undone.
LEMMA WriteIsOrdered ==
    ASSUME TypeInv, AloneOK, AloneOK', OrderOK, NEW r \in Requests,
           Allocate(r) \/ Return(r) \/ Transfer(r) \/ Attach(r) \/ Delete(r) \/ Abort(r)
    PROVE  OrderOK'
<1>1. pc[r] # "idle" /\ Reset(r)
  BY DEF Allocate, Return, Transfer, Attach, Delete, Abort, Commit
<1>2. alone[r] /\ Fresh(r) /\ LedgerOK
  BY <1>1 DEF OrderOK
<1>3. CASE Abort(r)
  <2>1. LedgerOK'
    BY <1>2, <1>3, StillOrdered DEF Abort, tables, Live
  <2> QED BY <1>1, <2>1, EndIsOrdered
<1>4. CASE Allocate(r) \/ Return(r) \/ Transfer(r) \/ Attach(r) \/ Delete(r)
  <2>1. LedgerOK'
    BY <1>2, <1>4, AllocateOrders, ReturnOrders, TransferOrders, AttachOrders, DeleteOrders
  <2> QED BY <1>1, <2>1, EndIsOrdered
<1> QED BY <1>3, <1>4

\* Writes outside a request.
LEMMA OutsideIsOrdered ==
    ASSUME TypeInv, OrderOK,
           UNCHANGED <<ledger, pc, units, seen, resolved, alone>>,
           Live' \subseteq Live, \A a \in Live' : unit'[a] = unit[a]
    PROVE  OrderOK'
<1>1. LedgerOK'
  BY StillOrdered DEF OrderOK
<1>2. ASSUME NEW r \in Requests PROVE Fresh(r)'
  BY DEF OrderOK, Fresh
<1> QED BY <1>1, <1>2 DEF OrderOK

\* The ledger is in step with the custody while no two requests overlap and the endpoints
\* that write no record, or one that fits nothing, are not called.
LEMMA AlwaysOrdered == ASSUME Orderly PROVE Spec /\ []OneAtATime => []OrderOK
<1>1. Init => OrderOK
  <2> SUFFICES ASSUME Init PROVE OrderOK
    OBVIOUS
  <2>1. DOMAIN ledger = {}
    BY DEF Init
  <2>2. LedgerOK
    <3>1. \A a : RecordsOf(a) = {}
      BY <2>1 DEF RecordsOf
    <3>2. LastTells /\ Addressed /\ HandedBack /\ ChainUnbroken
      BY <2>1, <3>1 DEF LastTells, Addressed, HandedBack, ChainUnbroken
    <3>3. \A a \in Live : ~ unit[a].flag
      BY DEF Init, Live
    <3> QED BY <3>2, <3>3 DEF LedgerOK, FlagHasRecord
  <2> QED BY <2>2 DEF Init, OrderOK, Fresh, Disorderly, Wild
<1>2. TypeInv /\ AloneOK /\ AloneOK' /\ OneAtATime' /\ OrderOK /\ [Next]_vars => OrderOK'
  <2> SUFFICES ASSUME TypeInv, AloneOK, AloneOK', OneAtATime', OrderOK, [Next]_vars PROVE OrderOK'
    OBVIOUS
  <2>1. CASE UNCHANGED vars
    BY <2>1, OutsideIsOrdered DEF vars, Live
  <2>2. CASE \E r \in Requests : Arrive(r)
    BY <2>2, ArriveIsOrdered
  <2>3. CASE \E r \in Requests : Step(r) \/ Abort(r)
    <3>1. PICK r \in Requests : Step(r) \/ Abort(r)
      BY <2>3
    <3>2. /\ ~ ReadStatus(r) /\ ~ Edit(r) /\ ~ Release(r) /\ ~ DeleteUser(r)
          /\ ~ ReadBatch(r) /\ ~ Batch(r)
      BY DEF OrderOK, Fresh, Disorderly, Wild, ReadStatus, Edit, Release, DeleteUser, ReadBatch, Batch
    <3> QED BY <3>1, <3>2, ReadIsOrdered, WriteIsOrdered DEF Step
  <2>4. CASE \E a \in Assets : SetStatus(a)
    BY <2>4 DEF SetStatus, Orderly
  <2>5. CASE \E a \in Assets : RemoveAsset(a)
    <3>1. PICK a \in Assets : RemoveAsset(a)
      BY <2>5
    <3>2. Live' \subseteq Live /\ \A b \in Live' : unit'[b] = unit[b]
      BY <3>1 DEF RemoveAsset, Live, TypeInv, TablesOK, Deleted
    <3> QED BY <3>1, <3>2, OutsideIsOrdered DEF RemoveAsset, request
  <2>6. CASE \E u \in Users : Suspend(u)
    BY <2>6, OutsideIsOrdered DEF Suspend, request, Live
  <2> QED BY <2>1, <2>2, <2>3, <2>4, <2>5, <2>6 DEF Next
<1> QED BY <1>1, <1>2, AlwaysTyped, AlwaysAlone, PTL DEF Spec

\* The newest AssetHandoverRecord of an asset tells who holds it, while requests do not overlap.
THEOREM NewestRecordTells ==
    ASSUME Orderly
    PROVE  Spec /\ []OneAtATime => []LedgerTellsHolder
<1>1. TypeInv /\ OrderOK => LedgerTellsHolder
  <2> SUFFICES ASSUME TypeInv, OrderOK, NEW a \in Live, RecordsOf(a) # {}
               PROVE  unit[a].holder = IF ledger[Newest(RecordsOf(a))].type = "ASSIGNMENT"
                                       THEN ledger[Newest(RecordsOf(a))].to ELSE NoUser
    BY DEF LedgerTellsHolder
  <2>1. /\ Newest(RecordsOf(a)) \in RecordsOf(a)
        /\ \A j \in RecordsOf(a) : j <= Newest(RecordsOf(a))
    BY RecordsNumbered, NewestIs
  <2> QED BY <2>1 DEF OrderOK, LedgerOK, LastTells
<1> QED BY <1>1, AlwaysTyped, AlwaysOrdered, PTL

\* Between the assignments of one asset to two users the first has handed it back.
THEOREM ChainIsKept ==
    ASSUME Orderly
    PROVE  Spec /\ []OneAtATime => []ChainUnbroken
<1>1. OrderOK => ChainUnbroken
  BY DEF OrderOK, LedgerOK
<1> QED BY <1>1, AlwaysOrdered, PTL

\* Asset.hasPendingRecord never outlives the records it announces.
THEOREM FlagIsBacked ==
    ASSUME Orderly
    PROVE  Spec /\ []OneAtATime => []FlagHasRecord
<1>1. OrderOK => FlagHasRecord
  BY DEF OrderOK, LedgerOK
<1> QED BY <1>1, AlwaysOrdered, PTL
=============================================================================
