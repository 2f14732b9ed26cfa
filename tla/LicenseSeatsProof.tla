------------------------- MODULE LicenseSeatsProof --------------------------
(***************************************************************************)
(* Proofs about LicenseSeats, for any sets of licenses, users and          *)
(* requests and any number of assignment rows.                             *)
(*                                                                         *)
(* The overshoot is bounded because the rows that a transaction can read   *)
(* when it inserts, its own included, fit in the license: the open rows of *)
(* a license are covered by one such set for each transaction.             *)
(***************************************************************************)
EXTENDS LicenseSeats, FiniteSetTheorems, TLAPS

\* A set in as many pieces as there are requests, none with more than MaxSeats.
LEMMA CoveredByRequests ==
    ASSUME NEW S, NEW owner \in [S -> Requests],
           \A q \in Requests : LET piece == {i \in S : owner[i] = q}
                               IN  IsFiniteSet(piece) /\ Cardinality(piece) <= MaxSeats
    PROVE  IsFiniteSet(S) /\ Cardinality(S) <= MaxSeats * Cardinality(Requests)
<1> DEFINE piece(q) == {i \in S : owner[i] = q}
<1>1. /\ MaxSeats \in Nat /\ IsFiniteSet(Requests) /\ Cardinality(Requests) \in Nat
      /\ IsFiniteSet(1 .. MaxSeats) /\ Cardinality(1 .. MaxSeats) = MaxSeats
  <2>1. MaxSeats \in Nat \ {0} /\ IsFiniteSet(Requests)
    BY SeatsAssumption
  <2>2. IsFiniteSet(1 .. MaxSeats) /\ Cardinality(1 .. MaxSeats) = MaxSeats
    BY <2>1, FS_Interval
  <2> QED BY <2>1, <2>2, FS_CardinalityType
<1>2. \A q \in Requests : \E g \in [piece(q) -> 1 .. MaxSeats] : IsInjective(g)
  <2> TAKE q \in Requests
  <2> DEFINE n == Cardinality(piece(q))
  <2>1. IsFiniteSet(piece(q)) /\ n \in Nat /\ n <= MaxSeats
    BY FS_CardinalityType
  <2>2. IsFiniteSet(1 .. n) /\ Cardinality(1 .. n) = n
    BY <2>1, FS_Interval
  <2> HIDE DEF piece
  <2>3. PICK g : g \in Bijection(piece(q), 1 .. n)
    BY <2>1, <2>2, FS_SameCardinalityBij DEF ExistsBijection
  <2>4. g \in [piece(q) -> 1 .. n] /\ IsInjective(g)
    BY <2>3 DEF Bijection, Injection
  <2>5. g \in [piece(q) -> 1 .. MaxSeats]
    BY <1>1, <2>1, <2>4
  <2> QED BY <2>4, <2>5
<1> DEFINE place == [q \in Requests |-> CHOOSE g \in [piece(q) -> 1 .. MaxSeats] : IsInjective(g)]
           f == [i \in S |-> <<owner[i], place[owner[i]][i]>>]
<1>3. \A q \in Requests : place[q] \in [piece(q) -> 1 .. MaxSeats] /\ IsInjective(place[q])
  BY <1>2
<1>4. \A i \in S : owner[i] \in Requests /\ i \in piece(owner[i])
  OBVIOUS
<1> HIDE DEF piece, place
<1>5. f \in [S -> Requests \X (1 .. MaxSeats)]
  BY <1>3, <1>4
<1>6. IsInjective(f)
  <2> SUFFICES ASSUME NEW i \in S, NEW j \in S, f[i] = f[j] PROVE i = j
    BY DEF IsInjective
  <2>1. owner[i] = owner[j] /\ place[owner[i]][i] = place[owner[i]][j]
    OBVIOUS
  <2> QED BY <1>3, <1>4, <2>1 DEF IsInjective
<1>7. f \in Injection(S, Requests \X (1 .. MaxSeats))
  BY <1>5, <1>6 DEF Injection
<1>8. /\ IsFiniteSet(Requests \X (1 .. MaxSeats))
      /\ Cardinality(Requests \X (1 .. MaxSeats)) = Cardinality(Requests) * MaxSeats
  BY <1>1, FS_Product
<1>9. IsFiniteSet(S) /\ Cardinality(S) <= Cardinality(Requests) * MaxSeats
  BY <1>7, <1>8, FS_Injection
<1> QED BY <1>1, <1>9

-----------------------------------------------------------------------------
(* Types.                                                                  *)

TablesOK ==
    /\ total \in [Licenses -> 1 .. MaxSeats]
    /\ used \in [Licenses -> Nat]
    /\ seat \in [SeatIds -> Row]
    /\ staff \subseteq Users
    /\ \A i \in SeatIds : seat[i].st # "unused" => seat[i].lic \in Licenses

LocalsOK ==
    /\ lic \in [Requests -> Licenses \cup {NoLicense}]
    /\ todo \in [Requests -> SUBSET Licenses]
    /\ who \in [Requests -> SUBSET (Users \cup {NoUser})]
    /\ targets \in [Requests -> SUBSET SeatIds]
    /\ limit \in [Requests -> 0 .. MaxSeats]
    /\ count \in [Requests -> Nat]
    /\ ending \in [Requests -> SUBSET SeatIds]
    /\ wrote \in [Requests -> [Licenses -> Nat \cup {NoCount}]]

\* The statements about one license, the ones of DirectorySeats included.
About == {"readLicense", "findSeat", "countSeats", "endSeat", "recount", "writeUsed", "writeTotal",
          "dirRead", "dirFind", "dirInsert", "dirReadUsed", "dirWriteUsed", "dirDelete"}

\* Only a revocation ends rows, just before it recounts, and the removal of a user.

StepsOK ==
    /\ pc = [r \in Requests |-> pc[r]] /\ op = [r \in Requests |-> op[r]]
    /\ \A r \in Requests :
          /\ pc[r] \in About => lic[r] \in Licenses
          /\ pc[r] = "endSeat" => op[r] = "revoke"
          /\ ending[r] # {} => \/ op[r] = "revoke" /\ pc[r] \in {"recount", "writeUsed"}
                              \/ pc[r] = "dirDeleteUser"

\* The rows being ended, each by one transaction, are committed, and so are the ones to end.
EndsOK ==
    /\ \A r \in Requests : \A i \in ending[r] :
          seat[i].st \in {"open", "closed"} /\ seat[i].by = NoRequest
    /\ \A r \in Requests : \A i \in targets[r] :
          seat[i].st # "unused" /\ seat[i].by = NoRequest
    /\ \A q, r \in Requests : q # r => ending[q] \cap ending[r] = {}

TypeInv == TablesOK /\ LocalsOK /\ StepsOK /\ EndsOK

\* Sets of rows are finite.
LEMMA RowsFinite ==
    ASSUME NEW S \in SUBSET SeatIds
    PROVE  IsFiniteSet(S) /\ Cardinality(S) \in Nat
<1>1. IsFiniteSet(SeatIds)
  BY SeatsAssumption, FS_Interval DEF SeatIds
<1> QED BY <1>1, FS_Subset, FS_CardinalityType

\* A transaction that is over holds nothing.
LEMMA ResetTypes ==
    ASSUME TypeInv, NEW r \in Requests, Reset(r)
    PROVE  /\ LocalsOK' /\ StepsOK'
           /\ ending'[r] = {} /\ targets'[r] = {}
           /\ \A q \in Requests \ {r} : ending'[q] = ending[q] /\ targets'[q] = targets[q]
<1>1. /\ Clean \in [Licenses -> Nat \cup {NoCount}] /\ NoLicense \in Licenses \cup {NoLicense}
      /\ 0 \in 0 .. MaxSeats /\ 0 \in Nat
  BY SeatsAssumption DEF Clean
<1>2. LocalsOK'
  BY <1>1 DEF TypeInv, LocalsOK, Reset
<1>3. /\ pc' = [pc EXCEPT ![r] = "idle"] /\ op' = [op EXCEPT ![r] = "none"]
      /\ lic' = [lic EXCEPT ![r] = NoLicense] /\ ending' = [ending EXCEPT ![r] = {}]
  BY DEF Reset
<1>4. \A q \in Requests \ {r} : /\ pc'[q] = pc[q] /\ op'[q] = op[q]
                                /\ lic'[q] = lic[q] /\ ending'[q] = ending[q]
  BY <1>3 DEF TypeInv, LocalsOK, StepsOK
<1>5. /\ pc'[r] = "idle" /\ ending'[r] = {} /\ targets'[r] = {}
      /\ \A q \in Requests \ {r} : targets'[q] = targets[q]
      /\ pc' = [q \in Requests |-> pc'[q]] /\ op' = [q \in Requests |-> op'[q]]
  BY <1>3 DEF TypeInv, LocalsOK, StepsOK, Reset
<1> QED BY <1>2, <1>4, <1>5 DEF TypeInv, StepsOK, About

\* ROLLBACK and COMMIT.
LEMMA RollbackTypes ==
    ASSUME TypeInv, NEW r \in Requests, Rollback(r)
    PROVE  TypeInv'
<1>1. /\ Reset(r) /\ UNCHANGED <<total, used, staff>>
      /\ seat' = [i \in SeatIds |-> IF seat[i].by = r THEN Unused ELSE seat[i]]
  BY DEF Rollback
<1>2. Unused \in Row /\ Unused.st = "unused"
  BY DEF Unused, Row
<1>3. TablesOK'
  BY <1>1, <1>2 DEF TypeInv, TablesOK
<1>4. \A q \in Requests : \A i \in ending[q] \cup targets[q] : i \in SeatIds /\ seat'[i] = seat[i]
  BY <1>1, SeatsAssumption DEF TypeInv, LocalsOK, EndsOK
<1>5. EndsOK'
  BY <1>1, <1>4, ResetTypes DEF TypeInv, EndsOK
<1> QED BY <1>1, <1>3, <1>5, ResetTypes DEF TypeInv

\* A commit leaves the tables well typed.
LEMMA PublishTypes ==
    ASSUME TypeInv, NEW r \in Requests, NEW writes \in [Licenses -> Nat \cup {NoCount}],
           Publish(r, writes, Revealed(r)), UNCHANGED <<total, staff>>
    PROVE  TypeInv'
<1>1. /\ Reset(r) /\ seat' = Revealed(r)
      /\ used' = [l \in Licenses |-> IF writes[l] = NoCount THEN used[l] ELSE writes[l]]
  BY DEF Publish
<1>2. used' \in [Licenses -> Nat]
  BY <1>1 DEF TypeInv, TablesOK
<1>3. \A i \in ending[r] : seat[i].st \in {"open", "closed"} /\ i \in SeatIds
  BY DEF TypeInv, LocalsOK, EndsOK
<1>4. \A i \in SeatIds : /\ seat'[i] \in Row /\ seat'[i].lic = seat[i].lic
                         /\ seat'[i].st \in {seat[i].st, "closed"}
                         /\ seat'[i].st # seat[i].st => seat[i].st \in {"open", "closed"}
                         /\ seat[i].st # "unused" => seat'[i].st # "unused"
                         /\ seat[i].by = NoRequest => seat'[i].by = NoRequest
  BY <1>1, <1>3 DEF Revealed, TypeInv, TablesOK, Row
<1>5. seat' \in [SeatIds -> Row]
  BY <1>1, <1>4 DEF Revealed
<1>6. TablesOK'
  BY <1>2, <1>4, <1>5 DEF TypeInv, TablesOK
<1>7. EndsOK'
  <2>1. /\ ending'[r] = {} /\ targets'[r] = {}
        /\ \A q \in Requests \ {r} : ending'[q] = ending[q] /\ targets'[q] = targets[q]
    BY <1>1, ResetTypes
  <2>2. \A q \in Requests : ending[q] \subseteq SeatIds /\ targets[q] \subseteq SeatIds
    BY DEF TypeInv, LocalsOK
  <2>3. \A q \in Requests : \A i \in ending'[q] :
           seat'[i].st \in {"open", "closed"} /\ seat'[i].by = NoRequest
    BY <1>4, <2>1, <2>2 DEF TypeInv, EndsOK
  <2>4. \A q \in Requests : \A i \in targets'[q] :
           seat'[i].st # "unused" /\ seat'[i].by = NoRequest
    BY <1>4, <2>1, <2>2 DEF TypeInv, EndsOK
  <2>5. \A p, q \in Requests : p # q => ending'[p] \cap ending'[q] = {}
    BY <2>1 DEF TypeInv, EndsOK
  <2> QED BY <2>3, <2>4, <2>5 DEF EndsOK
<1> QED BY <1>1, <1>6, <1>7, ResetTypes DEF TypeInv

\* A transaction goes on to another statement.
LEMMA GotoTypes ==
    ASSUME TypeInv, NEW r \in Requests, NEW step, Goto(r, step), TablesOK', LocalsOK', EndsOK',
           UNCHANGED <<op, ending>>, \A q \in Requests \ {r} : lic'[q] = lic[q],
           step \in About => lic'[r] \in Licenses, step # "endSeat",
           \/ step = "writeUsed" /\ pc[r] # "dirDeleteUser"
           \/ pc[r] \notin {"recount", "writeUsed", "dirDeleteUser"}
    PROVE  TypeInv'
<1>1. /\ pc' = [q \in Requests |-> pc'[q]] /\ pc'[r] = step
      /\ \A q \in Requests \ {r} : pc'[q] = pc[q]
  BY DEF TypeInv, StepsOK, Goto
<1> QED BY <1>1 DEF TypeInv, StepsOK

\* A request arrives: it has ended nothing before.
LEMMA BeginTypes ==
    ASSUME TypeInv, NEW r \in Requests, NEW kind, NEW step, Begin(r, kind, step), LocalsOK',
           \A q \in Requests \ {r} : targets'[q] = targets[q],
           \A i \in targets'[r] : seat[i].st # "unused" /\ seat[i].by = NoRequest,
           \A q \in Requests \ {r} : lic'[q] = lic[q],
           step \in About => lic'[r] \in Licenses,
           step = "endSeat" => kind = "revoke"
    PROVE  TypeInv'
<1>1. /\ pc[r] = "idle" /\ pc' = [pc EXCEPT ![r] = step] /\ op' = [op EXCEPT ![r] = kind]
      /\ UNCHANGED <<total, used, seat, staff, ending>>
  BY DEF Begin, Goto, tables
<1>2. /\ pc'[r] = step /\ op'[r] = kind /\ ending[r] = {}
      /\ \A q \in Requests \ {r} : pc'[q] = pc[q] /\ op'[q] = op[q]
      /\ pc' = [q \in Requests |-> pc'[q]] /\ op' = [q \in Requests |-> op'[q]]
  BY <1>1 DEF TypeInv, StepsOK
<1>3. StepsOK'
  BY <1>1, <1>2 DEF TypeInv, StepsOK
<1> QED BY <1>1, <1>3 DEF TypeInv, TablesOK, EndsOK

\* Whatever arrives.
LEMMA ArriveTypes ==
    ASSUME TypeInv, NEW r \in Requests, Arrive(r)
    PROVE  TypeInv'
<1> USE DEF About
<1>0. ASSUME UNCHANGED targets
      PROVE  /\ \A q \in Requests \ {r} : targets'[q] = targets[q]
             /\ \A i \in targets'[r] : seat[i].st # "unused" /\ seat[i].by = NoRequest
  BY <1>0 DEF TypeInv, EndsOK
<1>1. ASSUME NEW l \in Licenses, NEW u \in staff \cup {NoUser}, StartAssign(r, l, u) PROVE TypeInv'
  <2>1. /\ Begin(r, "assign", "readLicense") /\ lic' = [lic EXCEPT ![r] = l]
        /\ who' = [who EXCEPT ![r] = {u}] /\ todo' = todo /\ UNCHANGED targets
    BY <1>1 DEF StartAssign
  <2>2. {u} \subseteq Users \cup {NoUser}
    BY DEF TypeInv, TablesOK
  <2>3. LocalsOK'
    BY <2>1, <2>2 DEF TypeInv, LocalsOK, Begin
  <2>4. /\ \A q \in Requests \ {r} : lic'[q] = lic[q]
        /\ lic'[r] \in Licenses
    BY <2>1 DEF TypeInv, LocalsOK
  <2> QED BY <1>0, <2>1, <2>3, <2>4, BeginTypes
<1>2. ASSUME NEW l \in Licenses, NEW U \in (SUBSET Users) \ {{}}, StartBatch(r, l, U) PROVE TypeInv'
  <2>1. /\ Begin(r, "batch", "readLicense") /\ lic' = [lic EXCEPT ![r] = l]
        /\ who' = [who EXCEPT ![r] = U] /\ todo' = todo /\ UNCHANGED targets
    BY <1>2 DEF StartBatch
  <2>2. U \subseteq Users \cup {NoUser}
    BY DEF TypeInv, TablesOK
  <2>3. LocalsOK'
    BY <2>1, <2>2 DEF TypeInv, LocalsOK, Begin
  <2>4. /\ \A q \in Requests \ {r} : lic'[q] = lic[q]
        /\ lic'[r] \in Licenses
    BY <2>1 DEF TypeInv, LocalsOK
  <2> QED BY <1>0, <2>1, <2>3, <2>4, BeginTypes
<1>3. ASSUME NEW l \in Licenses, StartUpdate(r, l) PROVE TypeInv'
  <2>1. /\ Begin(r, "update", "writeTotal") /\ lic' = [lic EXCEPT ![r] = l]
        /\ who' = who /\ todo' = todo /\ UNCHANGED targets
    BY <1>3 DEF StartUpdate
  <2>2. who \in [Requests -> SUBSET (Users \cup {NoUser})]
    BY DEF TypeInv, LocalsOK
  <2>3. LocalsOK'
    BY <2>1, <2>2 DEF TypeInv, LocalsOK, Begin
  <2>4. /\ \A q \in Requests \ {r} : lic'[q] = lic[q]
        /\ lic'[r] \in Licenses
    BY <2>1 DEF TypeInv, LocalsOK
  <2> QED BY <1>0, <2>1, <2>3, <2>4, BeginTypes
<1>4. ASSUME NEW u \in staff, NEW L \in (SUBSET Licenses) \ {{}}, StartBundle(r, u, L) PROVE TypeInv'
  <2>1. /\ Begin(r, "bundle", "next") /\ lic' = lic
        /\ who' = [who EXCEPT ![r] = {u}] /\ todo' = [todo EXCEPT ![r] = L] /\ UNCHANGED targets
    BY <1>4 DEF StartBundle
  <2>2. {u} \subseteq Users \cup {NoUser}
    BY DEF TypeInv, TablesOK
  <2>3. LocalsOK'
    BY <2>1, <2>2 DEF TypeInv, LocalsOK, Begin
  <2>4. /\ \A q \in Requests \ {r} : lic'[q] = lic[q]
        /\ "next" \notin About
    BY <2>1 DEF TypeInv, LocalsOK
  <2> QED BY <1>0, <2>1, <2>3, <2>4, BeginTypes
<1>5. ASSUME NEW i \in SeatIds, StartRevoke(r, i) PROVE TypeInv'
  <2>1. /\ Begin(r, "revoke", "endSeat") /\ lic' = [lic EXCEPT ![r] = seat[i].lic]
        /\ targets' = [targets EXCEPT ![r] = {i}] /\ UNCHANGED <<todo, who>>
        /\ seat[i].lic \in Licenses
    BY <1>5 DEF StartRevoke, Rows, TypeInv, TablesOK
  <2>2. LocalsOK'
    BY <2>1 DEF TypeInv, LocalsOK, Begin
  <2>3. lic'[r] \in Licenses /\ \A q \in Requests \ {r} : lic'[q] = lic[q]
    BY <2>1 DEF TypeInv, LocalsOK
  <2>4. /\ \A q \in Requests \ {r} : targets'[q] = targets[q]
        /\ targets'[r] = {i} /\ seat[i].st # "unused" /\ seat[i].by = NoRequest
    BY <1>5, <2>1, SeatsAssumption DEF TypeInv, LocalsOK, TablesOK, Row, StartRevoke, Rows
  <2>5. \A j \in targets'[r] : seat[j].st # "unused" /\ seat[j].by = NoRequest
    BY <2>4
  <2> QED BY <2>1, <2>2, <2>3, <2>4, <2>5, BeginTypes
<1> QED BY <1>1, <1>2, <1>3, <1>4, <1>5 DEF Arrive

\* The rows that an insert adds: no more than there are users, all of them unused before.
LEMMA InsertIs ==
    ASSUME TypeInv, NEW r \in Requests, lic[r] \in Licenses, NEW U \in SUBSET who[r], Insert(r, U)
    PROVE  /\ IsFiniteSet(U)
           /\ \E New \in SUBSET SeatIds :
                 /\ IsFiniteSet(New) /\ Cardinality(New) <= Cardinality(U)
                 /\ seat' \in [SeatIds -> Row]
                 /\ \A i \in New : /\ seat[i].st = "unused"
                                   /\ seat'[i].lic = lic[r] /\ seat'[i].st = "open" /\ seat'[i].by = r
                                   /\ seat'[i].user \in U
                 /\ \A i, j \in New : seat'[i].user = seat'[j].user => i = j
                 /\ U \cap (staff \cup {NoUser}) # {} => New # {}
                 /\ \A i \in SeatIds \ New : seat'[i] = seat[i]
<1> DEFINE D == U \cap (staff \cup {NoUser})
<1>1. PICK f \in Injection(D, Fresh(Cardinality(U))) :
         seat' = [i \in SeatIds |->
                    IF i \in Range(f)
                    THEN [lic |-> lic[r], user |-> CHOOSE u \in DOMAIN f : f[u] = i,
                          st |-> "open", by |-> r]
                    ELSE seat[i]]
  BY DEF Insert
<1>2. f \in [D -> Fresh(Cardinality(U))] /\ DOMAIN f = D
  BY <1>1 DEF Injection
<1>3. IsFiniteSet(U) /\ Cardinality(D) <= Cardinality(U) /\ IsFiniteSet(D)
  <2>1. IsFiniteSet(Users \cup {NoUser}) /\ U \subseteq Users \cup {NoUser}
    BY SeatsAssumption, FS_AddElement DEF TypeInv, LocalsOK
  <2>2. IsFiniteSet(U)
    BY <2>1, FS_Subset
  <2> QED BY <2>2, FS_Subset
<1>4. Range(f) \in SUBSET {i \in SeatIds : seat[i].st = "unused"}
  <2>1. \A u \in D : f[u] \in Fresh(Cardinality(U))
    BY <1>2
  <2> QED BY <1>2, <2>1 DEF Range, Fresh
<1>5. f \in Surjection(D, Range(f))
  <2> HIDE DEF D
  <2> QED BY <1>2 DEF Surjection, Range
<1>6. IsFiniteSet(Range(f)) /\ Cardinality(Range(f)) <= Cardinality(D)
  BY <1>3, <1>5, FS_Surjection
<1>7. \A i \in Range(f) : (CHOOSE u \in DOMAIN f : f[u] = i) \in Users \cup {NoUser}
  <2> TAKE i \in Range(f)
  <2>1. \E u \in DOMAIN f : f[u] = i
    BY DEF Range
  <2>2. (CHOOSE u \in DOMAIN f : f[u] = i) \in DOMAIN f
    BY <2>1
  <2> QED BY <1>2, <2>2 DEF TypeInv, LocalsOK
<1>8. seat' \in [SeatIds -> Row]
  <2> DEFINE holder(i) == CHOOSE u \in DOMAIN f : f[u] = i
  <2>1. \A i \in Range(f) : holder(i) \in Users \cup {NoUser}
    BY <1>7
  <2> HIDE DEF holder
  <2>2. \A i \in Range(f) : [lic |-> lic[r], user |-> holder(i), st |-> "open", by |-> r] \in Row
    BY <2>1 DEF Row
  <2>3. \A i \in SeatIds : seat[i] \in Row
    BY DEF TypeInv, TablesOK
  <2>4. seat' = [i \in SeatIds |->
                   IF i \in Range(f) THEN [lic |-> lic[r], user |-> holder(i), st |-> "open", by |-> r]
                   ELSE seat[i]]
    BY <1>1 DEF holder
  <2> QED BY <2>2, <2>3, <2>4
<1>9. Cardinality(Range(f)) \in Nat /\ Cardinality(D) \in Nat /\ Cardinality(U) \in Nat
  BY <1>3, <1>6, FS_CardinalityType
<1>10. Cardinality(Range(f)) <= Cardinality(U)
  BY <1>3, <1>6, <1>9
<1> QED
  <2>1. Range(f) \in SUBSET SeatIds
    BY <1>4
  <2>2. \A i \in Range(f) : /\ seat[i].st = "unused"
                            /\ seat'[i].lic = lic[r] /\ seat'[i].st = "open" /\ seat'[i].by = r
    BY <1>1, <1>4
  <2>3. \A i \in SeatIds \ Range(f) : seat'[i] = seat[i]
    BY <1>1
  <2>4. \A i \in Range(f) : seat'[i].user \in D /\ f[seat'[i].user] = i
    <3> TAKE i \in Range(f)
    <3>1. \E u \in DOMAIN f : f[u] = i
      BY DEF Range
    <3>2. PICK u : u = CHOOSE x \in DOMAIN f : f[x] = i
      OBVIOUS
    <3>3. u \in D /\ f[u] = i
      BY <1>2, <3>1, <3>2
    <3>4. seat'[i].user = u
      BY <1>1, <1>4, <3>2
    <3> QED BY <3>3, <3>4
  <2>5. \A i, j \in Range(f) : seat'[i].user = seat'[j].user => i = j
    BY <2>4
  <2>6. D # {} => Range(f) # {}
    BY <1>2 DEF Range
  <2> QED BY <1>3, <1>6, <1>8, <1>10, <2>1, <2>2, <2>3, <2>4, <2>5, <2>6

\* What countSeats inserts, when it does.
LEMMA CountInserts ==
    ASSUME TypeInv, NEW r \in Requests, CountSeats(r)
    PROVE  \/ Skip(r)
           \/ /\ lic[r] \in Licenses /\ ending[r] = {} /\ pc[r] = "countSeats" /\ Room(r) > 0
              /\ \E U \in kSubset(Min({Room(r), Cardinality(who[r])}), who[r]) : Insert(r, U)
              /\ count' = [count EXCEPT ![r] = Cardinality(OpenSeats(r, lic[r])) + 1]
              /\ \E step \in {"writeUsed", "recount"} : Goto(r, step)
              /\ UNCHANGED <<total, used, staff, locals, lic, todo, who, limit, wrote>>
  BY DEF CountSeats, TypeInv, StepsOK, About

\* Every statement.
LEMMA StatementTypes ==
    ASSUME TypeInv, NEW r \in Requests, Statement(r) \/ Abort(r)
    PROVE  TypeInv'
<1> USE DEF About
<1>1. ASSUME UNCHANGED tables PROVE TablesOK'
  BY <1>1 DEF TypeInv, TablesOK, tables
<1>2. ASSUME UNCHANGED <<seat, ending, targets>> PROVE EndsOK'
  BY <1>2 DEF TypeInv, EndsOK
<1>3. ASSUME UNCHANGED <<lic, todo, who, targets, count, limit, ending, wrote>> PROVE LocalsOK'
  BY <1>3 DEF TypeInv, LocalsOK
<1>4. pc[r] \in About => lic[r] \in Licenses
  BY DEF TypeInv, StepsOK
<1>5. ASSUME Skip(r), pc[r] \notin {"recount", "writeUsed", "dirDeleteUser"} PROVE TypeInv'
  <2>1. CASE Rollback(r)
    BY <2>1, RollbackTypes
  <2>2. CASE /\ Goto(r, "next")
             /\ UNCHANGED <<tables, locals, lic, todo, who, limit, count, wrote>>
    BY <1>1, <1>2, <1>3, <1>5, <2>2, GotoTypes DEF tables, locals
  <2> QED BY <1>5, <2>1, <2>2 DEF Skip
<1>6. CASE NextLicense(r)
  <2>1. CASE todo[r] = {} /\ Publish(r, wrote[r], Revealed(r)) /\ UNCHANGED <<total, staff>>
    <3>1. wrote[r] \in [Licenses -> Nat \cup {NoCount}]
      BY DEF TypeInv, LocalsOK
    <3> QED BY <2>1, <3>1, PublishTypes
  <2>2. ASSUME NEW l \in todo[r], lic' = [lic EXCEPT ![r] = l], todo' = [todo EXCEPT ![r] = @ \ {l}],
               Goto(r, "readLicense"), pc[r] = "next",
               UNCHANGED <<tables, locals, who, limit, count, wrote>>
        PROVE  TypeInv'
    <3>1. l \in Licenses
      BY DEF TypeInv, LocalsOK
    <3>2. LocalsOK'
      BY <2>2, <3>1 DEF TypeInv, LocalsOK, locals
    <3>3. lic'[r] \in Licenses /\ \A q \in Requests \ {r} : lic'[q] = lic[q]
      BY <2>2, <3>1 DEF TypeInv, LocalsOK
    <3> QED BY <1>1, <1>2, <2>2, <3>2, <3>3, GotoTypes DEF tables, locals
  <2> QED BY <1>6, <2>1, <2>2 DEF NextLicense
<1>7. CASE ReadLicense(r)
  <2>1. /\ pc[r] = "readLicense" /\ limit' = [limit EXCEPT ![r] = total[lic[r]]] /\ Goto(r, "findSeat")
        /\ UNCHANGED <<tables, locals, lic, todo, who, count, wrote>>
    BY <1>7 DEF ReadLicense
  <2>2. total[lic[r]] \in 0 .. MaxSeats
    BY <1>4, <2>1, SeatsAssumption DEF TypeInv, TablesOK
  <2>3. LocalsOK'
    BY <2>1, <2>2 DEF TypeInv, LocalsOK, locals
  <2> QED BY <1>1, <1>2, <1>4, <2>1, <2>3, GotoTypes DEF tables, locals
<1>8. CASE FindSeat(r)
  <2>1. CASE Skip(r)
    BY <1>5, <1>8, <2>1 DEF FindSeat
  <2>2. CASE ~ Skip(r)
    <3>1. /\ pc[r] = "findSeat" /\ who' = [who EXCEPT ![r] = Unseated(r)] /\ Goto(r, "countSeats")
          /\ UNCHANGED <<tables, locals, lic, todo, limit, count, wrote>>
      BY <1>8, <2>2 DEF FindSeat
    <3>2. Unseated(r) \subseteq who[r]
      BY DEF Unseated
    <3>3. LocalsOK'
      BY <3>1, <3>2 DEF TypeInv, LocalsOK, locals
    <3> QED BY <1>1, <1>2, <1>4, <3>1, <3>3, GotoTypes DEF tables, locals
  <2> QED BY <2>1, <2>2
<1>9. CASE CountSeats(r)
  <2>1. CASE Skip(r)
    BY <1>5, <1>9, <2>1 DEF CountSeats
  <2>2. CASE ~ Skip(r)
    <3>1. /\ lic[r] \in Licenses /\ pc[r] = "countSeats"
          /\ \E U \in SUBSET who[r] : Insert(r, U)
          /\ count' = [count EXCEPT ![r] = Cardinality(OpenSeats(r, lic[r])) + 1]
          /\ UNCHANGED <<total, used, staff, locals, lic, todo, who, limit, wrote>>
      BY <1>9, <2>2, CountInserts DEF kSubset
    <3>2. PICK step \in {"writeUsed", "recount"} : Goto(r, step)
      BY <1>9, <2>2, CountInserts
    <3>3. PICK New \in SUBSET SeatIds :
             /\ seat' \in [SeatIds -> Row]
             /\ \A i \in New : seat[i].st = "unused" /\ seat'[i].lic = lic[r] /\ seat'[i].st = "open"
             /\ \A i \in SeatIds \ New : seat'[i] = seat[i]
      <4>1. PICK U \in SUBSET who[r] : Insert(r, U)
        BY <3>1
      <4>2. lic[r] \in Licenses
        BY <3>1
      <4> QED BY <4>1, <4>2, InsertIs
    <3>4. TablesOK'
      BY <3>1, <3>3 DEF TypeInv, TablesOK
    <3>5. EndsOK'
      <4>1. \A q \in Requests : \A i \in ending[q] \cup targets[q] : i \in SeatIds /\ seat'[i] = seat[i]
        BY <3>3 DEF TypeInv, LocalsOK, EndsOK
      <4> QED BY <3>1, <4>1 DEF TypeInv, EndsOK, locals
    <3>6. Cardinality(OpenSeats(r, lic[r])) + 1 \in Nat
      BY RowsFinite DEF OpenSeats, Rows
    <3>7. LocalsOK'
      BY <3>1, <3>6 DEF TypeInv, LocalsOK, locals
    <3> QED BY <3>1, <3>2, <3>4, <3>5, <3>7, GotoTypes DEF locals
  <2> QED BY <2>1, <2>2
<1>10. CASE EndSeat(r)
  <2>1. CASE Rollback(r)
    BY <2>1, RollbackTypes
  <2>2. CASE ~ Rollback(r)
    <3>1. /\ pc[r] = "endSeat" /\ targets[r] \subseteq Rows(NoRequest)
          /\ ending' = [ending EXCEPT ![r] = targets[r]] /\ pc' = [pc EXCEPT ![r] = "recount"]
          /\ \A q \in Requests \ {r} : targets[r] \cap ending[q] = {}
          /\ UNCHANGED <<tables, op, lic, todo, who, targets, limit, count, wrote, alone>>
      BY <1>10, <2>2 DEF EndSeat, Goto, NotEnded
    <3>2. LocalsOK'
      BY <3>1 DEF TypeInv, LocalsOK
    <3>3. /\ ending'[r] = targets[r] /\ \A q \in Requests \ {r} : ending'[q] = ending[q] /\ pc'[q] = pc[q]
          /\ pc'[r] = "recount" /\ pc' = [q \in Requests |-> pc'[q]]
      BY <3>1 DEF TypeInv, LocalsOK, StepsOK
    <3>4. EndsOK'
      BY <3>1, <3>3 DEF TypeInv, EndsOK, Rows, tables
    <3>5. StepsOK'
      BY <1>4, <3>1, <3>3 DEF TypeInv, StepsOK
    <3> QED BY <1>1, <3>1, <3>2, <3>4, <3>5 DEF TypeInv
  <2> QED BY <2>1, <2>2
<1>11. CASE Recount(r)
  <2>1. /\ pc[r] = "recount" /\ count' = [count EXCEPT ![r] = Cardinality(OpenSeats(r, lic[r]))]
        /\ Goto(r, "writeUsed") /\ UNCHANGED <<tables, locals, lic, todo, who, limit, wrote>>
    BY <1>11 DEF Recount
  <2>2. Cardinality(OpenSeats(r, lic[r])) \in Nat
    BY RowsFinite DEF OpenSeats, Rows
  <2>3. LocalsOK'
    BY <2>1, <2>2 DEF TypeInv, LocalsOK, locals
  <2> QED BY <1>1, <1>2, <1>4, <2>1, <2>3, GotoTypes DEF tables, locals
<1>12. CASE WriteUsed(r)
  <2> DEFINE writes == [wrote[r] EXCEPT ![lic[r]] = count[r]]
  <2>1. writes \in [Licenses -> Nat \cup {NoCount}]
    BY DEF TypeInv, LocalsOK
  <2>2. CASE Publish(r, writes, Revealed(r)) /\ UNCHANGED <<total, staff>>
    <3> HIDE DEF writes
    <3> QED BY <2>1, <2>2, PublishTypes
  <2>3. CASE /\ op[r] = "bundle" /\ wrote' = [wrote EXCEPT ![r] = writes] /\ Goto(r, "next")
             /\ UNCHANGED <<tables, locals, lic, todo, who, limit, count>>
    <3>1. LocalsOK'
      BY <2>1, <2>3 DEF TypeInv, LocalsOK, locals
    <3>2. ending[r] = {}
      BY <1>12, <2>3 DEF TypeInv, StepsOK, WriteUsed
    <3>3. /\ pc'[r] = "next" /\ pc' = [q \in Requests |-> pc'[q]]
          /\ \A q \in Requests \ {r} : pc'[q] = pc[q]
      BY <2>3 DEF TypeInv, StepsOK, Goto
    <3>4. StepsOK'
      BY <2>3, <3>2, <3>3 DEF TypeInv, StepsOK, locals
    <3> QED BY <1>1, <1>2, <2>3, <3>1, <3>4 DEF TypeInv, tables, locals
  <2> QED BY <1>12, <2>2, <2>3 DEF WriteUsed
<1>13. CASE WriteTotal(r)
  <2>1. /\ total' \in [Licenses -> 1 .. MaxSeats] /\ Reset(r) /\ UNCHANGED <<used, seat, staff>>
    BY <1>13 DEF WriteTotal, TypeInv, TablesOK
  <2>2. EndsOK'
    BY <2>1, ResetTypes DEF TypeInv, EndsOK
  <2> QED BY <2>1, <2>2, ResetTypes DEF TypeInv, TablesOK
<1>14. CASE Abort(r)
  BY <1>14, RollbackTypes DEF Abort
<1> QED BY <1>6, <1>7, <1>8, <1>9, <1>10, <1>11, <1>12, <1>13, <1>14 DEF Statement

\* The strengthening of the types is inductive.
LEMMA AlwaysTyped == Spec => []TypeInv
<1>1. Init => TypeInv
  <2> SUFFICES ASSUME Init PROVE TypeInv
    OBVIOUS
  <2>1. Unused \in Row /\ Unused.st = "unused" /\ Clean \in [Licenses -> Nat \cup {NoCount}]
    BY DEF Unused, Row, Clean
  <2>2. TablesOK
    BY <2>1 DEF Init, TablesOK
  <2>3. LocalsOK
    BY <2>1, SeatsAssumption DEF Init, LocalsOK
  <2>4. StepsOK /\ EndsOK
    BY DEF Init, StepsOK, EndsOK, About
  <2> QED BY <2>2, <2>3, <2>4 DEF TypeInv
<1>2. TypeInv /\ [Next]_vars => TypeInv'
  <2> SUFFICES ASSUME TypeInv, [Next]_vars PROVE TypeInv'
    OBVIOUS
  <2>1. CASE UNCHANGED vars
    BY <2>1 DEF vars, TypeInv, TablesOK, LocalsOK, StepsOK, EndsOK
  <2>2. CASE Next
    BY <2>2, ArriveTypes, StatementTypes DEF Next
  <2> QED BY <2>1, <2>2
<1> QED BY <1>1, <1>2, PTL DEF Spec

\* The types of the tables and of what a transaction keeps (LicensesService, model
\* LicenseAssignment), whatever races and aborts.
THEOREM TypeCorrect == Spec => []TypeOK
<1>1. TypeInv => TypeOK
  BY DEF TypeInv, TablesOK, LocalsOK, TypeOK
<1> QED BY <1>1, AlwaysTyped, PTL
-----------------------------------------------------------------------------
(* The overshoot.                                                          *)

\* The open rows of a license, committed or not, and those one transaction inserted.
Held(l) == {i \in SeatIds : seat[i].st = "open" /\ seat[i].lic = l}
Own(r, l) == {i \in Held(l) : seat[i].by = r}

FillOK ==
    \A l \in Licenses \ Unlimited :
        /\ Cardinality(Held(l)) <= MaxSeats * Cardinality(Requests)
        /\ \A q \in Requests : Cardinality(Own(q, l)) <= MaxSeats

\* No row is opened, and none passes to another transaction.
Shrinks ==
    \A i \in SeatIds : seat'[i].st = "open" =>
        /\ seat[i].st = "open" /\ seat[i].lic = seat'[i].lic
        /\ seat'[i].by \in {seat[i].by, NoRequest}

\* Closing rows, or rolling back, cannot fill a license.
LEMMA ShrinkFills ==
    ASSUME TypeInv, FillOK, Shrinks
    PROVE  FillOK'
<1> SUFFICES ASSUME NEW l \in Licenses \ Unlimited
             PROVE  /\ Cardinality(Held(l)') <= MaxSeats * Cardinality(Requests)
                    /\ \A q \in Requests : Cardinality(Own(q, l)') <= MaxSeats
  BY DEF FillOK
<1>1. Held(l)' \subseteq Held(l) /\ Held(l) \subseteq SeatIds
  BY DEF Held, Shrinks
<1>2. \A q \in Requests : Own(q, l)' \subseteq Own(q, l) /\ Own(q, l) \subseteq SeatIds
  BY SeatsAssumption DEF Own, Held, Shrinks
<1>3. IsFiniteSet(Held(l)) /\ Cardinality(Held(l)') <= Cardinality(Held(l))
  BY <1>1, RowsFinite, FS_Subset
<1>4. /\ Cardinality(Held(l)) \in Nat /\ Cardinality(Held(l)') \in Nat
      /\ MaxSeats * Cardinality(Requests) \in Nat
  <2>1. MaxSeats \in Nat /\ Cardinality(Requests) \in Nat
    BY SeatsAssumption, FS_CardinalityType
  <2>2. \A x, y \in Nat : x * y \in Nat
    OBVIOUS
  <2> QED BY <1>1, <2>1, <2>2, RowsFinite
<1>5. \A q \in Requests : Cardinality(Own(q, l)') <= MaxSeats
  <2> TAKE q \in Requests
  <2>1. Cardinality(Own(q, l)') <= Cardinality(Own(q, l)) /\ Cardinality(Own(q, l)) <= MaxSeats
    BY <1>2, RowsFinite, FS_Subset DEF FillOK
  <2>2. Cardinality(Own(q, l)') \in Nat /\ Cardinality(Own(q, l)) \in Nat /\ MaxSeats \in Nat
    BY <1>2, RowsFinite, SeatsAssumption
  <2> QED BY <2>1, <2>2
<1>6. Cardinality(Held(l)') <= MaxSeats * Cardinality(Requests)
  <2>1. Cardinality(Held(l)) <= MaxSeats * Cardinality(Requests)
    BY DEF FillOK
  <2> DEFINE bound == MaxSeats * Cardinality(Requests)
  <2> HIDE DEF bound
  <2> QED BY <1>3, <1>4, <2>1 DEF bound
<1> QED BY <1>5, <1>6

\* Only countSeats inserts.
LEMMA OthersShrink ==
    ASSUME TypeInv, NEW r \in Requests, Arrive(r) \/ Statement(r) \/ Abort(r),
           ~ CountSeats(r) \/ Skip(r)
    PROVE  Shrinks
<1>1. ASSUME UNCHANGED seat PROVE Shrinks
  BY <1>1 DEF Shrinks
<1>2. ASSUME Rollback(r) PROVE Shrinks
  BY <1>2 DEF Rollback, Shrinks, Unused
<1>3. ASSUME seat' = Revealed(r) PROVE Shrinks
  BY <1>3 DEF Revealed, Shrinks, TypeInv, TablesOK, Row
<1>4. CASE Skip(r)
  BY <1>1, <1>2, <1>4 DEF Skip, tables
<1>5. CASE Arrive(r)
  <2>1. ASSUME NEW kind, NEW step, Begin(r, kind, step) PROVE UNCHANGED seat
    BY <2>1 DEF Begin, tables
  <2> QED BY <1>1, <1>5, <2>1 DEF Arrive, StartAssign, StartBatch, StartUpdate, StartBundle, StartRevoke
<1>6. CASE NextLicense(r)
  BY <1>1, <1>3, <1>6 DEF NextLicense, Publish, tables
<1>7. CASE FindSeat(r)
  BY <1>1, <1>4, <1>7 DEF FindSeat, tables
<1>8. CASE WriteUsed(r)
  BY <1>1, <1>3, <1>8 DEF WriteUsed, Publish, tables
<1>9. CASE EndSeat(r)
  BY <1>1, <1>2, <1>9 DEF EndSeat, tables
<1>10. CASE ReadLicense(r) \/ Recount(r) \/ WriteTotal(r)
  BY <1>1, <1>10 DEF ReadLicense, Recount, WriteTotal, tables
<1>11. CASE Abort(r)
  BY <1>2, <1>11 DEF Abort
<1> QED BY <1>4, <1>5, <1>6, <1>7, <1>8, <1>9, <1>10, <1>11 DEF Statement

\* The rows a transaction inserts: they fit, with the ones it reads, in the license.
LEMMA InsertFits ==
    ASSUME TypeInv, NEW r \in Requests, CountSeats(r), ~ Skip(r)
    PROVE  \E New \in SUBSET SeatIds :
              /\ \A i \in New : /\ seat[i].st = "unused"
                                /\ seat'[i].lic = lic[r] /\ seat'[i].st = "open" /\ seat'[i].by = r
                                /\ seat'[i].user \in who[r]
              /\ \A i, j \in New : seat'[i].user = seat'[j].user => i = j
              /\ op[r] # "batch" /\ who[r] # {} => New # {}
              /\ \A i \in SeatIds \ New : seat'[i] = seat[i]
              /\ IsFiniteSet(OpenSeats(r, lic[r]) \cup New)
              /\ lic[r] \notin Unlimited => Cardinality(OpenSeats(r, lic[r]) \cup New) <= limit[r]
<1>1. /\ lic[r] \in Licenses /\ Room(r) > 0
      /\ \E U \in kSubset(Min({Room(r), Cardinality(who[r])}), who[r]) : Insert(r, U)
  BY CountInserts
<1>2. PICK U \in kSubset(Min({Room(r), Cardinality(who[r])}), who[r]) : Insert(r, U)
  BY <1>1
<1>3. U \in SUBSET who[r] /\ Cardinality(U) = Min({Room(r), Cardinality(who[r])})
  BY <1>2 DEF kSubset
<1>4. PICK New \in SUBSET SeatIds :
         /\ IsFiniteSet(New) /\ Cardinality(New) <= Cardinality(U)
         /\ \A i \in New : /\ seat[i].st = "unused"
                           /\ seat'[i].lic = lic[r] /\ seat'[i].st = "open" /\ seat'[i].by = r
                           /\ seat'[i].user \in U
         /\ \A i, j \in New : seat'[i].user = seat'[j].user => i = j
         /\ U \cap (staff \cup {NoUser}) # {} => New # {}
         /\ \A i \in SeatIds \ New : seat'[i] = seat[i]
  BY <1>1, <1>2, <1>3, InsertIs
<1> DEFINE n == Cardinality(OpenSeats(r, lic[r]))
           seen == OpenSeats(r, lic[r]) \cup New
<1>5. OpenSeats(r, lic[r]) \in SUBSET SeatIds /\ IsFiniteSet(OpenSeats(r, lic[r])) /\ n \in Nat
  BY RowsFinite DEF OpenSeats, Rows
<1>6. limit[r] \in 0 .. MaxSeats /\ MaxSeats \in Nat
  BY SeatsAssumption DEF TypeInv, LocalsOK
<1>7. IsFiniteSet(who[r]) /\ Cardinality(who[r]) \in Nat
  <2>1. IsFiniteSet(Users \cup {NoUser}) /\ who[r] \subseteq Users \cup {NoUser}
    BY SeatsAssumption, FS_AddElement DEF TypeInv, LocalsOK
  <2> QED BY <2>1, FS_Subset, FS_CardinalityType
<1>8. Room(r) \in Nat
  BY <1>5, <1>6, <1>7 DEF Room
<1>9. \A x, y \in Nat : Min({x, y}) \in {x, y} /\ Min({x, y}) <= x
  <2> TAKE x \in Nat, y \in Nat
  <2>1. \E m \in {x, y} : \A k \in {x, y} : m <= k
    OBVIOUS
  <2> QED BY <2>1 DEF Min
<1>10. IsFiniteSet(seen) /\ Cardinality(seen) <= n + Cardinality(New)
  <2>1. /\ IsFiniteSet(seen) /\ IsFiniteSet(OpenSeats(r, lic[r]) \cap New)
        /\ Cardinality(seen) = n + Cardinality(New) - Cardinality(OpenSeats(r, lic[r]) \cap New)
    BY <1>4, <1>5, FS_Union, FS_Subset
  <2>2. Cardinality(New) \in Nat /\ Cardinality(OpenSeats(r, lic[r]) \cap New) \in Nat
    BY <1>4, <2>1, FS_CardinalityType
  <2> HIDE DEF n, seen
  <2> QED BY <1>5, <2>1, <2>2
<1>11. ASSUME lic[r] \notin Unlimited PROVE Cardinality(seen) <= limit[r]
  <2>1. n < limit[r] /\ Room(r) = limit[r] - n
    BY <1>1, <1>5, <1>6, <1>11 DEF Room
  <2>2. Cardinality(New) <= Cardinality(U) /\ Cardinality(U) <= Room(r)
    BY <1>3, <1>4, <1>7, <1>8, <1>9
  <2>3. Cardinality(New) \in Nat /\ Cardinality(U) \in Nat /\ Cardinality(seen) \in Nat
    BY <1>3, <1>4, <1>7, <1>10, FS_Subset, FS_CardinalityType
  <2> HIDE DEF n, seen
  <2> QED BY <1>5, <1>6, <1>10, <2>1, <2>2, <2>3
<1>12. ASSUME op[r] # "batch", who[r] # {} PROVE New # {}
  <2>1. who[r] \subseteq staff \cup {NoUser}
    BY <1>12 DEF CountSeats
  <2>2. Cardinality(who[r]) > 0
    BY <1>7, <1>12, FS_EmptySet
  <2>3. Cardinality(U) > 0
    BY <1>1, <1>3, <1>7, <1>8, <1>9, <2>2
  <2>4. U # {}
    BY <2>3, FS_EmptySet
  <2> QED BY <1>3, <1>4, <2>1, <2>4
<1> QED BY <1>3, <1>4, <1>10, <1>11, <1>12

\* The insert leaves the rows the transaction reads, and with them its own, within
\* the license; the others' rows are theirs as before.
LEMMA InsertFills ==
    ASSUME TypeInv, FillOK, NEW r \in Requests, CountSeats(r), ~ Skip(r)
    PROVE  FillOK'
<1>1. lic[r] \in Licenses /\ ending[r] = {} /\ limit[r] \in 0 .. MaxSeats
  BY CountInserts DEF TypeInv, LocalsOK
<1>2. PICK New \in SUBSET SeatIds :
         /\ \A i \in New : /\ seat[i].st = "unused"
                           /\ seat'[i].lic = lic[r] /\ seat'[i].st = "open" /\ seat'[i].by = r
                           /\ seat'[i].user \in who[r]
         /\ \A i, j \in New : seat'[i].user = seat'[j].user => i = j
         /\ op[r] # "batch" /\ who[r] # {} => New # {}
         /\ \A i \in SeatIds \ New : seat'[i] = seat[i]
         /\ IsFiniteSet(OpenSeats(r, lic[r]) \cup New)
         /\ lic[r] \notin Unlimited => Cardinality(OpenSeats(r, lic[r]) \cup New) <= limit[r]
  BY InsertFits
<1>3. IsFiniteSet(Requests) /\ Cardinality(Requests) \in Nat /\ MaxSeats \in Nat
  BY SeatsAssumption, FS_CardinalityType
<1> SUFFICES ASSUME NEW l \in Licenses \ Unlimited
             PROVE  /\ Cardinality(Held(l)') <= MaxSeats * Cardinality(Requests)
                    /\ \A q \in Requests : Cardinality(Own(q, l)') <= MaxSeats
  BY DEF FillOK
<1>4. CASE l # lic[r]
  <2>1. Held(l)' = Held(l)
    BY <1>2, <1>4 DEF Held
  <2>2. \A q \in Requests : Own(q, l)' = Own(q, l)
    BY <1>2, <1>4 DEF Own, Held
  <2> QED BY <2>1, <2>2 DEF FillOK
<1>5. CASE l = lic[r]
  <2> DEFINE seen == OpenSeats(r, l) \cup New
             mine(i) == IF i \in seen THEN r ELSE seat[i].by
             owner == [i \in Held(l)' |-> mine(i)]
  <2>1. IsFiniteSet(seen) /\ Cardinality(seen) \in Nat
    BY <1>2, <1>5, FS_CardinalityType
  <2>2. Cardinality(seen) <= MaxSeats
    <3>1. Cardinality(seen) <= limit[r]
      BY <1>2, <1>5
    <3> HIDE DEF seen
    <3> QED BY <1>1, <1>3, <2>1, <3>1
  <2>3. Held(l)' \subseteq SeatIds /\ \A i \in Held(l)' : mine(i) \in Requests
    <3>1. \A i \in Held(l)' : i \in SeatIds /\ (i \notin New => i \in Held(l))
      BY <1>2 DEF Held
    <3>2. \A i \in Held(l) : i \notin OpenSeats(r, l) => seat[i].by \in Requests
      BY <1>1 DEF Held, OpenSeats, Rows, TypeInv, TablesOK, Row
    <3> QED BY <3>1, <3>2
  <2>4. \A q \in Requests : /\ IsFiniteSet({i \in Held(l)' : mine(i) = q})
                           /\ Cardinality({i \in Held(l)' : mine(i) = q}) <= MaxSeats
    <3> TAKE q \in Requests
    <3> DEFINE piece == {i \in Held(l)' : mine(i) = q}
    <3>1. piece \subseteq SeatIds /\ IsFiniteSet(piece) /\ Cardinality(piece) \in Nat
      BY <2>3, RowsFinite
    <3>2. ASSUME q = r PROVE Cardinality(piece) <= MaxSeats
      <4>1. \A i \in Held(l)' : i \notin seen => seat[i].by # r
        BY <1>1, <1>2 DEF Held, OpenSeats, Rows
      <4>2. piece \subseteq seen
        BY <3>2, <4>1
      <4>3. Cardinality(piece) <= Cardinality(seen) /\ Cardinality(seen) \in Nat
        BY <2>1, <4>2, FS_Subset, FS_CardinalityType
      <4> HIDE DEF piece, seen
      <4> QED BY <1>3, <2>2, <3>1, <4>3
    <3>3. ASSUME q # r PROVE Cardinality(piece) <= MaxSeats
      <4>1. piece \subseteq Own(q, l)
        BY <1>2, <3>3 DEF Own, Held
      <4>2. IsFiniteSet(Own(q, l)) /\ Cardinality(Own(q, l)) \in Nat /\ Cardinality(Own(q, l)) <= MaxSeats
        BY RowsFinite DEF Own, Held, FillOK
      <4>3. Cardinality(piece) <= Cardinality(Own(q, l))
        BY <4>1, <4>2, FS_Subset
      <4> HIDE DEF piece
      <4> QED BY <1>3, <3>1, <4>2, <4>3
    <3> QED BY <3>1, <3>2, <3>3
  <2>5. Cardinality(Held(l)') <= MaxSeats * Cardinality(Requests)
    <3>1. owner \in [Held(l)' -> Requests]
      BY <2>3
    <3>2. \A q \in Requests : {i \in Held(l)' : owner[i] = q} = {i \in Held(l)' : mine(i) = q}
      OBVIOUS
    <3> HIDE DEF owner, mine
    <3> QED BY <2>4, <3>1, <3>2, CoveredByRequests
  <2>6. \A q \in Requests : Cardinality(Own(q, l)') <= MaxSeats
    <3> TAKE q \in Requests
    <3>1. CASE q = r
      <4>1. Own(q, l)' \subseteq seen
        BY <1>1, <1>2, <3>1 DEF Own, Held, OpenSeats, Rows
      <4>2. Cardinality(Own(q, l)') <= Cardinality(seen) /\ Cardinality(seen) \in Nat
        BY <2>1, <4>1, FS_Subset, FS_CardinalityType
      <4>3. Cardinality(Own(q, l)') \in Nat
        BY RowsFinite DEF Own, Held
      <4> HIDE DEF seen
      <4> QED BY <1>3, <2>2, <4>2, <4>3
    <3>2. CASE q # r
      <4>1. Own(q, l)' = Own(q, l)
        BY <1>2, <3>2 DEF Own, Held
      <4> QED BY <4>1 DEF FillOK
    <3> QED BY <3>1, <3>2
  <2> QED BY <2>5, <2>6
<1> QED BY <1>4, <1>5

\* The open rows of a license, committed or not, stay within one fill for each transaction.
LEMMA AlwaysFills == Spec => []FillOK
<1>1. Init => FillOK
  <2> SUFFICES ASSUME Init, NEW l \in Licenses
               PROVE  /\ Cardinality(Held(l)) <= MaxSeats * Cardinality(Requests)
                      /\ \A q \in Requests : Cardinality(Own(q, l)) <= MaxSeats
    BY DEF FillOK
  <2>1. Held(l) = {} /\ \A q \in Requests : Own(q, l) = {}
    BY DEF Init, Held, Own, Unused
  <2>2. Cardinality({}) = 0 /\ MaxSeats \in Nat /\ Cardinality(Requests) \in Nat
    BY SeatsAssumption, FS_EmptySet, FS_CardinalityType
  <2>3. 0 <= MaxSeats * Cardinality(Requests)
    <3>1. \A x, y \in Nat : 0 <= x * y
      OBVIOUS
    <3> QED BY <2>2, <3>1
  <2> QED BY <2>1, <2>2, <2>3
<1>2. TypeInv /\ FillOK /\ [Next]_vars => FillOK'
  <2> SUFFICES ASSUME TypeInv, FillOK, [Next]_vars PROVE FillOK'
    OBVIOUS
  <2>1. CASE UNCHANGED vars
    BY <2>1 DEF vars, FillOK, Held, Own
  <2>2. CASE Next
    <3>1. PICK r \in Requests : Arrive(r) \/ Statement(r) \/ Abort(r)
      BY <2>2 DEF Next
    <3>2. CASE CountSeats(r) /\ ~ Skip(r)
      BY <3>2, InsertFills
    <3>3. CASE ~ CountSeats(r) \/ Skip(r)
      BY <3>1, <3>3, OthersShrink, ShrinkFills
    <3> QED BY <3>2, <3>3
  <2> QED BY <2>1, <2>2
<1> QED BY <1>1, <1>2, AlwaysTyped, PTL DEF Spec

\* However many transactions of LicensesService count the same free seats, they
\* overshoot a license by one fill each at most.
THEOREM OvershootIsBounded == Spec => []OvershootBounded
<1>1. TypeInv /\ FillOK => OvershootBounded
  <2> SUFFICES ASSUME TypeInv, FillOK, NEW l \in Licenses \ Unlimited
               PROVE  Cardinality(Active(l)) <= MaxSeats * Cardinality(Requests)
    BY DEF OvershootBounded
  <2>1. Active(l) \subseteq Held(l)
    BY DEF Active, Rows, Held
  <2>2. /\ IsFiniteSet(Held(l)) /\ Cardinality(Held(l)) \in Nat /\ Cardinality(Active(l)) \in Nat
        /\ Cardinality(Active(l)) <= Cardinality(Held(l))
    BY <2>1, RowsFinite, FS_Subset DEF Held
  <2>3. Cardinality(Held(l)) <= MaxSeats * Cardinality(Requests)
    BY DEF FillOK
  <2>4. MaxSeats * Cardinality(Requests) \in Nat
    <3>1. MaxSeats \in Nat /\ Cardinality(Requests) \in Nat
      BY SeatsAssumption, FS_CardinalityType
    <3>2. \A x, y \in Nat : x * y \in Nat
      OBVIOUS
    <3> QED BY <3>1, <3>2
  <2> DEFINE bound == MaxSeats * Cardinality(Requests)
  <2> HIDE DEF bound
  <2> QED BY <2>2, <2>3, <2>4 DEF bound
<1> QED BY <1>1, AlwaysTyped, AlwaysFills, PTL
=============================================================================
