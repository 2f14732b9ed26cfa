-------------------------------- MODULE Stock ---------------------------------
(***************************************************************************)
(* The physical units of a device model and the codes they carry:          *)
(* InventoryService.create, restock, batchIntake and remove                *)
(* (apps/api/src/modules/inventory/inventory.service.ts), and              *)
(* registerUnit, batchIntake, updateUnit, update, deleteUnit and           *)
(* deleteModel of AssetsService                                            *)
(* (apps/api/src/modules/assets/assets.service.ts).                        *)
(*                                                                         *)
(* A code is the number at its end, or OtherCode when it is not one of the *)
(* model's own.  Changing the code of the model, and other models, are     *)
(* left out.  Who holds a unit is in Custody.                              *)
(***************************************************************************)
EXTENDS Handlers, FiniteSets, Integers

CONSTANTS
    MaxCode,     \* bound: the number of a code
    MaxIntake    \* bound: units that come in at a time (500 in the code)

ASSUME StockAssumption == MaxCode \in Nat /\ MaxIntake \in 1 .. MaxCode

VARIABLES
    model,       \* the DeviceModel row
    units,       \* Asset rows of the model
    byHand       \* history: a unit was deleted, or got its code from a user

stock == <<model, units, byHand>>

OtherCode == 0
NoCode == -1
Numbers == 1 .. MaxCode
Unit == [subcode : Numbers \cup {OtherCode, NoCode}, assetTag : Numbers \cup {OtherCode}]

RestockTask == [pc : {"restock"}, currentUnitCount : 0 .. MaxCode + 1, qty : 1 .. MaxIntake]
StockTask == {Idle} \cup RestockTask

\* Both columns are unique; a subcode may be null.
Distinct(us) ==
    \A u, v \in us : u # v => /\ u.assetTag # v.assetTag
                              /\ u.subcode # v.subcode \/ u.subcode = NoCode

StockTypeOK ==
    /\ model \in Life
    /\ units \subseteq Unit /\ Distinct(units)
    /\ model = "none" => units = {}
    /\ byHand \in BOOLEAN

StockInit == model = "none" /\ units = {} /\ byHand = FALSE

Coded(codes) == {[subcode |-> c, assetTag |-> c] : c \in codes}
\* The codes from first on, for n units.
Sequence(first, n) == first .. (first + n - 1)

\* The code is on a unit, in one column or the other.
Taken(code) == \E u \in units : code \in {u.subcode, u.assetTag}

\* A transaction creates all of its units or none: a code that is taken, which the
\* unique indexes refuse, undoes it.
Insert(codes) ==
    /\ model = "up"
    /\ \A c \in codes : ~Taken(c)
    /\ units' = units \cup Coded(codes)
-----------------------------------------------------------------------------
(* create, restock.                                                        *)

CreateModel(n) ==
    /\ model = "none" /\ \A r \in Requests : At(r, "idle")
    /\ model' = "up"
    /\ units' = Coded(Sequence(1, n))
    /\ byHand' = FALSE
    /\ Instant

StartRestock(r, n) ==
    /\ model = "up"
    /\ Begin(r, [pc |-> "restock", currentUnitCount |-> Cardinality(units), qty |-> n])
    /\ UNCHANGED stock

\* Mutant of Fresh: the number of the last unit is counted twice.
FreshPastNext(t) == Sequence(t.currentUnitCount + 2, t.qty)

\* The numbers of the new units follow the count.
Fresh(t) == Sequence(t.currentUnitCount + 1, t.qty)

Restock(r) ==
    /\ At(r, "restock") /\ Fresh(req[r]) \subseteq Numbers
    /\ Insert(Fresh(req[r]))
    /\ Finish(r)
    /\ UNCHANGED <<model, byHand>>

\* The transaction is refused, by an index or the foreign key, or fails.
StockAbort(r) ==
    /\ At(r, "restock")
    /\ Finish(r)
    /\ UNCHANGED stock
-----------------------------------------------------------------------------
(* Units with codes that a user gave, and units that go.                   *)

\* registerUnit and the intakes.  They look whether a code is taken before they insert,
\* which the indexes do too, since the code goes into both columns.
Intake(codes) ==
    /\ Insert(codes)
    /\ byHand' = TRUE
    /\ Instant
    /\ UNCHANGED model

Replace(u, v) ==
    /\ units' = (units \ {u}) \cup {v}
    /\ Distinct(units')
    /\ byHand' = TRUE
    /\ Instant
    /\ UNCHANGED model

\* updateUnit looks at both columns of the other units.
UpdateUnit(u, code) ==
    /\ \A other \in units \ {u} : code \notin {other.subcode, other.assetTag}
    /\ Replace(u, [subcode |-> code, assetTag |-> code])

\* update looks at nothing: each column is as unique as its index makes it.
Update(u, v) ==
    /\ \A other \in units \ {u} : other.assetTag # v.assetTag
    /\ Replace(u, v)

\* deleteUnit; AssetsService.remove and batchDelete.
DeleteUnit(u) ==
    /\ units' = units \ {u}
    /\ byHand' = TRUE
    /\ Instant
    /\ UNCHANGED model

\* deleteModel and InventoryService.remove count the units, and the foreign key
\* (Restrict) has the last word.
DeleteModel ==
    /\ model = "up" /\ units = {}
    /\ model' = "none" /\ byHand' = FALSE
    /\ Instant
    /\ UNCHANGED units

StockNext ==
    \/ \E n \in 0 .. MaxIntake : CreateModel(n)
    \/ \E r \in Requests :
          \/ \E n \in 1 .. MaxIntake : StartRestock(r, n)
          \/ Restock(r) \/ StockAbort(r)
    \/ \E codes \in (SUBSET (Numbers \cup {OtherCode})) \ {{}} : Intake(codes)
    \/ \E u \in units :
          \/ \E code \in Numbers \cup {OtherCode} : UpdateUnit(u, code)
          \/ \E v \in Unit : Update(u, v)
          \/ DeleteUnit(u)
    \/ DeleteModel
-----------------------------------------------------------------------------
(* Properties.                                                             *)

\* restock takes the number of units for the last number.  As long as nobody deletes a unit
\* or gives one a code, that is so, however restocks race and fail: the codes have no gap
\* below and none above the count, and the next restock finds its numbers free.  (Once
\* a number above the count is taken, every restock that reaches it is refused.)
RestockLeavesNoGap == ~byHand => units = Coded(Sequence(1, Cardinality(units)))
===============================================================================
