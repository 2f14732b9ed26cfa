------------------------------ MODULE RackMounts ------------------------------
(***************************************************************************)
(* Switches in racks: NetworkService.createRack, deleteRack, createSwitch, *)
(* updateSwitch and deleteSwitch, as far as they place a switch, and       *)
(* validateRackMount (apps/api/src/modules/network/network.service.ts).    *)
(*                                                                         *)
(* No transaction and no constraint of the database keeps two switches     *)
(* apart: a request reads the switch, the rack and the switches mounted in *)
(* it, and then writes.  The ports of the switches are PortLinks.          *)
(***************************************************************************)
EXTENDS Handlers, Integers, FiniteSets

CONSTANTS
    Racks, Devices,
    RackHeight,    \* STANDARD_RACK_HEIGHT (42)
    Positions,     \* rackPosition in a request
    Heights,       \* rackHeight in a request
    MaxNamed,      \* bound: fields of a place that one update names
    NoRack, NoPos,
    Keep           \* a field a request leaves out

ASSUME RacksAssumption ==
    /\ RackHeight \in Nat \ {0}
    /\ Positions \subseteq Nat \ {0} /\ Heights \subseteq Nat \ {0}
    /\ 1 \in Heights
    /\ NoRack \notin Racks /\ NoPos \notin Nat
    /\ Keep \notin Nat /\ Keep \notin Racks /\ Keep # NoRack /\ Keep # NoPos

VARIABLES
    rack,     \* NetworkRack rows
    mount     \* NetworkSwitch: life, rackId, rackPosition, rackHeight

racks == <<rack, mount>>

Place == [rack : Racks \cup {NoRack}, pos : Positions \cup {NoPos}, height : Heights]

\* What a request names of a place.
Wish == {w \in [rack : Racks \cup {NoRack, Keep}, pos : Positions \cup {NoPos, Keep},
                 height : Heights \cup {Keep}] :
            Cardinality({f \in DOMAIN w : w[f] # Keep}) <= MaxNamed}

MountRow == [life : Life, at : Place]

RacksTypeOK ==
    /\ rack \in [Racks -> Life]
    /\ mount \in [Devices -> MountRow]

Nowhere == [rack |-> NoRack, pos |-> NoPos, height |-> 1]

RacksInit ==
    /\ rack = [k \in Racks |-> "none"]
    /\ mount = [d \in Devices |-> [life |-> "none", at |-> Nowhere]]

\* The units place a takes when it is in a rack.
Top(a) == a.pos + a.height - 1
Mounted(a) == a.rack # NoRack /\ a.pos # NoPos

\* Mutant of Collide: the unit of the top of a device is free for another.
CollideBelowTop(a, b) ==
    /\ Mounted(a) /\ Mounted(b) /\ a.rack = b.rack
    /\ a.pos < Top(b) /\ b.pos < Top(a)

Collide(a, b) ==
    /\ Mounted(a) /\ Mounted(b) /\ a.rack = b.rack
    /\ a.pos <= Top(b) /\ b.pos <= Top(a)

Fits(a) == Mounted(a) => Top(a) <= RackHeight

\* The devices validateRackMount would find in the way of d at place a.
InTheWay(d, a) == {e \in Devices \ {d} : mount[e].life = "up" /\ Collide(mount[e].at, a)}

\* The rows that a request names.
KnowsDevice(r, d) == "dev" \in DOMAIN req[r] /\ req[r].dev = d
KnowsRack(r, k) ==
    \/ "rack" \in DOMAIN req[r] /\ req[r].rack = k
    \/ "dev" \in DOMAIN req[r] /\ k \in {req[r].wish.rack, req[r].at.rack}

AbortMount(r) ==
    /\ req[r].pc \in {"readSwitch", "validate", "writeMount", "unmount", "deleteRack"}
    /\ Finish(r)
    /\ UNCHANGED racks
-----------------------------------------------------------------------------
(* createSwitch and updateSwitch.                                          *)

\* The switch is placed by the request alone.
StartCreate(r, d, a) ==
    /\ mount[d].life = "none" /\ \A q \in Requests : ~KnowsDevice(q, d)
    /\ Begin(r, [pc |-> IF Mounted(a) THEN "validate" ELSE "writeMount",
                 op |-> "create", dev |-> d, wish |-> a,
                 at |-> IF Mounted(a) THEN a ELSE Nowhere])
    /\ UNCHANGED racks

StartMove(r, d, w) ==
    /\ mount[d].life = "up"
    /\ Begin(r, [pc |-> "readSwitch", op |-> "update", dev |-> d, wish |-> w, at |-> Nowhere])
    /\ UNCHANGED racks

\* What the request names, and for the rest what is there.
Over(a, w) == [f \in DOMAIN a |-> IF w[f] = Keep THEN a[f] ELSE w[f]]

\* Mutant of Named: a change of height is no change of place.
NamedPlace(w) == w.rack # Keep \/ w.pos # Keep

Named(w) == w.rack # Keep \/ w.pos # Keep \/ w.height # Keep

ReadSwitch(r) ==
    /\ At(r, "readSwitch")
    /\ mount[req[r].dev].life = "up"
    /\ LET a == Over(mount[req[r].dev].at, req[r].wish)
       IN  Continue(r, IF Mounted(a) /\ Named(req[r].wish)
                       THEN [req[r] EXCEPT !.pc = "validate", !.at = a]
                       ELSE [req[r] EXCEPT !.pc = "writeMount"])
    /\ UNCHANGED racks

\* validateRackMount.  The rack is read first; if it goes before the switches in it
\* are read, the foreign key refuses the write.
ValidateRackMount(r) ==
    /\ At(r, "validate")
    /\ rack[req[r].at.rack] = "up" /\ Fits(req[r].at)
    /\ InTheWay(req[r].dev, req[r].at) = {}
    /\ Continue(r, [req[r] EXCEPT !.pc = "writeMount", !.at = Nowhere])
    /\ UNCHANGED racks

\* Only the named fields are written, over what the row holds by now.
WriteMount(r) ==
    /\ At(r, "writeMount")
    /\ LET d == req[r].dev
           a == Over(mount[d].at, req[r].wish)
       IN  /\ IF req[r].op = "create" THEN mount[d].life = "none" ELSE mount[d].life = "up"
           /\ req[r].wish.rack \in Racks => rack[req[r].wish.rack] = "up"
           /\ mount' = [mount EXCEPT ![d] = [life |-> "up", at |-> a]]
    /\ Finish(r)
    /\ UNCHANGED rack
-----------------------------------------------------------------------------
(* Racks and the removal of switches.                                      *)

CreateRack(k) ==
    /\ rack[k] = "none" /\ \A r \in Requests : ~KnowsRack(r, k)
    /\ rack' = [rack EXCEPT ![k] = "up"]
    /\ Instant /\ UNCHANGED mount

StartDeleteRack(r, k) ==
    /\ rack[k] = "up"
    /\ Begin(r, [pc |-> "unmount", rack |-> k])
    /\ UNCHANGED racks

Unmount(r) ==
    /\ At(r, "unmount")
    /\ mount' = [d \in Devices |->
                   IF mount[d].at.rack = req[r].rack
                   THEN [mount[d] EXCEPT !.at.rack = NoRack, !.at.pos = NoPos] ELSE mount[d]]
    /\ Goto(r, "deleteRack")
    /\ UNCHANGED rack

\* A switch mounted since keeps its position, in no rack (SetNull).
DeleteRack(r) ==
    /\ At(r, "deleteRack")
    /\ rack[req[r].rack] = "up"
    /\ rack' = [rack EXCEPT ![req[r].rack] = "none"]
    /\ mount' = [d \in Devices |->
                   IF mount[d].at.rack = req[r].rack
                   THEN [mount[d] EXCEPT !.at.rack = NoRack] ELSE mount[d]]
    /\ Finish(r)

RemoveDevice(d) ==
    /\ mount[d].life = "up"
    /\ mount' = [mount EXCEPT ![d] = [life |-> "none", at |-> Nowhere]]
    /\ Instant /\ UNCHANGED rack

ArriveMount(r) ==
    \/ \E d \in Devices :
          \/ \E a \in Place : StartCreate(r, d, a)
          \/ \E w \in Wish : StartMove(r, d, w)
    \/ \E k \in Racks : StartDeleteRack(r, k)

MountStatement(r) ==
    \/ ReadSwitch(r) \/ ValidateRackMount(r) \/ WriteMount(r)
    \/ Unmount(r) \/ DeleteRack(r)

RacksNext ==
    \/ \E r \in Requests : ArriveMount(r) \/ MountStatement(r) \/ AbortMount(r)
    \/ \E k \in Racks : CreateRack(k)
    \/ \E d \in Devices : RemoveDevice(d)
-----------------------------------------------------------------------------
(* Properties.                                                             *)

\* The units of its rack that a switch claims.
Units(d) == IF mount[d].life = "up" /\ Mounted(mount[d].at)
            THEN {<<mount[d].at.rack, u>> : u \in mount[d].at.pos .. Top(mount[d].at)} ELSE {}
Overlaps == {S \in SUBSET Devices : \E d, e \in S : S = {d, e} /\ d # e
                                                     /\ Units(d) \cap Units(e) # {}}

\* "RU collision": races put two switches into one unit; a request that no other
\* overlapped adds no collision to those there are, and what it places fits the rack.
AloneMountsFree ==
    [][\A r \in Requests : alone[r] /\ WriteMount(r)
          => /\ Overlaps' \subseteq Overlaps
             /\ \A d \in {req[r].dev} : \A w \in {req[r].wish} :
                   (\E f \in DOMAIN w : w[f] # Keep) =>
                   \A u \in Units(d)' : u[2] \in 1 .. RackHeight]_<<racks, handlers>>
===============================================================================
