----------------------------- MODULE SubnetStats ------------------------------
(***************************************************************************)
(* IP addresses and the counters of their subnets: NetworkService.createIp, *)
(* updateIp, deleteIp, createSubnet, deleteSubnet and syncSubnetStats      *)
(* (apps/api/src/modules/network/network.service.ts).                      *)
(*                                                                         *)
(* No transaction: the row is written by one statement, then usedIps and   *)
(* reservedIps are counted and written by others, and a failure of those   *)
(* is logged and forgotten.  A subnet keeps its CIDR here.                 *)
(***************************************************************************)
EXTENDS Handlers, Naturals, FiniteSetsExt, Sequences

CONSTANTS
    Subnets, Addresses,
    MaxIps,        \* bound: IPAddress rows at a time
    Statuses,      \* bound: the statuses that requests name
    MaxChanged,    \* bound: fields that one update names
    RangeOf,       \* the usable addresses of each subnet
    MaxIpRequests, \* bound: requests at a time
    NoSubnet, NoAddress, NoCount,
    Same,          \* a field an update leaves out
    SyncFaults     \* TRUE: a statement of syncSubnetStats may fail

Status == {"AVAILABLE", "RESERVED", "ASSIGNED"}

ASSUME SubnetsAssumption ==
    /\ MaxIps \in Nat \ {0} /\ Statuses \subseteq Status
    /\ MaxIpRequests \in Nat /\ MaxChanged \in Nat /\ SyncFaults \in BOOLEAN
    /\ Addresses \subseteq Nat /\ RangeOf \in [Subnets -> SUBSET Addresses]
    /\ NoSubnet \notin Subnets /\ NoAddress \notin Nat /\ NoCount \notin Nat

VARIABLES
    subnet,   \* Subnet rows: usedIps and reservedIps
    ip        \* IPAddress rows, unique in [address, subnetId] when that is not null

addressing == <<subnet, ip>>

Ids == 1 .. MaxIps

SubnetRow == [life : Life, used : 0 .. MaxIps, reserved : 0 .. MaxIps]
IpRow == [life : Life, addr : Addresses \cup {NoAddress},
          subnet : Subnets \cup {NoSubnet}, status : Status]
NoIp == [life |-> "none", addr |-> NoAddress, subnet |-> NoSubnet, status |-> "AVAILABLE"]

SubnetsTypeOK ==
    /\ subnet \in [Subnets -> SubnetRow]
    /\ ip \in [Ids -> IpRow]

SubnetsInit ==
    /\ subnet = [s \in Subnets |-> [life |-> "none", used |-> 0, reserved |-> 0]]
    /\ ip = [i \in Ids |-> NoIp]

Rows(s) == {i \in Ids : ip[i].life = "up" /\ ip[i].subnet = s}
Count(s, st) == Cardinality({i \in Rows(s) : ip[i].status = st})

\* The subnets whose counters do not tell the truth.
Wrong == {s \in Subnets : /\ subnet[s].life = "up"
                          /\ \/ subnet[s].used # Count(s, "ASSIGNED")
                             \/ subnet[s].reserved # Count(s, "RESERVED")}

\* An IP request; was: the subnets that were Wrong when it began (history).
Task(step, operation, i, s, a, st) ==
    [pc |-> step, op |-> operation, id |-> i, subnet |-> s, addr |-> a, status |-> st,
     todo |-> <<>>, again |-> FALSE, was |-> Wrong]

IpSteps == {"readSubnet", "match", "findExisting", "createIp", "readIp", "updateIp",
            "deleteIp", "sync"}

\* The rows that a request names.
KnowsIp(r, i) == "id" \in DOMAIN req[r] /\ req[r].id = i
KnowsSubnet(r, s) ==
    \/ "subnet" \in DOMAIN req[r] /\ req[r].subnet = s
    \/ "todo" \in DOMAIN req[r] /\ s \in {req[r].todo[n] : n \in DOMAIN req[r].todo}

\* It is refused before it has written.
RefuseIp(r) ==
    /\ req[r].pc \in IpSteps \ {"sync"}
    /\ Finish(r)
    /\ UNCHANGED addressing
-----------------------------------------------------------------------------
(* createIp.                                                               *)

StartCreateIp(r, s, a, st) ==
    /\ s # NoSubnet \/ a # NoAddress
    /\ Begin(r, Task(IF s = NoSubnet THEN "match" ELSE "readSubnet", "create", 0, s, a, st))
    /\ UNCHANGED addressing

\* The lowest address of the subnet that no row of it has.
Free(s) == RangeOf[s] \ {ip[i].addr : i \in Rows(s)}

ReadSubnet(r) ==
    /\ At(r, "readSubnet")
    /\ LET s == req[r].subnet
       IN  Continue(r, [req[r] EXCEPT
              !.pc = "findExisting",
              !.addr = IF @ = NoAddress /\ subnet[s].life = "up" /\ Free(s) # {}
                       THEN Min(Free(s)) ELSE @])
    /\ UNCHANGED addressing

\* findMatchingSubnet: the longest prefix, that is the smallest range.
Around(a) == {s \in Subnets : subnet[s].life = "up" /\ a \in RangeOf[s]}

Match(r) ==
    /\ At(r, "match")
    /\ LET near == {s \in Around(req[r].addr) :
                       \A t \in Around(req[r].addr) :
                          Cardinality(RangeOf[s]) <= Cardinality(RangeOf[t])}
       IN  \E s \in IF near = {} THEN {NoSubnet} ELSE near :
              Continue(r, [req[r] EXCEPT !.pc = "findExisting", !.subnet = s])
    /\ UNCHANGED addressing

\* Without a subnet the query has no condition on it: any row counts.
Taken(s, a) ==
    \E i \in Ids : /\ ip[i].life = "up" /\ ip[i].addr = a
                   /\ s = NoSubnet \/ ip[i].subnet = s

FindExisting(r) ==
    /\ At(r, "findExisting")
    /\ req[r].addr # NoAddress /\ ~Taken(req[r].subnet, req[r].addr)
    /\ Goto(r, "createIp")
    /\ UNCHANGED addressing

\* The unique index and the foreign key let row i be n.
Permitted(i, n) ==
    n.subnet # NoSubnet =>
        /\ subnet[n.subnet].life = "up"
        /\ \A j \in Rows(n.subnet) \ {i} : ip[j].addr # n.addr

\* Every statement that follows is syncSubnetStats, of the subnets in order.
Syncing(r, order) ==
    IF order = <<>> THEN Idle
    ELSE [pc |-> "sync", todo |-> order, used |-> NoCount, reserved |-> NoCount,
          was |-> req[r].was]

ThenSync(r, order) ==
    /\ req' = [req EXCEPT ![r] = Syncing(r, order)]
    /\ alone' = [alone EXCEPT ![r] = @ /\ order # <<>>]

Vacant == {i \in Ids : ip[i].life = "none" /\ \A q \in Requests : ~KnowsIp(q, i)}

CreateIp(r) ==
    /\ At(r, "createIp")
    /\ \E i \in Ids :
          LET n == [life |-> "up", addr |-> req[r].addr, subnet |-> req[r].subnet,
                    status |-> req[r].status]
          IN  /\ i \in Vacant /\ \A j \in Vacant : i <= j
              /\ Permitted(i, n)
              /\ ip' = [ip EXCEPT ![i] = n]
    /\ ThenSync(r, IF req[r].subnet = NoSubnet THEN <<>> ELSE <<req[r].subnet>>)
    /\ UNCHANGED subnet
-----------------------------------------------------------------------------
(* updateIp and deleteIp.                                                  *)

StartUpdateIp(r, i, s, a, st) ==
    /\ ip[i].life = "up"
    /\ Cardinality({n \in 1 .. 3 : <<s, a, st>>[n] # Same}) <= MaxChanged
    /\ Begin(r, Task("readIp", "update", i, s, a, st))
    /\ UNCHANGED addressing

StartDeleteIp(r, i) ==
    /\ ip[i].life = "up"
    /\ Begin(r, Task("readIp", "delete", i, Same, Same, Same))
    /\ UNCHANGED addressing

\* The row as it was: from here on req[r].todo holds its subnet, if it has one, and
\* req[r].again says that its status is to change.
ReadIp(r) ==
    /\ At(r, "readIp")
    /\ LET x == ip[req[r].id]
       IN  /\ req[r].op = "update" => x.life = "up"
           /\ Continue(r, [req[r] EXCEPT
                  !.pc = IF req[r].op = "update" THEN "updateIp" ELSE "deleteIp",
                  !.todo = IF x.subnet = NoSubnet THEN <<>> ELSE <<x.subnet>>,
                  !.again = req[r].status \notin {Same, x.status}])
    /\ UNCHANGED addressing

Changed(v, w) == IF w = Same THEN v ELSE w

\* Mutant of Resync: the subnet the address leaves is not counted again.
ResyncNew(old, new, again) == IF new = NoSubnet THEN <<>> ELSE <<new>>

\* The old subnet if it is another one, the new one, and that once more if it is the
\* old one too and the status changes.
Resync(old, new, again) ==
    (IF old = <<new>> THEN <<>> ELSE old)
    \o (IF new = NoSubnet THEN <<>> ELSE <<new>>)
    \o (IF old = <<new>> /\ again THEN old ELSE <<>>)

UpdateIp(r) ==
    /\ At(r, "updateIp")
    /\ LET x == ip[req[r].id]
           n == [x EXCEPT !.addr = Changed(@, req[r].addr),
                          !.subnet = Changed(@, req[r].subnet),
                          !.status = Changed(@, req[r].status)]
       IN  /\ x.life = "up" /\ Permitted(req[r].id, n)
           /\ ip' = [ip EXCEPT ![req[r].id] = n]
           /\ ThenSync(r, Resync(req[r].todo, n.subnet, req[r].again))
    /\ UNCHANGED subnet

DeleteIp(r) ==
    /\ At(r, "deleteIp")
    /\ ip[req[r].id].life = "up"
    /\ ip' = [ip EXCEPT ![req[r].id] = NoIp]
    /\ ThenSync(r, req[r].todo)
    /\ UNCHANGED subnet
-----------------------------------------------------------------------------
(* syncSubnetStats: two counts at once, then the update.                   *)

CountUsed(r) ==
    /\ At(r, "sync") /\ req[r].used = NoCount
    /\ Continue(r, [req[r] EXCEPT !.used = Count(Head(req[r].todo), "ASSIGNED")])
    /\ UNCHANGED addressing

CountReserved(r) ==
    /\ At(r, "sync") /\ req[r].reserved = NoCount
    /\ Continue(r, [req[r] EXCEPT !.reserved = Count(Head(req[r].todo), "RESERVED")])
    /\ UNCHANGED addressing

\* Mutant of WriteStats: it does not wait for the counts.
WriteStatsEarly(r) ==
    /\ At(r, "sync")
    /\ LET s == Head(req[r].todo)
       IN  subnet' = IF subnet[s].life = "up"
                     THEN [subnet EXCEPT ![s].used = req[r].used,
                                         ![s].reserved = req[r].reserved]
                     ELSE subnet
    /\ ThenSync(r, Tail(req[r].todo))
    /\ UNCHANGED ip

\* The update of a subnet that has gone fails, like any other failure, unnoticed.
WriteStats(r) ==
    /\ At(r, "sync") /\ NoCount \notin {req[r].used, req[r].reserved}
    /\ LET s == Head(req[r].todo)
       IN  subnet' = IF subnet[s].life = "up"
                     THEN [subnet EXCEPT ![s].used = req[r].used,
                                         ![s].reserved = req[r].reserved]
                     ELSE subnet
    /\ ThenSync(r, Tail(req[r].todo))
    /\ UNCHANGED ip

\* The process dies, or a statement fails: it is logged, and the handler goes on.
SyncFails(r) ==
    /\ SyncFaults
    /\ At(r, "sync")
    /\ req' = [req EXCEPT ![r] = Syncing(r, Tail(req[r].todo))]
    /\ alone' = [alone EXCEPT ![r] = FALSE]
    /\ UNCHANGED addressing
-----------------------------------------------------------------------------
(* Subnets.                                                                *)

\* createSubnet takes reservedIps from the request.
CreateSubnet(s, n) ==
    /\ subnet[s].life = "none" /\ \A r \in Requests : ~KnowsSubnet(r, s)
    /\ subnet' = [subnet EXCEPT ![s] = [life |-> "up", used |-> 0, reserved |-> n]]
    /\ Instant /\ UNCHANGED ip

\* Its addresses stay, in no subnet (SetNull).
DeleteSubnet(s) ==
    /\ subnet[s].life = "up"
    /\ subnet' = [subnet EXCEPT ![s].life = "none", ![s].used = 0, ![s].reserved = 0]
    /\ ip' = [i \in Ids |-> IF ip[i].subnet = s THEN [ip[i] EXCEPT !.subnet = NoSubnet]
                            ELSE ip[i]]
    /\ Instant

ArriveIp(r) ==
    /\ Cardinality({q \in Requests : ~At(q, "idle")}) < MaxIpRequests
    /\ \/ \E s \in Subnets \cup {NoSubnet}, a \in Addresses \cup {NoAddress}, st \in Statuses :
             StartCreateIp(r, s, a, st)
       \/ \E i \in Ids :
             \/ \E s \in Subnets \cup {NoSubnet, Same}, a \in Addresses \cup {Same},
                   st \in Statuses \cup {Same} : StartUpdateIp(r, i, s, a, st)
             \/ StartDeleteIp(r, i)

IpStatement(r) ==
    \/ ReadSubnet(r) \/ Match(r) \/ FindExisting(r) \/ CreateIp(r)
    \/ ReadIp(r) \/ UpdateIp(r) \/ DeleteIp(r)
    \/ CountUsed(r) \/ CountReserved(r) \/ WriteStats(r)
    \/ SyncFails(r)

SubnetsNext ==
    \/ \E r \in Requests : ArriveIp(r) \/ IpStatement(r) \/ RefuseIp(r)
    \/ \E s \in Subnets : DeleteSubnet(s) \/ \E n \in 0 .. 1 : CreateSubnet(s, n)
-----------------------------------------------------------------------------
(* Properties.                                                             *)

\* Races and failures lose updates of the counters, for good.  A request that no
\* other overlapped and none of whose statements failed leaves no counter wrong that
\* was not wrong before it, whichever subnets the address left and entered.
AloneSyncs ==
    [][\A r \in Requests :
          /\ alone[r] /\ (WriteStats(r) \/ UpdateIp(r) \/ DeleteIp(r) \/ CreateIp(r))
          /\ At(r, "idle")'
          => \A was \in {req[r].was} : Wrong' \subseteq was]_<<addressing, handlers>>
===============================================================================
