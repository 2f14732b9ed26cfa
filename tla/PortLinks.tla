------------------------------ MODULE PortLinks ------------------------------
(***************************************************************************)
(* Cables between switch ports: NetworkService.createTopologyLink,         *)
(* deleteTopologyLink, updatePort, createPort, deletePort, createSwitch    *)
(* with its ports and deleteSwitch                                         *)
(* (apps/api/src/modules/network/network.service.ts).                      *)
(*                                                                         *)
(* A link is two rows that name each other (SwitchPort.connectedPortId,    *)
(* unique).  The link endpoints read the rows they are about, then open a  *)
(* transaction at READ COMMITTED: a step is one statement, its writes are  *)
(* in mine[r] and lock the rows until the commit, which is one step with   *)
(* the last write.  Of a port only its connections are kept, not its       *)
(* status, mode, speed and VLANs.                                          *)
(***************************************************************************)
EXTENDS Handlers

CONSTANTS
    Ports, Switches, Assets,
    SwitchOf,     \* the switch of each port
    NoPort, NoAsset

ASSUME PortsAssumption ==
    /\ SwitchOf \in [Ports -> Switches]
    /\ NoPort \notin Ports /\ NoAsset \notin Assets

VARIABLES
    switch,   \* NetworkSwitch rows: their Life
    port,     \* SwitchPort rows
    mine      \* the rows a transaction has written and not committed

links == <<switch, port, mine>>

PortRow == [life : Life, peer : Ports \cup {NoPort}, asset : Assets \cup {NoAsset}]

NewRow(a) == [life |-> "up", peer |-> NoPort, asset |-> a]
NoRow == [life |-> "none", peer |-> NoPort, asset |-> NoAsset]

\* A link request; seen: the peers it has read.
LinkTask == [pc : {"readTarget", "evictReverse", "evictForward", "evictAsset",
                   "linkSource", "linkTarget", "last"},
             op : {"link", "endpoint", "unlink"}, src : Ports, dst : Ports \cup {NoPort},
             asset : Assets \cup {NoAsset}, seen : SUBSET Ports]

LinksTypeOK ==
    /\ switch \in [Switches -> Life]
    /\ port \in [Ports -> PortRow]
    /\ \A r \in Requests : DOMAIN mine[r] \subseteq Ports
    /\ \A r \in Requests : \A p \in DOMAIN mine[r] : mine[r][p] \in PortRow

Empty == [p \in {} |-> NoRow]

LinksInit ==
    /\ switch = [w \in Switches |-> "none"]
    /\ port = [p \in Ports |-> NoRow]
    /\ mine = [r \in Requests |-> Empty]

\* The ports that request r has read or is asked about.
Known(r) == IF req[r] \in LinkTask THEN {req[r].src, req[r].dst} \cup req[r].seen ELSE {}
Fresh(p) == port[p].life = "none" /\ \A r \in Requests : p \notin Known(r)

\* What request r sees: its own writes, else what is committed.
Row(r, p) == IF p \in DOMAIN mine[r] THEN mine[r][p] ELSE port[p]
Up(r) == {p \in Ports : Row(r, p).life = "up"}

Unlocked(r, S) == \A q \in Requests \ {r} : S \cap DOMAIN mine[q] = {}

\* The statement writes row[p] to every p in S.
Write(r, S, row) ==
    /\ Unlocked(r, S)
    /\ mine' = [mine EXCEPT ![r] =
                  [p \in DOMAIN @ \cup S |-> IF p \in S THEN row[p] ELSE @[p]]]

\* The unique index on connectedPortId lets p name q: no other row names it, in
\* what r sees or in what another transaction is about to commit.
IndexAllows(r, p, q) ==
    /\ \A o \in Up(r) \ {p} : Row(r, o).peer # q
    /\ \A t \in Requests \ {r} : \A o \in DOMAIN mine[t] \ {p} : mine[t][o].peer # q

\* The request is refused, times out, breaks the index or a deadlock: ROLLBACK.
AbortLink(r) ==
    /\ req[r] \in LinkTask
    /\ Finish(r)
    /\ mine' = [mine EXCEPT ![r] = Empty]
    /\ UNCHANGED <<switch, port>>

\* The last statement writes row to p; COMMIT.
Commit(r, p, row) ==
    /\ Unlocked(r, {p})
    /\ port' = [o \in Ports |-> IF o = p THEN row ELSE Row(r, o)]
    /\ Finish(r)
    /\ mine' = [mine EXCEPT ![r] = Empty]
    /\ UNCHANGED switch

PeerOf(p) == {port[p].peer} \ {NoPort}
-----------------------------------------------------------------------------
(* createTopologyLink between two ports.                                   *)

StartLink(r, s, t) ==
    /\ port[s].life = "up" /\ s # t
    /\ Begin(r, [pc |-> "readTarget", op |-> "link", src |-> s, dst |-> t,
                 asset |-> NoAsset, seen |-> PeerOf(s)])
    /\ UNCHANGED links

ReadTarget(r) ==
    /\ At(r, "readTarget")
    /\ LET t == req[r].dst
       IN  /\ port[t].life = "up" /\ SwitchOf[t] # SwitchOf[req[r].src]
           /\ Continue(r, [req[r] EXCEPT !.pc = "evictReverse",
                                         !.seen = (@ \cup PeerOf(t)) \ {req[r].src, t}])
    /\ UNCHANGED links

\* The two ports of a link, or the one.
Ends(r) == {req[r].src, req[r].dst} \ {NoPort}

\* Mutant of Unlinked: the eviction changes the status of the port alone.
UnlinkedStatusOnly(r) == [p \in Ports |-> Row(r, p)]

Unlinked(r) == [p \in Ports |-> [Row(r, p) EXCEPT !.peer = NoPort]]

\* Mutant of Pointing: the ports that point at the source alone.
PointingAtSource(r) == {p \in Up(r) \ Ends(r) : Row(r, p).peer = req[r].src}

\* The other ports that point at one of the two.
Pointing(r) == {p \in Up(r) \ Ends(r) : Row(r, p).peer \in Ends(r)}

\* Step A.
EvictReverse(r) ==
    /\ At(r, "evictReverse")
    /\ Write(r, Pointing(r), Unlinked(r))
    /\ Goto(r, "evictForward")
    /\ UNCHANGED <<switch, port>>

\* Step B: the peers that were read before the transaction, whatever they point
\* at now.  A link skips a peer deleted since; the others fail on it.
EvictForward(r) ==
    /\ At(r, "evictForward")
    /\ req[r].op = "link" \/ req[r].seen \subseteq Up(r)
    /\ Write(r, req[r].seen \cap Up(r), Unlinked(r))
    /\ Continue(r, [req[r] EXCEPT
          !.pc = IF req[r].op = "link" THEN "linkSource"
                 ELSE IF req[r].asset # NoAsset THEN "evictAsset" ELSE "last",
          !.seen = {}])
    /\ UNCHANGED <<switch, port>>

Linked(q) == [life |-> "up", peer |-> q, asset |-> NoAsset]

LinkSource(r) ==
    /\ At(r, "linkSource")
    /\ LET s == req[r].src  t == req[r].dst
       IN  /\ {s, t} \subseteq Up(r) /\ IndexAllows(r, s, t)
           /\ Write(r, {s}, [p \in {s} |-> Linked(t)])
    /\ Goto(r, "linkTarget")
    /\ UNCHANGED <<switch, port>>

LinkTarget(r) ==
    /\ At(r, "linkTarget")
    /\ LET s == req[r].src  t == req[r].dst
       IN  /\ t \in Up(r) /\ IndexAllows(r, t, s)
           /\ Commit(r, t, Linked(s))
-----------------------------------------------------------------------------
(* createTopologyLink to an asset (an IP address stands for its asset), and *)
(* deleteTopologyLink, which ends in the same way with no asset.           *)

StartEndpoint(r, s, a) ==
    /\ port[s].life = "up"
    /\ Begin(r, [pc |-> "evictReverse", op |-> "endpoint", src |-> s, dst |-> NoPort,
                 asset |-> a, seen |-> PeerOf(s)])
    /\ UNCHANGED links

StartUnlink(r, s) ==
    /\ port[s].life = "up"
    /\ Begin(r, [pc |-> "evictReverse", op |-> "unlink", src |-> s, dst |-> NoPort,
                 asset |-> NoAsset, seen |-> PeerOf(s)])
    /\ UNCHANGED links

\* Step C: the asset leaves the other ports.
EvictAsset(r) ==
    /\ At(r, "evictAsset")
    /\ LET held == {p \in Up(r) \ {req[r].src} : Row(r, p).asset = req[r].asset}
       IN  Write(r, held, [p \in held |-> [Row(r, p) EXCEPT !.asset = NoAsset]])
    /\ Goto(r, "last")
    /\ UNCHANGED <<switch, port>>

ConnectEndpoint(r) ==
    /\ At(r, "last")
    /\ req[r].src \in Up(r)
    /\ Commit(r, req[r].src, NewRow(req[r].asset))
-----------------------------------------------------------------------------
(* Single statements on ports and switches.                                *)

\* updatePort names any asset, and evicts nobody.
UpdatePort(p, a) ==
    /\ port[p].life = "up" /\ \A r \in Requests : p \notin DOMAIN mine[r]
    /\ port' = [port EXCEPT ![p].asset = a]
    /\ Instant
    /\ UNCHANGED <<switch, mine>>

CreatePort(p, a) ==
    /\ Fresh(p) /\ switch[SwitchOf[p]] = "up"
    /\ port' = [port EXCEPT ![p] = NewRow(a)]
    /\ Instant
    /\ UNCHANGED <<switch, mine>>

\* The rows of S go, and with them every pointer at them (SetNull).
Deleted(S) ==
    [p \in Ports |-> IF p \in S THEN NoRow
                     ELSE IF port[p].peer \in S THEN [port[p] EXCEPT !.peer = NoPort]
                     ELSE port[p]]

DeletePorts(S) ==
    /\ \A r \in Requests : \A p \in DOMAIN mine[r] :
          p \notin S /\ port[p].peer \notin S /\ mine[r][p].peer \notin S
    /\ port' = Deleted(S)

DeletePort(p) ==
    /\ port[p].life = "up"
    /\ DeletePorts({p})
    /\ Instant
    /\ UNCHANGED <<switch, mine>>

\* createSwitch, then generateDefaultPorts in a statement of its own: a crash in
\* between leaves a switch without ports, to which createPort can add them.
CreateSwitch(w) ==
    /\ switch[w] = "none"
    /\ switch' = [switch EXCEPT ![w] = "up"]
    /\ Instant
    /\ UNCHANGED <<port, mine>>

GeneratePorts(w) ==
    /\ switch[w] = "up"
    /\ \A p \in Ports : SwitchOf[p] = w => Fresh(p)
    /\ port' = [p \in Ports |-> IF SwitchOf[p] = w THEN NewRow(NoAsset) ELSE port[p]]
    /\ Instant
    /\ UNCHANGED <<switch, mine>>

\* deleteSwitch: its ports in one statement, itself in another (Cascade).
ClearSwitch(w) ==
    /\ switch[w] = "up"
    /\ DeletePorts({p \in Ports : SwitchOf[p] = w /\ port[p].life = "up"})
    /\ Instant
    /\ UNCHANGED <<switch, mine>>

DeleteSwitch(w) ==
    /\ switch[w] = "up"
    /\ DeletePorts({p \in Ports : SwitchOf[p] = w})
    /\ switch' = [switch EXCEPT ![w] = "none"]
    /\ Instant
    /\ UNCHANGED mine

ArriveLink(r) ==
    \E s \in Ports :
        \/ \E t \in Ports : StartLink(r, s, t)
        \/ \E a \in Assets : StartEndpoint(r, s, a)
        \/ StartUnlink(r, s)

LinkStatement(r) ==
    \/ ReadTarget(r)
    \/ EvictReverse(r) \/ EvictForward(r) \/ EvictAsset(r)
    \/ LinkSource(r) \/ LinkTarget(r)
    \/ ConnectEndpoint(r)

LinksNext ==
    \/ \E r \in Requests : ArriveLink(r) \/ LinkStatement(r) \/ AbortLink(r)
    \/ \E p \in Ports :
          \/ \E a \in Assets \cup {NoAsset} : UpdatePort(p, a) \/ CreatePort(p, a)
          \/ DeletePort(p)
    \/ \E w \in Switches :
          CreateSwitch(w) \/ GeneratePorts(w) \/ ClearSwitch(w) \/ DeleteSwitch(w)
-----------------------------------------------------------------------------
(* Properties.                                                             *)

\* A port that names one that does not name it back: half a cable.
Dangling == {p \in Ports : port[p].peer # NoPort /\ port[port[p].peer].peer # p}

\* Races leave half cables (the eviction of Step B trusts peers read before the
\* transaction); a request that no other overlapped leaves no new one, whatever
\* state it finds the ports in.
AloneLinksBothEnds ==
    [][\A r \in Requests :
          alone[r] /\ (LinkTarget(r) \/ ConnectEndpoint(r))
          => Dangling' \subseteq Dangling]_<<links, handlers>>

\* The two evictions clear all that the unique index on connectedPortId would
\* refuse: a link that no other overlapped never fails on it, half cables or not.
AloneNeverRefused ==
    \A r \in Requests : alone[r] =>
        /\ At(r, "linkSource") => IndexAllows(r, req[r].src, req[r].dst)
        /\ At(r, "linkTarget") => IndexAllows(r, req[r].dst, req[r].src)
=============================================================================
