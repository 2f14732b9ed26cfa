---------------------------- MODULE NetworkProof -----------------------------
(***************************************************************************)
(* Proofs about Network, for every set of requests, ports, switches,       *)
(* racks, subnets and addresses, and every bound.                          *)
(*                                                                         *)
(* A behaviour is about one part, and each part has an inductive invariant *)
(* that speaks of the handlers only while the behaviour is about it.       *)
(***************************************************************************)
EXTENDS Network, FiniteSetTheorems, WellFoundedInduction, TLAPS

\* The handlers are functions, each is at a step of its part, and while one is alone the
\* others are idle.
Doing(Tasks) ==
    /\ req = [r \in Requests |-> req[r]] /\ alone = [r \in Requests |-> alone[r]]
    /\ \A r \in Requests : req[r] \in Tasks
    /\ \A r \in Requests : alone[r] => \A q \in Requests \ {r} : At(q, "idle")

\* The handlers after a step, of whatever part.
LEMMA BeginDoing ==
    ASSUME NEW Tasks, Doing(Tasks), NEW r \in Requests, NEW task \in Tasks, Begin(r, task)
    PROVE  /\ Doing(Tasks)'
           /\ req'[r] = task
           /\ \A q \in Requests \ {r} : req'[q] = req[q] /\ ~alone'[q]
  BY DEF Doing, Begin, At

\* A request that goes on is where it says; the others are where they were, and no longer alone.
LEMMA ContinueDoing ==
    ASSUME NEW Tasks, Doing(Tasks), NEW r \in Requests, NEW task \in Tasks, Continue(r, task),
           ~At(r, "idle")
    PROVE  /\ Doing(Tasks)'
           /\ req'[r] = task
           /\ \A q \in Requests \ {r} : req'[q] = req[q] /\ ~alone'[q]
           /\ alone' = alone
  BY DEF Doing, Continue, At

\* One that ends is idle.
LEMMA FinishDoing ==
    ASSUME NEW Tasks, Idle \in Tasks, Doing(Tasks), NEW r \in Requests, Finish(r), ~At(r, "idle")
    PROVE  /\ Doing(Tasks)'
           /\ req'[r] = Idle
           /\ \A q \in Requests : ~alone'[q]
           /\ \A q \in Requests \ {r} : req'[q] = req[q]
  BY DEF Doing, Finish, At, Idle

\* A call of one statement moves no other request.
LEMMA InstantDoing ==
    ASSUME NEW Tasks, Doing(Tasks), Instant
    PROVE  Doing(Tasks)' /\ \A q \in Requests : ~alone'[q]
  BY DEF Doing, Instant, At
-----------------------------------------------------------------------------
(* Links.                                                                  *)

\* The steps of a link and of the other two operations, and what they have written.
LinkShape(r) ==
    /\ req[r].pc \in {"idle", "readTarget", "evictReverse"} => mine[r] = Empty
    /\ req[r].pc \in {"readTarget", "linkSource", "linkTarget"} => req[r].op = "link"
    /\ req[r].pc \in {"evictAsset", "last"} => req[r].op # "link"
    /\ req[r].pc # "idle" =>
          IF req[r].op = "link" THEN req[r].dst \in Ports \ {req[r].src} ELSE req[r].dst = NoPort

\* The rows that a request sees.
View(r) == [p \in Ports |-> Row(r, p)]

\* No two of them name the same port, none names itself, and one that is gone names none.
Apart(row) ==
    /\ \A p \in Ports : row[p].life = "none" => row[p].peer = NoPort
    /\ \A p \in Ports : row[p].peer # p
    /\ \A p, o \in Ports : row[p].peer = row[o].peer /\ row[p].peer # NoPort => p = o

\* The transactions have written different rows, and name different ports.
MineOK ==
    /\ mine = [r \in Requests |-> mine[r]]
    /\ \A r \in Requests :
          /\ mine[r] = [p \in DOMAIN mine[r] |-> mine[r][p]]
          /\ \A p \in DOMAIN mine[r] : mine[r][p].life = "up"
    /\ \A r, q \in Requests : r # q =>
          \A p \in DOMAIN mine[r], o \in DOMAIN mine[q] :
             p # o /\ (mine[r][p].peer = mine[q][o].peer => mine[r][p].peer = NoPort)

\* The unique index holds in the table and in what each request sees.
TablesOK == LinksTypeOK /\ MineOK /\ Apart(port) /\ \A r \in Requests : Apart(View(r))

\* A port that the request has unlinked was named by one of the two or named one.
LetGo(r, o) ==
    Row(r, o).peer # port[o].peer =>
        /\ Row(r, o).peer = NoPort
        /\ port[o].peer \in Ends(r) \/ \E e \in Ends(r) : port[e].peer = o

\* What a request that is alone knows of the ports, and has done to them.
LinkAlone(r) ==
    /\ At(r, "readTarget") => req[r].seen \subseteq {port[req[r].src].peer}
    /\ req[r].pc \in {"evictReverse", "evictForward"} =>
          req[r].seen \subseteq {port[e].peer : e \in Ends(r)}
    /\ req[r].pc \in {"evictForward", "linkSource", "linkTarget", "evictAsset", "last"} =>
          \A o \in Ports \ Ends(r) : Row(r, o).peer \notin Ends(r) /\ LetGo(r, o)
    /\ At(r, "linkTarget") => Row(r, req[r].src).peer = req[r].dst

LinkTasks == {Idle} \cup LinkTask

\* The invariant of the cables.
LinksOK ==
    /\ Doing(LinkTasks)
    /\ TablesOK
    /\ \A r \in Requests : LinkShape(r) /\ (alone[r] => LinkAlone(r))

\* A table whose rows name the same ports, or none, is no worse.
LEMMA FewerApart ==
    ASSUME NEW old, Apart(old), NEW new,
           \A p \in Ports : new[p].peer \in {old[p].peer, NoPort},
           \A p \in Ports : new[p].life = "none" => new[p].peer = NoPort
    PROVE  Apart(new)
  BY PortsAssumption DEF Apart

\* Nor one in which a row names a port that no other names.
LEMMA NamedApart ==
    ASSUME NEW old \in [Ports -> PortRow], Apart(old), NEW p \in Ports, NEW row \in PortRow,
           row.life = "up", row.peer # p,
           row.peer # NoPort => \A o \in Ports \ {p} : old[o].peer # row.peer
    PROVE  Apart([old EXCEPT ![p] = row])
<1> DEFINE new == [old EXCEPT ![p] = row]
<1>1. new[p] = row /\ \A o \in Ports \ {p} : new[o] = old[o]
  OBVIOUS
<1> HIDE DEF new
<1>2. Apart(new)
  BY <1>1 DEF Apart
<1> QED BY <1>2 DEF new

\* What a request sees are rows of ports; a port that is not seen names none.
LEMMA SeenRows ==
    ASSUME TablesOK, NEW r \in Requests
    PROVE  /\ View(r) \in [Ports -> PortRow]
           /\ \A p \in Ports : View(r)[p] = Row(r, p)
           /\ \A p \in Ports : Row(r, p) \in PortRow
           /\ \A p \in Ports \ Up(r) : Row(r, p).peer = NoPort
  BY DEF TablesOK, LinksTypeOK, View, Row, Up, Apart, PortRow, Life

\* The rows that a statement may write: each names what it named, or none, or, when it is
\* one, a port that the unique index allows it.
Writable(r, S, row) ==
    \A p \in S :
        /\ row[p] \in PortRow /\ row[p].life = "up"
        /\ \/ row[p].peer \in {NoPort, Row(r, p).peer}
           \/ S = {p} /\ row[p].peer # p /\ IndexAllows(r, p, row[p].peer)

\* What a statement does to what is seen.
Wrote(r, S, row) ==
    /\ mine' = [q \in Requests |-> mine'[q]]
    /\ \A q \in Requests \ {r} : mine'[q] = mine[q]
    /\ mine'[r] = [p \in DOMAIN mine'[r] |-> mine'[r][p]]
    /\ DOMAIN mine'[r] = DOMAIN mine[r] \cup S
    /\ \A p \in DOMAIN mine'[r] : mine'[r][p] = IF p \in S THEN row[p] ELSE mine[r][p]
    /\ LinksTypeOK'
    /\ \A p \in Ports : (Row(r, p))' = IF p \in S THEN row[p] ELSE Row(r, p)
    /\ \A q \in Requests \ {r} : View(q)' = View(q)

\* What a statement writes is seen by its own transaction alone.
LEMMA WriteSeen ==
    ASSUME TablesOK, NEW r \in Requests, NEW S \in SUBSET Ports, NEW row, Writable(r, S, row),
           Write(r, S, row), UNCHANGED <<switch, port>>
    PROVE  Wrote(r, S, row)
<1> DEFINE m == [p \in DOMAIN mine[r] \cup S |-> IF p \in S THEN row[p] ELSE mine[r][p]]
<1>1. mine' = [mine EXCEPT ![r] = m] /\ mine = [q \in Requests |-> mine[q]]
  BY DEF Write, TablesOK, MineOK
<1>2. mine'[r] = m /\ \A q \in Requests \ {r} : mine'[q] = mine[q]
  BY <1>1
<1>3. DOMAIN m = DOMAIN mine[r] \cup S
  OBVIOUS
<1>4. \A p \in DOMAIN m : m[p] = IF p \in S THEN row[p] ELSE mine[r][p]
  OBVIOUS
<1>5. m = [p \in DOMAIN m |-> m[p]]
  OBVIOUS
<1>6. PICK n : n = m
  OBVIOUS
<1> HIDE DEF m
<1>7. mine' = [q \in Requests |-> mine'[q]]
  BY <1>1
<1>8. \A p \in DOMAIN n : n[p] \in PortRow
  BY <1>3, <1>4, <1>6 DEF TablesOK, LinksTypeOK, Writable
<1>9. LinksTypeOK'
  BY <1>2, <1>3, <1>6, <1>8 DEF TablesOK, LinksTypeOK
<1>10. \A p \in Ports : (Row(r, p))' = IF p \in S THEN row[p] ELSE Row(r, p)
  BY <1>2, <1>3, <1>4, <1>6 DEF Row
<1>11. \A q \in Requests \ {r} : View(q)' = View(q)
  BY <1>2 DEF View, Row
<1> QED BY <1>2, <1>3, <1>4, <1>5, <1>6, <1>7, <1>9, <1>10, <1>11 DEF Wrote

\* What it writes names no port that another transaction is about to name.
LEMMA WriteApart ==
    ASSUME TablesOK, NEW r \in Requests, NEW S \in SUBSET Ports, NEW row, Writable(r, S, row),
           Unlocked(r, S), NEW q \in Requests \ {r}, NEW p \in S, NEW o \in DOMAIN mine[q]
    PROVE  p # o /\ (row[p].peer = mine[q][o].peer => row[p].peer = NoPort)
<1>1. p # o /\ o \in Ports /\ p \notin DOMAIN mine[q] /\ p \in Ports
  BY DEF Unlocked, TablesOK, LinksTypeOK
<1>2. CASE row[p].peer = NoPort
  BY <1>1, <1>2
<1>3. CASE S = {p} /\ row[p].peer # p /\ IndexAllows(r, p, row[p].peer)
  BY <1>1, <1>3 DEF IndexAllows
<1>4. CASE row[p].peer = Row(r, p).peer
  <2>1. CASE p \in DOMAIN mine[r]
    BY <1>1, <1>4, <2>1 DEF Row, TablesOK, MineOK
  <2>2. CASE p \notin DOMAIN mine[r]
    <3>1. Row(r, p) = port[p] /\ View(q)[p] = port[p] /\ View(q)[o] = mine[q][o]
      BY <1>1, <2>2 DEF Row, View
    <3>2. Apart(View(q))
      BY DEF TablesOK
    <3> QED BY <1>1, <1>4, <3>1, <3>2 DEF Apart
  <2> QED BY <2>1, <2>2
<1> QED BY <1>2, <1>3, <1>4 DEF Writable

\* A statement keeps the unique index.
LEMMA WriteKept ==
    ASSUME TablesOK, NEW r \in Requests, NEW S \in SUBSET Ports, NEW row, Writable(r, S, row),
           Write(r, S, row), UNCHANGED <<switch, port>>
    PROVE  TablesOK'
<1>1. /\ mine' = [q \in Requests |-> mine'[q]]
      /\ \A q \in Requests \ {r} : mine'[q] = mine[q]
      /\ mine'[r] = [p \in DOMAIN mine'[r] |-> mine'[r][p]]
      /\ DOMAIN mine'[r] = DOMAIN mine[r] \cup S
      /\ \A p \in DOMAIN mine'[r] : mine'[r][p] = IF p \in S THEN row[p] ELSE mine[r][p]
      /\ LinksTypeOK'
      /\ \A p \in Ports : (Row(r, p))' = IF p \in S THEN row[p] ELSE Row(r, p)
      /\ \A q \in Requests \ {r} : View(q)' = View(q)
  BY WriteSeen DEF Wrote
<1>2. \A p \in DOMAIN mine'[r] : mine'[r][p].life = "up"
  BY <1>1 DEF Writable, TablesOK, MineOK
<1>3. Unlocked(r, S)
  BY DEF Write
<1>4. \A q \in Requests \ {r} : \A p \in DOMAIN mine'[r], o \in DOMAIN mine[q] :
         p # o /\ (mine'[r][p].peer = mine[q][o].peer => mine'[r][p].peer = NoPort)
  <2> SUFFICES ASSUME NEW q \in Requests \ {r}, NEW p \in DOMAIN mine'[r], NEW o \in DOMAIN mine[q]
               PROVE  p # o /\ (mine'[r][p].peer = mine[q][o].peer => mine'[r][p].peer = NoPort)
    OBVIOUS
  <2>1. CASE p \in S
    BY <1>1, <1>3, <2>1, WriteApart
  <2>2. CASE p \notin S
    BY <1>1, <2>2 DEF TablesOK, MineOK
  <2> QED BY <2>1, <2>2
<1>5. MineOK'
  <2>1. \A q \in Requests : mine'[q] = [p \in DOMAIN mine'[q] |-> mine'[q][p]]
    BY <1>1 DEF TablesOK, MineOK
  <2>2. \A q \in Requests : \A p \in DOMAIN mine'[q] : mine'[q][p].life = "up"
    BY <1>1, <1>2 DEF TablesOK, MineOK
  <2>3. ASSUME NEW a \in Requests, NEW b \in Requests, a # b,
               NEW p \in DOMAIN mine'[a], NEW o \in DOMAIN mine'[b]
        PROVE  p # o /\ (mine'[a][p].peer = mine'[b][o].peer => mine'[a][p].peer = NoPort)
    <3>1. CASE a # r /\ b # r
      BY <1>1, <2>3, <3>1 DEF TablesOK, MineOK
    <3>2. CASE a = r
      BY <1>1, <1>4, <2>3, <3>2
    <3>3. CASE b = r
      BY <1>1, <1>4, <2>3, <3>3
    <3> QED BY <3>1, <3>2, <3>3
  <2> QED BY <1>1, <2>1, <2>2, <2>3 DEF MineOK
<1>6. Apart(View(r))'
  <2>1. PICK v : v = View(r)'
    OBVIOUS
  <2>2. \A p \in Ports : v[p] = IF p \in S THEN row[p] ELSE Row(r, p)
    BY <1>1, <2>1 DEF View
  <2>3. Apart(View(r)) /\ View(r) \in [Ports -> PortRow] /\ \A p \in Ports : View(r)[p] = Row(r, p)
    BY SeenRows DEF TablesOK
  <2>4. CASE \A p \in S : row[p].peer \in {NoPort, Row(r, p).peer}
    <3>1. \A p \in Ports : v[p].peer \in {View(r)[p].peer, NoPort}
      BY <2>2, <2>3, <2>4
    <3>2. \A p \in Ports : v[p].life = "none" => v[p].peer = NoPort
      BY <2>2, <2>3 DEF Writable, Apart
    <3> QED BY <2>1, <2>3, <3>1, <3>2, FewerApart
  <2>5. CASE \E p \in S : row[p].peer # NoPort /\ S = {p} /\ row[p].peer # p
                          /\ IndexAllows(r, p, row[p].peer)
    <3>1. PICK p \in S : row[p].peer # NoPort /\ S = {p} /\ row[p].peer # p
                         /\ IndexAllows(r, p, row[p].peer)
      BY <2>5
    <3>2. p \in Ports /\ row[p] \in PortRow /\ row[p].life = "up"
      BY <3>1 DEF Writable
    <3>3. \A o \in Ports \ {p} : View(r)[o].peer # row[p].peer
      BY <3>1, <2>3, SeenRows DEF IndexAllows
    <3>4. v = [View(r) EXCEPT ![p] = row[p]]
      <4>1. v = [o \in Ports |-> v[o]]
        BY <2>1 DEF View
      <4>2. \A o \in Ports : v[o] = IF o = p THEN row[p] ELSE View(r)[o]
        BY <2>2, <2>3, <3>1
      <4> QED BY <2>3, <3>2, <4>1, <4>2
    <3>5. Apart([View(r) EXCEPT ![p] = row[p]])
      BY <2>3, <3>1, <3>2, <3>3, NamedApart
    <3> QED BY <2>1, <3>4, <3>5
  <2> QED BY <2>4, <2>5 DEF Writable
<1>7. \A q \in Requests : Apart(View(q))'
  <2> SUFFICES ASSUME NEW q \in Requests PROVE Apart(View(q))'
    OBVIOUS
  <2>1. CASE q # r
    <3>1. Apart(View(q)) /\ View(q)' = View(q)
      BY <1>1, <2>1 DEF TablesOK
    <3> QED BY <3>1 DEF Apart
  <2> QED BY <1>6, <2>1
<1>8. Apart(port)'
  BY DEF TablesOK, Apart
<1> QED BY <1>1, <1>5, <1>7, <1>8 DEF TablesOK

\* A transaction that is over has written nothing.
LEMMA EmptiedMine ==
    ASSUME MineOK, NEW r \in Requests, mine' = [mine EXCEPT ![r] = Empty]
    PROVE  MineOK'
<1>1. mine = [q \in Requests |-> mine[q]]
  BY DEF MineOK
<1>2. mine'[r] = Empty /\ \A q \in Requests \ {r} : mine'[q] = mine[q]
  BY <1>1
<1>3. DOMAIN Empty = {} /\ Empty = [o \in DOMAIN Empty |-> Empty[o]]
  BY DEF Empty
<1>4. mine' = [q \in Requests |-> mine'[q]]
  BY <1>1
<1>5. ASSUME NEW q \in Requests
      PROVE  mine'[q] = [p \in DOMAIN mine'[q] |-> mine'[q][p]]
             /\ \A p \in DOMAIN mine'[q] : mine'[q][p].life = "up"
  <2>1. CASE q = r
    BY <1>2, <1>3, <2>1
  <2>2. CASE q # r
    BY <1>2, <2>2 DEF MineOK
  <2> QED BY <2>1, <2>2
<1>6. ASSUME NEW a \in Requests, NEW b \in Requests, a # b,
             NEW p \in DOMAIN mine'[a], NEW o \in DOMAIN mine'[b]
      PROVE  p # o /\ (mine'[a][p].peer = mine'[b][o].peer => mine'[a][p].peer = NoPort)
  <2>1. a # r /\ b # r
    BY <1>2, <1>3, <1>6
  <2> QED BY <1>2, <1>6, <2>1 DEF MineOK
<1> QED BY <1>4, <1>5, <1>6 DEF MineOK

\* A rollback leaves what is in the table.
LEMMA RollbackKept ==
    ASSUME TablesOK, NEW r \in Requests, mine' = [mine EXCEPT ![r] = Empty], UNCHANGED <<switch, port>>
    PROVE  TablesOK' /\ mine'[r] = Empty /\ \A q \in Requests \ {r} : mine'[q] = mine[q]
<1>1. mine = [q \in Requests |-> mine[q]]
  BY DEF TablesOK, MineOK
<1>2. mine'[r] = Empty /\ \A q \in Requests \ {r} : mine'[q] = mine[q]
  BY <1>1
<1>3. DOMAIN Empty = {} /\ Empty = [p \in DOMAIN Empty |-> Empty[p]]
  BY DEF Empty
<1>4. LinksTypeOK'
  BY <1>2, <1>3 DEF TablesOK, LinksTypeOK
<1>5. MineOK'
  BY EmptiedMine DEF TablesOK
<1>6. \A q \in Requests : Apart(View(q))'
  <2>1. \A p \in Ports : (Row(r, p))' = port[p]
    BY <1>2, <1>3 DEF Row
  <2>2. Apart(View(r))'
    BY <2>1 DEF TablesOK, Apart, View
  <2>3. ASSUME NEW q \in Requests \ {r} PROVE Apart(View(q))'
    <3>1. View(q)' = View(q) /\ Apart(View(q))
      BY <1>2 DEF View, Row, TablesOK
    <3> QED BY <3>1 DEF Apart
  <2> QED BY <2>2, <2>3
<1> QED BY <1>2, <1>4, <1>5, <1>6 DEF TablesOK, Apart

\* A commit keeps the unique index: what it publishes was allowed to all.
LEMMA CommitKept ==
    ASSUME TablesOK, NEW r \in Requests, NEW p \in Ports, NEW row \in PortRow,
           row.life = "up", row.peer # p, row.peer # NoPort => IndexAllows(r, p, row.peer),
           Commit(r, p, row)
    PROVE  /\ TablesOK'
           /\ mine'[r] = Empty
           /\ \A q \in Requests \ {r} : mine'[q] = mine[q]
           /\ port'[p] = row
           /\ \A o \in Ports \ {p} : port'[o] = Row(r, o)
<1>1. mine = [q \in Requests |-> mine[q]]
  BY DEF TablesOK, MineOK
<1>2. mine'[r] = Empty /\ \A q \in Requests \ {r} : mine'[q] = mine[q]
  BY <1>1 DEF Commit
<1>3. DOMAIN Empty = {} /\ Empty = [o \in DOMAIN Empty |-> Empty[o]]
  BY DEF Empty
<1>4. /\ View(r) \in [Ports -> PortRow]
      /\ \A o \in Ports : View(r)[o] = Row(r, o)
      /\ \A o \in Ports : Row(r, o) \in PortRow
      /\ \A o \in Ports \ Up(r) : Row(r, o).peer = NoPort
      /\ Apart(View(r))
  BY SeenRows DEF TablesOK
<1>5. port' = [View(r) EXCEPT ![p] = row]
  BY DEF Commit, View
<1>6. port' \in [Ports -> PortRow] /\ port'[p] = row /\ \A o \in Ports \ {p} : port'[o] = Row(r, o)
  BY <1>4, <1>5
<1>7. Apart(port)'
  <2>1. row.peer # NoPort => \A o \in Ports \ {p} : View(r)[o].peer # row.peer
    BY <1>4 DEF IndexAllows
  <2>2. Apart([View(r) EXCEPT ![p] = row])
    BY <1>4, <2>1, NamedApart
  <2> QED BY <1>5, <2>2 DEF Apart
<1>8. LinksTypeOK'
  BY <1>2, <1>3, <1>6 DEF TablesOK, LinksTypeOK, Commit
<1>9. MineOK'
  BY EmptiedMine DEF TablesOK, Commit
<1>10. Apart(View(r))'
  <2>1. \A o \in Ports : (Row(r, o))' = port'[o]
    BY <1>2, <1>3 DEF Row
  <2> QED BY <1>7, <2>1 DEF Apart, View
<1>11. ASSUME NEW q \in Requests \ {r} PROVE Apart(View(q))'
  <2>1. PICK v : v = View(q)'
    OBVIOUS
  <2>2. \A o \in Ports : v[o] = IF o \in DOMAIN mine[q] THEN mine[q][o] ELSE port'[o]
    BY <1>2, <2>1 DEF View, Row
  <2>3. Apart(View(q)) /\ Apart(port') /\ \A o \in DOMAIN mine[q] : View(q)[o] = mine[q][o] /\ o \in Ports
    BY <1>7 DEF TablesOK, View, Row, Apart, LinksTypeOK
  <2>4. \A a \in DOMAIN mine[q], b \in Ports \ DOMAIN mine[q] :
           v[a].peer = v[b].peer => v[a].peer = NoPort
    <3> SUFFICES ASSUME NEW a \in DOMAIN mine[q], NEW b \in Ports \ DOMAIN mine[q],
                        mine[q][a].peer = port'[b].peer
                 PROVE  mine[q][a].peer = NoPort
      BY <2>2, <2>3
    <3>1. a # b /\ a \in Ports
      BY <2>3
    <3>2. CASE b = p
      BY <1>6, <3>1, <3>2 DEF IndexAllows
    <3>3. CASE b # p /\ b \in DOMAIN mine[r]
      BY <1>6, <3>1, <3>3 DEF Row, TablesOK, MineOK
    <3>4. CASE b # p /\ b \notin DOMAIN mine[r]
      <4>1. port'[b] = View(q)[b]
        BY <1>6, <3>4 DEF Row, View
      <4> QED BY <2>3, <3>1, <4>1 DEF Apart
    <3> QED BY <3>2, <3>3, <3>4
  <2>5. \A a, b \in Ports : v[a].peer = v[b].peer /\ v[a].peer # NoPort => a = b
    <3> SUFFICES ASSUME NEW a \in Ports, NEW b \in Ports, v[a].peer = v[b].peer, v[a].peer # NoPort
                 PROVE  a = b
      OBVIOUS
    <3>1. CASE a \in DOMAIN mine[q] /\ b \in DOMAIN mine[q]
      BY <2>2, <2>3, <3>1 DEF Apart
    <3>2. CASE a \notin DOMAIN mine[q] /\ b \notin DOMAIN mine[q]
      BY <2>2, <2>3, <3>2 DEF Apart
    <3>3. CASE (a \in DOMAIN mine[q]) # (b \in DOMAIN mine[q])
      BY <2>4, <3>3
    <3> QED BY <3>1, <3>2, <3>3
  <2>6. \A a \in Ports : v[a].peer # a /\ (v[a].life = "none" => v[a].peer = NoPort)
    BY <2>2, <2>3 DEF Apart
  <2>7. Apart(v)
    BY <2>5, <2>6 DEF Apart
  <2> QED BY <2>1, <2>7
<1> QED BY <1>2, <1>6, <1>7, <1>8, <1>9, <1>10, <1>11 DEF TablesOK

\* A change of the table that names no new port, and that touches no row or pointer of a
\* transaction, keeps the unique index.
LEMMA TableKept ==
    ASSUME TablesOK, port' \in [Ports -> PortRow], switch' \in [Switches -> Life], UNCHANGED mine,
           \A p \in Ports : port'[p].peer \in {port[p].peer, NoPort},
           \A p \in Ports : port'[p].life = "none" => port'[p].peer = NoPort
    PROVE  TablesOK'
<1>1. Apart(port)'
  <2>1. Apart(port')
    BY FewerApart DEF TablesOK
  <2> QED BY <2>1 DEF Apart
<1>2. ASSUME NEW q \in Requests PROVE Apart(View(q))'
  <2>1. PICK v : v = View(q)'
    OBVIOUS
  <2>2. \A o \in Ports : v[o] = IF o \in DOMAIN mine[q] THEN mine[q][o] ELSE port'[o]
    BY <2>1 DEF View, Row
  <2>3. \A o \in Ports : View(q)[o] = IF o \in DOMAIN mine[q] THEN mine[q][o] ELSE port[o]
    BY DEF View, Row
  <2>4. Apart(View(q))
    BY DEF TablesOK
  <2>5. \A o \in Ports : v[o].peer \in {View(q)[o].peer, NoPort}
    BY <2>2, <2>3
  <2>6. \A o \in Ports : v[o].life = "none" => v[o].peer = NoPort
    BY <2>2, <2>3, <2>4 DEF Apart
  <2>7. Apart(v)
    BY <2>4, <2>5, <2>6, FewerApart
  <2> QED BY <2>1, <2>7
<1> QED BY <1>1, <1>2 DEF TablesOK, LinksTypeOK, MineOK

\* The request moves, the others stay as they were.
LEMMA OneLink ==
    ASSUME LinksOK, NEW r \in Requests, Doing(LinkTasks)', TablesOK',
           \A q \in Requests \ {r} : req'[q] = req[q] /\ ~alone'[q] /\ mine'[q] = mine[q],
           LinkShape(r)', alone'[r] => LinkAlone(r)'
    PROVE  LinksOK'
  BY DEF LinksOK, LinkShape

\* It is over.
LEMMA LinkOver ==
    ASSUME LinksOK, NEW r \in Requests, ~At(r, "idle"), Finish(r), TablesOK', mine'[r] = Empty,
           \A q \in Requests \ {r} : mine'[q] = mine[q]
    PROVE  LinksOK'
<1>1. Doing(LinkTasks) /\ Idle \in LinkTasks
  BY DEF LinksOK, LinkTasks
<1>2. /\ Doing(LinkTasks)'
      /\ req'[r] = Idle
      /\ \A q \in Requests : ~alone'[q]
      /\ \A q \in Requests \ {r} : req'[q] = req[q]
  BY <1>1, FinishDoing
<1>3. LinkShape(r)'
  BY <1>2 DEF LinkShape, Idle
<1> QED BY <1>2, <1>3, OneLink

\* A rollback forgets the writes of the transaction.
LEMMA LinkAborts == ASSUME LinksOK, NEW r \in Requests, AbortLink(r) PROVE LinksOK'
<1>1. ~At(r, "idle")
  BY DEF AbortLink, LinkTask, At
<1>2. TablesOK' /\ mine'[r] = Empty /\ \A q \in Requests \ {r} : mine'[q] = mine[q]
  BY RollbackKept DEF AbortLink, LinksOK
<1> QED BY <1>1, <1>2, LinkOver DEF AbortLink

\* A request begins with what the port names.
LEMMA LinkBegins == ASSUME LinksOK, NEW r \in Requests, ArriveLink(r) PROVE LinksOK'
<1>1. PICK s \in Ports : \/ \E t \in Ports : StartLink(r, s, t)
                         \/ \E a \in Assets : StartEndpoint(r, s, a)
                         \/ StartUnlink(r, s)
  BY DEF ArriveLink
<1>2. PICK task \in LinkTask :
         /\ Begin(r, task) /\ UNCHANGED links
         /\ task.seen = PeerOf(s) /\ task.src = s
         /\ task.pc = IF task.op = "link" THEN "readTarget" ELSE "evictReverse"
         /\ IF task.op = "link" THEN task.dst \in Ports \ {task.src} ELSE task.dst = NoPort
  <2>0. PeerOf(s) \in SUBSET Ports
    BY DEF PeerOf, LinksOK, TablesOK, LinksTypeOK, PortRow
  <2>1. ASSUME NEW t \in Ports, StartLink(r, s, t)
        PROVE  \E task \in LinkTask :
                 /\ Begin(r, task) /\ UNCHANGED links
                 /\ task.seen = PeerOf(s) /\ task.src = s
                 /\ task.pc = IF task.op = "link" THEN "readTarget" ELSE "evictReverse"
                 /\ IF task.op = "link" THEN task.dst \in Ports \ {task.src} ELSE task.dst = NoPort
    <3> DEFINE task == [pc |-> "readTarget", op |-> "link", src |-> s, dst |-> t,
                        asset |-> NoAsset, seen |-> PeerOf(s)]
    <3>1. task \in LinkTask /\ task.dst \in Ports \ {task.src}
      BY <2>0, <2>1 DEF LinkTask, StartLink
    <3>2. Begin(r, task) /\ UNCHANGED links
      BY <2>1 DEF StartLink
    <3> QED BY <3>1, <3>2
  <2>2. ASSUME NEW a \in Assets, StartEndpoint(r, s, a)
        PROVE  \E task \in LinkTask :
                 /\ Begin(r, task) /\ UNCHANGED links
                 /\ task.seen = PeerOf(s) /\ task.src = s
                 /\ task.pc = IF task.op = "link" THEN "readTarget" ELSE "evictReverse"
                 /\ IF task.op = "link" THEN task.dst \in Ports \ {task.src} ELSE task.dst = NoPort
    <3> DEFINE task == [pc |-> "evictReverse", op |-> "endpoint", src |-> s, dst |-> NoPort,
                        asset |-> a, seen |-> PeerOf(s)]
    <3>1. task \in LinkTask
      BY <2>0 DEF LinkTask
    <3>2. Begin(r, task) /\ UNCHANGED links
      BY <2>2 DEF StartEndpoint
    <3> QED BY <3>1, <3>2
  <2>3. ASSUME StartUnlink(r, s)
        PROVE  \E task \in LinkTask :
                 /\ Begin(r, task) /\ UNCHANGED links
                 /\ task.seen = PeerOf(s) /\ task.src = s
                 /\ task.pc = IF task.op = "link" THEN "readTarget" ELSE "evictReverse"
                 /\ IF task.op = "link" THEN task.dst \in Ports \ {task.src} ELSE task.dst = NoPort
    <3> DEFINE task == [pc |-> "evictReverse", op |-> "unlink", src |-> s, dst |-> NoPort,
                        asset |-> NoAsset, seen |-> PeerOf(s)]
    <3>1. task \in LinkTask
      BY <2>0 DEF LinkTask
    <3>2. Begin(r, task) /\ UNCHANGED links
      BY <2>3 DEF StartUnlink
    <3> QED BY <3>1, <3>2
  <2> QED BY <1>1, <2>1, <2>2, <2>3
<1>3. Doing(LinkTasks) /\ task \in LinkTasks /\ At(r, "idle")
  BY <1>2 DEF LinksOK, LinkTasks, Begin
<1>4. /\ Doing(LinkTasks)'
      /\ req'[r] = task
      /\ \A q \in Requests \ {r} : req'[q] = req[q] /\ ~alone'[q]
  BY <1>2, <1>3, BeginDoing
<1>5. UNCHANGED <<switch, port, mine>>
  BY <1>2 DEF links
<1>6. TablesOK'
  <2>1. Apart(port)' /\ \A q \in Requests : Apart(View(q))'
    BY <1>5 DEF LinksOK, TablesOK, Apart, View, Row
  <2> QED BY <1>5, <2>1 DEF LinksOK, TablesOK, LinksTypeOK, MineOK
<1>7. mine[r] = Empty
  BY <1>3 DEF LinksOK, LinkShape, At
<1>8. LinkShape(r)'
  BY <1>2, <1>4, <1>5, <1>7 DEF LinkShape
<1>9. LinkAlone(r)'
  <2>1. req'[r].pc \in {"readTarget", "evictReverse"} /\ req'[r].src = s /\ s \in Ports
    BY <1>2, <1>4
  <2>2. req'[r].seen \subseteq {port'[s].peer}
    BY <1>2, <1>4, <1>5 DEF PeerOf
  <2>3. s \in Ends(r)'
    BY <2>1, PortsAssumption DEF Ends
  <2> QED BY <2>1, <2>2, <2>3 DEF LinkAlone, At
<1> QED BY <1>4, <1>5, <1>6, <1>8, <1>9, OneLink

\* Reading the target remembers the ports to evict.
LEMMA ReadTargetKept == ASSUME LinksOK, NEW r \in Requests, ReadTarget(r) PROVE LinksOK'
<1> DEFINE t == req[r].dst
           task == [req[r] EXCEPT !.pc = "evictReverse", !.seen = (@ \cup PeerOf(t)) \ {req[r].src, t}]
<1>1. /\ At(r, "readTarget") /\ Continue(r, task) /\ UNCHANGED <<switch, port, mine>>
  BY DEF ReadTarget, links
<1>2. req[r] \in LinkTask /\ req[r].op = "link" /\ t \in Ports \ {req[r].src} /\ mine[r] = Empty
  BY <1>1 DEF LinksOK, LinkShape, Doing, LinkTasks, Idle, At
<1>3. PeerOf(t) \in SUBSET Ports
  BY <1>2 DEF PeerOf, LinksOK, TablesOK, LinksTypeOK, PortRow
<1>4. /\ task \in LinkTask /\ task.pc = "evictReverse" /\ task.op = "link" /\ task.src = req[r].src
      /\ task.dst = t /\ task.seen = (req[r].seen \cup PeerOf(t)) \ {req[r].src, t}
  BY <1>2, <1>3 DEF LinkTask
<1> HIDE DEF task
<1>5. Doing(LinkTasks) /\ task \in LinkTasks /\ ~At(r, "idle")
  BY <1>1, <1>4 DEF LinksOK, LinkTasks, At
<1>6. /\ Doing(LinkTasks)'
      /\ req'[r] = task
      /\ \A q \in Requests \ {r} : req'[q] = req[q] /\ ~alone'[q]
      /\ alone' = alone
  BY <1>1, <1>5, ContinueDoing
<1>7. TablesOK'
  <2>1. Apart(port)' /\ \A q \in Requests : Apart(View(q))'
    BY <1>1 DEF LinksOK, TablesOK, Apart, View, Row
  <2> QED BY <1>1, <2>1 DEF LinksOK, TablesOK, LinksTypeOK, MineOK
<1>8. LinkShape(r)'
  BY <1>1, <1>2, <1>4, <1>6 DEF LinkShape
<1>9. ASSUME alone'[r] PROVE LinkAlone(r)'
  <2>1. LinkAlone(r)
    BY <1>6, <1>9 DEF LinksOK
  <2>2. Ends(r)' = {req[r].src, t}
    BY <1>2, <1>4, <1>6, PortsAssumption DEF Ends, LinkTask
  <2>3. task.seen \subseteq {port[e].peer : e \in {req[r].src, t}}
    BY <1>1, <1>4, <2>1 DEF LinkAlone, PeerOf
  <2> QED BY <1>1, <1>4, <1>6, <2>2, <2>3 DEF LinkAlone, At
<1> QED BY <1>1, <1>6, <1>7, <1>8, <1>9, OneLink

\* After the reverse eviction no other port names the two ends.
LEMMA EvictReverseKept == ASSUME LinksOK, NEW r \in Requests, EvictReverse(r) PROVE LinksOK'
<1> DEFINE task == [req[r] EXCEPT !.pc = "evictForward"]
<1>0. PICK S, row : S = Pointing(r) /\ row = Unlinked(r)
  OBVIOUS
<1>1. At(r, "evictReverse") /\ Continue(r, task) /\ UNCHANGED <<switch, port>> /\ Write(r, S, row)
  BY <1>0 DEF EvictReverse, Goto
<1>2. req[r] \in LinkTask /\ mine[r] = Empty
  BY <1>1 DEF LinksOK, LinkShape, Doing, LinkTasks, Idle, At
<1>3. /\ task \in LinkTask /\ task.pc = "evictForward" /\ task.op = req[r].op
      /\ task.src = req[r].src /\ task.dst = req[r].dst /\ task.seen = req[r].seen
  BY <1>2 DEF LinkTask
<1> HIDE DEF task
<1>4. Doing(LinkTasks) /\ task \in LinkTasks /\ ~At(r, "idle") /\ TablesOK
  BY <1>1, <1>3 DEF LinksOK, LinkTasks, At
<1>5. /\ Doing(LinkTasks)'
      /\ req'[r] = task
      /\ \A q \in Requests \ {r} : req'[q] = req[q] /\ ~alone'[q]
      /\ alone' = alone
  BY <1>1, <1>4, ContinueDoing
<1>6. S \in SUBSET Ports /\ \A p \in S : Row(r, p).life = "up" /\ Row(r, p) \in PortRow
  BY <1>0, <1>4, SeenRows DEF Pointing, Up
<1>7. \A p \in Ports : row[p] = [Row(r, p) EXCEPT !.peer = NoPort]
  BY <1>0 DEF Unlinked
<1>8. \A p \in Ports : row[p] \in PortRow /\ row[p].peer = NoPort /\ row[p].life = Row(r, p).life
  <2> SUFFICES ASSUME NEW p \in Ports
               PROVE  row[p] \in PortRow /\ row[p].peer = NoPort /\ row[p].life = Row(r, p).life
    OBVIOUS
  <2>1. PICK x \in PortRow : x = Row(r, p)
    BY <1>4, SeenRows
  <2>2. row[p] = [x EXCEPT !.peer = NoPort]
    BY <1>7, <2>1
  <2> QED BY <2>1, <2>2 DEF PortRow
<1>9. Writable(r, S, row)
  BY <1>6, <1>8 DEF Writable
<1>10. /\ \A q \in Requests \ {r} : mine'[q] = mine[q]
       /\ \A p \in Ports : (Row(r, p))' = IF p \in S THEN row[p] ELSE Row(r, p)
  <2>1. Wrote(r, S, row)
    BY <1>1, <1>4, <1>6, <1>9, WriteSeen
  <2> QED BY <2>1 DEF Wrote
<1>11. TablesOK'
  BY <1>1, <1>4, <1>6, <1>9, WriteKept
<1>12. LinkShape(r)'
  BY <1>1, <1>3, <1>5 DEF LinkShape, LinksOK, At
<1>13. ASSUME alone'[r] PROVE LinkAlone(r)'
  <2>1. LinkAlone(r)
    BY <1>5, <1>13 DEF LinksOK
  <2>2. Ends(r)' = Ends(r)
    BY <1>3, <1>5 DEF Ends
  <2>3. \A o \in Ports : Row(r, o) = port[o]
    BY <1>2 DEF Row, Empty
  <2>4. \A o \in Ports \ Ends(r) : o \notin S => Row(r, o).peer \notin Ends(r)
    <3>1. NoPort \notin Ends(r)
      BY DEF Ends
    <3>2. \A o \in Ports \ Up(r) : Row(r, o).peer = NoPort
      BY <1>4, SeenRows
    <3> QED BY <1>0, <3>1, <3>2 DEF Pointing
  <2>5. \A o \in S : port[o].peer \in Ends(r)
    BY <1>0, <1>6, <2>3 DEF Pointing
  <2>6. NoPort \notin Ends(r)
    BY DEF Ends
  <2>7. ASSUME NEW o \in Ports \ Ends(r) PROVE (Row(r, o).peer \notin Ends(r))' /\ LetGo(r, o)'
    BY <1>1, <1>8, <1>10, <2>2, <2>3, <2>4, <2>5, <2>6 DEF LetGo
  <2>8. req'[r].pc = "evictForward" /\ req'[r].seen \subseteq {port'[e].peer : e \in Ends(r)'}
    BY <1>1, <1>3, <1>5, <2>1, <2>2 DEF LinkAlone, At
  <2> QED BY <2>2, <2>7, <2>8 DEF LinkAlone, At
<1> QED BY <1>5, <1>10, <1>11, <1>12, <1>13, OneLink

\* After the forward eviction the former peers name nobody.
LEMMA EvictForwardKept == ASSUME LinksOK, NEW r \in Requests, EvictForward(r) PROVE LinksOK'
<1> DEFINE next == IF req[r].op = "link" THEN "linkSource"
                   ELSE IF req[r].asset # NoAsset THEN "evictAsset" ELSE "last"
           task == [req[r] EXCEPT !.pc = next, !.seen = {}]
<1>0. PICK S, row : S = req[r].seen \cap Up(r) /\ row = Unlinked(r)
  OBVIOUS
<1>1. At(r, "evictForward") /\ Continue(r, task) /\ UNCHANGED <<switch, port>> /\ Write(r, S, row)
  BY <1>0 DEF EvictForward
<1>2. req[r] \in LinkTask
  BY <1>1 DEF LinksOK, Doing, LinkTasks, Idle, At
<1>3. /\ task \in LinkTask /\ task.pc = next /\ task.op = req[r].op
      /\ task.src = req[r].src /\ task.dst = req[r].dst
  BY <1>2 DEF LinkTask
<1> HIDE DEF task
<1>4. Doing(LinkTasks) /\ task \in LinkTasks /\ ~At(r, "idle") /\ TablesOK
  BY <1>1, <1>3 DEF LinksOK, LinkTasks, At
<1>5. /\ Doing(LinkTasks)'
      /\ req'[r] = task
      /\ \A q \in Requests \ {r} : req'[q] = req[q] /\ ~alone'[q]
      /\ alone' = alone
  BY <1>1, <1>4, ContinueDoing
<1>6. S \in SUBSET Ports /\ \A p \in S : Row(r, p).life = "up" /\ Row(r, p) \in PortRow
  BY <1>0, <1>4, SeenRows DEF Up
<1>7. \A p \in Ports : row[p] \in PortRow /\ row[p].peer = NoPort /\ row[p].life = Row(r, p).life
  <2> SUFFICES ASSUME NEW p \in Ports
               PROVE  row[p] \in PortRow /\ row[p].peer = NoPort /\ row[p].life = Row(r, p).life
    OBVIOUS
  <2>1. PICK x \in PortRow : x = Row(r, p)
    BY <1>4, SeenRows
  <2>2. row[p] = [x EXCEPT !.peer = NoPort]
    BY <1>0, <2>1 DEF Unlinked
  <2> QED BY <2>1, <2>2 DEF PortRow
<1>8. Writable(r, S, row)
  BY <1>6, <1>7 DEF Writable
<1>9. /\ \A q \in Requests \ {r} : mine'[q] = mine[q]
      /\ \A p \in Ports : (Row(r, p))' = IF p \in S THEN row[p] ELSE Row(r, p)
  <2>1. Wrote(r, S, row)
    BY <1>1, <1>4, <1>6, <1>8, WriteSeen
  <2> QED BY <2>1 DEF Wrote
<1>10. TablesOK'
  BY <1>1, <1>4, <1>6, <1>8, WriteKept
<1>11. next \in {"linkSource", "evictAsset", "last"} /\ (next = "linkSource" <=> req[r].op = "link")
  OBVIOUS
<1> HIDE DEF next
<1>12. LinkShape(r)'
  BY <1>1, <1>3, <1>5, <1>11 DEF LinkShape, LinksOK, At
<1>13. ASSUME alone'[r] PROVE LinkAlone(r)'
  <2>1. LinkAlone(r)
    BY <1>5, <1>13 DEF LinksOK
  <2>2. Ends(r)' = Ends(r)
    BY <1>3, <1>5 DEF Ends
  <2>3. \A o \in Ports \ Ends(r) : Row(r, o).peer \notin Ends(r) /\ LetGo(r, o)
    BY <1>1, <2>1 DEF LinkAlone, At
  <2>4. NoPort \notin Ends(r)
    BY DEF Ends
  <2>5. \A o \in S : \E e \in Ends(r) : port[e].peer = o
    BY <1>0, <1>1, <2>1 DEF LinkAlone, At
  <2>6. ASSUME NEW o \in Ports \ Ends(r) PROVE (Row(r, o).peer \notin Ends(r))' /\ LetGo(r, o)'
    <3>1. CASE o \in S
      BY <1>1, <1>7, <1>9, <2>2, <2>4, <2>5, <3>1 DEF LetGo
    <3>2. CASE o \notin S
      BY <1>1, <1>9, <2>2, <2>3, <3>2 DEF LetGo
    <3> QED BY <3>1, <3>2
  <2> QED BY <1>3, <1>5, <1>11, <2>2, <2>6 DEF LinkAlone, At
<1> QED BY <1>5, <1>9, <1>10, <1>12, <1>13, OneLink

\* The port that leaves the asset keeps its cable.
LEMMA EvictAssetKept == ASSUME LinksOK, NEW r \in Requests, EvictAsset(r) PROVE LinksOK'
<1> DEFINE task == [req[r] EXCEPT !.pc = "last"]
           held == {p \in Up(r) \ {req[r].src} : Row(r, p).asset = req[r].asset}
<1>0. PICK S, row : S = held /\ row = [p \in held |-> [Row(r, p) EXCEPT !.asset = NoAsset]]
  OBVIOUS
<1>1. At(r, "evictAsset") /\ Continue(r, task) /\ UNCHANGED <<switch, port>> /\ Write(r, S, row)
  BY <1>0 DEF EvictAsset, Goto
<1>2. req[r] \in LinkTask
  BY <1>1 DEF LinksOK, Doing, LinkTasks, Idle, At
<1>3. /\ task \in LinkTask /\ task.pc = "last" /\ task.op = req[r].op
      /\ task.src = req[r].src /\ task.dst = req[r].dst
  BY <1>2 DEF LinkTask
<1> HIDE DEF task
<1>4. Doing(LinkTasks) /\ task \in LinkTasks /\ ~At(r, "idle") /\ TablesOK
  BY <1>1, <1>3 DEF LinksOK, LinkTasks, At
<1>5. /\ Doing(LinkTasks)'
      /\ req'[r] = task
      /\ \A q \in Requests \ {r} : req'[q] = req[q] /\ ~alone'[q]
      /\ alone' = alone
  BY <1>1, <1>4, ContinueDoing
<1>6. S \in SUBSET Ports /\ \A p \in S : Row(r, p).life = "up" /\ Row(r, p) \in PortRow
  BY <1>0, <1>4, SeenRows DEF Up
<1>7. \A p \in S : row[p] \in PortRow /\ row[p].peer = Row(r, p).peer /\ row[p].life = "up"
  <2> SUFFICES ASSUME NEW p \in S
               PROVE  row[p] \in PortRow /\ row[p].peer = Row(r, p).peer /\ row[p].life = "up"
    OBVIOUS
  <2>1. PICK x \in PortRow : x = Row(r, p)
    BY <1>6
  <2>2. row[p] = [x EXCEPT !.asset = NoAsset]
    BY <1>0, <2>1
  <2> QED BY <1>6, <2>1, <2>2 DEF PortRow
<1>8. Writable(r, S, row)
  BY <1>6, <1>7 DEF Writable
<1>9. /\ \A q \in Requests \ {r} : mine'[q] = mine[q]
      /\ \A p \in Ports : (Row(r, p))' = IF p \in S THEN row[p] ELSE Row(r, p)
  <2>1. Wrote(r, S, row)
    BY <1>1, <1>4, <1>6, <1>8, WriteSeen
  <2> QED BY <2>1 DEF Wrote
<1>10. TablesOK'
  BY <1>1, <1>4, <1>6, <1>8, WriteKept
<1>11. LinkShape(r)'
  BY <1>1, <1>3, <1>5 DEF LinkShape, LinksOK, At
<1>12. ASSUME alone'[r] PROVE LinkAlone(r)'
  <2>1. LinkAlone(r)
    BY <1>5, <1>12 DEF LinksOK
  <2>2. Ends(r)' = Ends(r)
    BY <1>3, <1>5 DEF Ends
  <2>3. \A o \in Ports \ Ends(r) : Row(r, o).peer \notin Ends(r) /\ LetGo(r, o)
    BY <1>1, <2>1 DEF LinkAlone, At
  <2>4. \A o \in Ports : (Row(r, o).peer)' = Row(r, o).peer
    BY <1>7, <1>9
  <2>5. ASSUME NEW o \in Ports \ Ends(r) PROVE (Row(r, o).peer \notin Ends(r))' /\ LetGo(r, o)'
    BY <1>1, <2>2, <2>3, <2>4 DEF LetGo
  <2> QED BY <1>3, <1>5, <2>2, <2>5 DEF LinkAlone, At
<1> QED BY <1>5, <1>9, <1>10, <1>11, <1>12, OneLink

\* The source names the target, whose own row is the next statement's.
LEMMA LinkSourceKept == ASSUME LinksOK, NEW r \in Requests, LinkSource(r) PROVE LinksOK'
<1> DEFINE task == [req[r] EXCEPT !.pc = "linkTarget"]
           s == req[r].src
           t == req[r].dst
<1>0. PICK S, row, x : S = {s} /\ row = [p \in {s} |-> Linked(t)] /\ x = s
  OBVIOUS
<1>1. /\ At(r, "linkSource") /\ Continue(r, task) /\ UNCHANGED <<switch, port>>
      /\ Write(r, S, row) /\ IndexAllows(r, s, t)
  BY <1>0 DEF LinkSource, Goto
<1>2. req[r] \in LinkTask /\ req[r].op = "link" /\ s \in Ports /\ t \in Ports \ {s}
  BY <1>1 DEF LinksOK, LinkShape, Doing, LinkTasks, LinkTask, Idle, At
<1>3. /\ task \in LinkTask /\ task.pc = "linkTarget" /\ task.op = req[r].op
      /\ task.src = s /\ task.dst = t
  BY <1>2 DEF LinkTask
<1> HIDE DEF task
<1>4. Doing(LinkTasks) /\ task \in LinkTasks /\ ~At(r, "idle") /\ TablesOK
  BY <1>1, <1>3 DEF LinksOK, LinkTasks, At
<1>5. /\ Doing(LinkTasks)'
      /\ req'[r] = task
      /\ \A q \in Requests \ {r} : req'[q] = req[q] /\ ~alone'[q]
      /\ alone' = alone
  BY <1>1, <1>4, ContinueDoing
<1>6. S \in SUBSET Ports
  BY <1>0, <1>2
<1>7. row[s] = Linked(t) /\ Linked(t) \in PortRow /\ Linked(t).life = "up" /\ Linked(t).peer = t
  BY <1>0, <1>2 DEF Linked, PortRow, Life
<1>8. Writable(r, S, row)
  BY <1>0, <1>1, <1>2, <1>7 DEF Writable
<1>9. /\ \A q \in Requests \ {r} : mine'[q] = mine[q]
      /\ \A p \in Ports : (Row(r, p))' = IF p \in S THEN row[p] ELSE Row(r, p)
  <2>1. Wrote(r, S, row)
    BY <1>1, <1>4, <1>6, <1>8, WriteSeen
  <2> QED BY <2>1 DEF Wrote
<1>10. TablesOK'
  BY <1>1, <1>4, <1>6, <1>8, WriteKept
<1>11. LinkShape(r)'
  BY <1>1, <1>2, <1>3, <1>5 DEF LinkShape
<1>12. ASSUME alone'[r] PROVE LinkAlone(r)'
  <2>1. LinkAlone(r)
    BY <1>5, <1>12 DEF LinksOK
  <2>2. Ends(r)' = Ends(r) /\ s \in Ends(r)
    BY <1>2, <1>3, <1>5, PortsAssumption DEF Ends
  <2>3. \A o \in Ports \ Ends(r) : Row(r, o).peer \notin Ends(r) /\ LetGo(r, o)
    BY <1>1, <2>1 DEF LinkAlone, At
  <2>4. ASSUME NEW o \in Ports \ Ends(r) PROVE (Row(r, o).peer \notin Ends(r))' /\ LetGo(r, o)'
    BY <1>0, <1>1, <1>9, <2>2, <2>3 DEF LetGo
  <2>5. (Row(r, x))' = Linked(t)
    BY <1>0, <1>2, <1>7, <1>9
  <2>6. req'[r].src = x /\ req'[r].dst = t /\ req'[r].pc = "linkTarget"
    BY <1>0, <1>3, <1>5
  <2> QED BY <1>7, <2>2, <2>4, <2>5, <2>6 DEF LinkAlone, At, Row
<1> QED BY <1>5, <1>9, <1>10, <1>11, <1>12, OneLink

\* The commit of a link, and of the others.
LEMMA LinkTargetKept ==
    ASSUME LinksOK, NEW r \in Requests, LinkTarget(r)
    PROVE  /\ LinksOK'
           /\ req[r].src \in Ports /\ req[r].dst \in Ports \ {req[r].src}
           /\ port'[req[r].dst] = Linked(req[r].src)
           /\ \A o \in Ports \ {req[r].dst} : port'[o] = Row(r, o)
<1> DEFINE s == req[r].src
           t == req[r].dst
<1>1. At(r, "linkTarget") /\ IndexAllows(r, t, s) /\ Commit(r, t, Linked(s))
  BY DEF LinkTarget
<1>2. s \in Ports /\ t \in Ports \ {s}
  BY <1>1 DEF LinksOK, LinkShape, Doing, LinkTasks, LinkTask, Idle, At
<1>3. Linked(s) \in PortRow /\ Linked(s).life = "up" /\ Linked(s).peer = s
  BY <1>2 DEF Linked, PortRow, Life
<1>4. PICK a, b, row : a = s /\ b = t /\ row = Linked(s)
  OBVIOUS
<1>5. /\ TablesOK'
      /\ mine'[r] = Empty
      /\ \A q \in Requests \ {r} : mine'[q] = mine[q]
      /\ port'[b] = row
      /\ \A o \in Ports \ {b} : port'[o] = Row(r, o)
  BY <1>1, <1>2, <1>3, <1>4, CommitKept DEF LinksOK
<1>6. LinksOK'
  BY <1>1, <1>5, LinkOver DEF Commit, At
<1> QED BY <1>2, <1>4, <1>5, <1>6

\* Connecting a port to an asset leaves it with no peer.
LEMMA ConnectEndpointKept ==
    ASSUME LinksOK, NEW r \in Requests, ConnectEndpoint(r)
    PROVE  /\ LinksOK'
           /\ req[r].src \in Ports /\ req[r].dst = NoPort
           /\ port'[req[r].src].peer = NoPort
           /\ \A o \in Ports \ {req[r].src} : port'[o] = Row(r, o)
<1> DEFINE s == req[r].src
<1>1. At(r, "last") /\ Commit(r, s, NewRow(req[r].asset))
  BY DEF ConnectEndpoint
<1>2. s \in Ports /\ req[r].dst = NoPort /\ req[r].asset \in Assets \cup {NoAsset}
  BY <1>1 DEF LinksOK, LinkShape, Doing, LinkTasks, LinkTask, Idle, At
<1>3. PICK a, row : a = s /\ row = NewRow(req[r].asset)
  OBVIOUS
<1>4. row \in PortRow /\ row.life = "up" /\ row.peer = NoPort
  BY <1>2, <1>3 DEF NewRow, PortRow, Life
<1>5. /\ TablesOK'
      /\ mine'[r] = Empty
      /\ \A q \in Requests \ {r} : mine'[q] = mine[q]
      /\ port'[a] = row
      /\ \A o \in Ports \ {a} : port'[o] = Row(r, o)
  BY <1>1, <1>2, <1>3, <1>4, CommitKept, PortsAssumption DEF LinksOK
<1>6. LinksOK'
  BY <1>1, <1>5, LinkOver DEF Commit, At
<1> QED BY <1>2, <1>3, <1>4, <1>5, <1>6

\* A request that is one statement changes the table, and leaves no handler alone.
LEMMA InstantLink ==
    ASSUME LinksOK, Instant, UNCHANGED mine,
           port' \in [Ports -> PortRow], switch' \in [Switches -> Life],
           \A p \in Ports : port'[p].peer \in {port[p].peer, NoPort},
           \A p \in Ports : port'[p].life = "none" => port'[p].peer = NoPort
    PROVE  LinksOK'
<1>1. TablesOK'
  BY TableKept DEF LinksOK
<1>2. Doing(LinkTasks)' /\ \A q \in Requests : ~alone'[q]
  BY InstantDoing DEF LinksOK
<1>3. \A q \in Requests : LinkShape(q)'
  BY DEF LinksOK, LinkShape, Instant
<1> QED BY <1>1, <1>2, <1>3 DEF LinksOK

\* Editing a port moves no cable.
LEMMA UpdatePortKept ==
    ASSUME LinksOK, NEW p \in Ports, NEW a \in Assets \cup {NoAsset}, UpdatePort(p, a)
    PROVE  LinksOK'
<1>1. port \in [Ports -> PortRow] /\ port[p].life = "up" /\ Apart(port)
  BY DEF UpdatePort, LinksOK, TablesOK, LinksTypeOK
<1>2. port' = [port EXCEPT ![p] = [port[p] EXCEPT !.asset = a]]
  BY DEF UpdatePort
<1>3. PICK x \in PortRow : x = port[p]
  BY <1>1
<1>4. [x EXCEPT !.asset = a] \in PortRow /\ [x EXCEPT !.asset = a].peer = x.peer
      /\ [x EXCEPT !.asset = a].life = x.life
  BY DEF PortRow
<1>5. port'[p] = [x EXCEPT !.asset = a] /\ \A o \in Ports \ {p} : port'[o] = port[o]
  BY <1>1, <1>2, <1>3
<1>6. port' \in [Ports -> PortRow]
  BY <1>1, <1>2, <1>3, <1>4
<1>7. \A o \in Ports : port'[o].peer = port[o].peer /\ port'[o].life = port[o].life
  BY <1>3, <1>4, <1>5
<1>8. switch' \in [Switches -> Life]
  BY DEF UpdatePort, LinksOK, TablesOK, LinksTypeOK
<1> QED BY <1>1, <1>6, <1>7, <1>8, InstantLink DEF UpdatePort, Apart

\* A new port has no cable.
LEMMA CreatePortKept ==
    ASSUME LinksOK, NEW p \in Ports, NEW a \in Assets \cup {NoAsset}, CreatePort(p, a)
    PROVE  LinksOK'
<1>1. port \in [Ports -> PortRow] /\ port[p].life = "none" /\ Apart(port)
  BY DEF CreatePort, Fresh, LinksOK, TablesOK, LinksTypeOK
<1>2. NewRow(a) \in PortRow /\ NewRow(a).peer = NoPort /\ NewRow(a).life = "up"
  BY DEF NewRow, PortRow, Life
<1>3. port' \in [Ports -> PortRow] /\ port'[p] = NewRow(a) /\ \A o \in Ports \ {p} : port'[o] = port[o]
  BY <1>1, <1>2 DEF CreatePort
<1>4. switch' \in [Switches -> Life]
  BY DEF CreatePort, LinksOK, TablesOK, LinksTypeOK
<1>5. \A o \in Ports : port'[o].peer \in {port[o].peer, NoPort}
  BY <1>2, <1>3
<1>6. \A o \in Ports : port'[o].life = "none" => port'[o].peer = NoPort
  BY <1>1, <1>2, <1>3 DEF Apart
<1> QED BY <1>3, <1>4, <1>5, <1>6, InstantLink DEF CreatePort

\* Ports that go take the pointers at them with them.
LEMMA DeletedRows ==
    ASSUME LinksOK, NEW S \in SUBSET Ports, DeletePorts(S)
    PROVE  /\ port' \in [Ports -> PortRow]
           /\ \A p \in Ports : port'[p].peer \in {port[p].peer, NoPort}
           /\ \A p \in Ports : port'[p].life = "none" => port'[p].peer = NoPort
<1>1. port \in [Ports -> PortRow] /\ Apart(port)
  BY DEF LinksOK, TablesOK, LinksTypeOK
<1>2. port' = [p \in Ports |-> port'[p]]
  BY DEF DeletePorts, Deleted
<1>3. ASSUME NEW p \in Ports
      PROVE  /\ port'[p] \in PortRow
             /\ port'[p].peer \in {port[p].peer, NoPort}
             /\ port'[p].life = "none" => port'[p].peer = NoPort
  <2>1. PICK x \in PortRow : x = port[p]
    BY <1>1
  <2>2. port'[p] = IF p \in S THEN NoRow ELSE IF x.peer \in S THEN [x EXCEPT !.peer = NoPort] ELSE x
    BY <2>1 DEF DeletePorts, Deleted
  <2>3. NoRow \in PortRow /\ NoRow.peer = NoPort
    BY DEF NoRow, PortRow, Life
  <2>4. [x EXCEPT !.peer = NoPort] \in PortRow /\ [x EXCEPT !.peer = NoPort].peer = NoPort
    BY DEF PortRow
  <2> QED BY <1>1, <2>1, <2>2, <2>3, <2>4 DEF Apart
<1> QED BY <1>2, <1>3

\* The statements about switches make no port name another; one that is gone names none.
LEMMA SwitchKept ==
    ASSUME LinksOK, NEW w \in Switches,
           \/ CreateSwitch(w) \/ GeneratePorts(w) \/ ClearSwitch(w) \/ DeleteSwitch(w)
    PROVE  LinksOK'
<1>1. port \in [Ports -> PortRow] /\ Apart(port) /\ switch \in [Switches -> Life]
  BY DEF LinksOK, TablesOK, LinksTypeOK
<1>2. CASE CreateSwitch(w)
  <2>1. switch' \in [Switches -> Life] /\ port' = port
    BY <1>1, <1>2 DEF CreateSwitch, Life
  <2> QED BY <1>1, <1>2, <2>1, InstantLink DEF CreateSwitch, Apart
<1>3. CASE GeneratePorts(w)
  <2>1. NewRow(NoAsset) \in PortRow /\ NewRow(NoAsset).peer = NoPort /\ NewRow(NoAsset).life = "up"
    BY DEF NewRow, PortRow, Life
  <2>2. \A p \in Ports : port'[p] = IF SwitchOf[p] = w THEN NewRow(NoAsset) ELSE port[p]
    BY <1>3 DEF GeneratePorts
  <2>3. port' \in [Ports -> PortRow]
    BY <1>1, <1>3, <2>1 DEF GeneratePorts
  <2>4. \A p \in Ports : port'[p].peer \in {port[p].peer, NoPort}
    BY <2>1, <2>2
  <2>5. \A p \in Ports : port'[p].life = "none" => port'[p].peer = NoPort
    BY <1>1, <2>1, <2>2 DEF Apart
  <2>6. switch' \in [Switches -> Life] /\ Instant /\ UNCHANGED mine
    BY <1>1, <1>3 DEF GeneratePorts
  <2> QED BY <2>3, <2>4, <2>5, <2>6, InstantLink
<1>4. CASE ClearSwitch(w)
  <2>1. PICK S \in SUBSET Ports : DeletePorts(S)
    BY <1>4 DEF ClearSwitch
  <2>2. switch' \in [Switches -> Life] /\ Instant /\ UNCHANGED mine
    BY <1>1, <1>4 DEF ClearSwitch
  <2> QED BY <2>1, <2>2, DeletedRows, InstantLink
<1>5. CASE DeleteSwitch(w)
  <2>1. PICK S \in SUBSET Ports : DeletePorts(S)
    BY <1>5 DEF DeleteSwitch
  <2>2. switch' \in [Switches -> Life] /\ Instant /\ UNCHANGED mine
    BY <1>1, <1>5 DEF DeleteSwitch, Life
  <2> QED BY <2>1, <2>2, DeletedRows, InstantLink
<1> QED BY <1>2, <1>3, <1>4, <1>5

\* Deleting a port interrupts every request that was alone.
LEMMA DeletePortKept == ASSUME LinksOK, NEW p \in Ports, DeletePort(p) PROVE LinksOK'
<1>1. switch' \in [Switches -> Life] /\ Instant /\ UNCHANGED mine /\ DeletePorts({p})
  BY DEF DeletePort, LinksOK, TablesOK, LinksTypeOK
<1> QED BY <1>1, DeletedRows, InstantLink

\* Every step of the cables keeps the invariant.
LEMMA LinksStep == LinksOK /\ LinksNext => LinksOK'
<1> SUFFICES ASSUME LinksOK, LinksNext PROVE LinksOK'
  OBVIOUS
<1>1. ASSUME NEW r \in Requests, LinkStatement(r) PROVE LinksOK'
  BY <1>1, ReadTargetKept, EvictReverseKept, EvictForwardKept, EvictAssetKept, LinkSourceKept,
     LinkTargetKept, ConnectEndpointKept DEF LinkStatement
<1> QED BY <1>1, LinkBegins, LinkAborts, UpdatePortKept, CreatePortKept, DeletePortKept, SwitchKept
        DEF LinksNext

\* Alone, a request that links is refused by no index.
LEMMA LinksNotRefused == LinksOK => AloneNeverRefused
<1> SUFFICES ASSUME LinksOK, NEW r \in Requests, alone[r]
             PROVE  /\ At(r, "linkSource") => IndexAllows(r, req[r].src, req[r].dst)
                    /\ At(r, "linkTarget") => IndexAllows(r, req[r].dst, req[r].src)
  BY DEF AloneNeverRefused
<1>1. LinkAlone(r) /\ LinkShape(r) /\ Apart(View(r)) /\ Up(r) \subseteq Ports
  BY DEF LinksOK, TablesOK, Up
<1>2. \A q \in Requests \ {r} : mine[q] = Empty /\ DOMAIN mine[q] = {}
  BY DEF LinksOK, Doing, LinkShape, At, Empty
<1>3. \A p \in Ports : View(r)[p] = Row(r, p)
  BY DEF View
<1>4. CASE At(r, "linkSource")
  <2>1. req[r].dst \in Ports \ {req[r].src} /\ Ends(r) = {req[r].src, req[r].dst}
    BY <1>1, <1>4, PortsAssumption DEF LinkShape, Ends, LinksOK, Doing, LinkTasks, LinkTask, Idle, At
  <2>2. \A o \in Up(r) \ {req[r].src} : Row(r, o).peer # req[r].dst
    BY <1>1, <1>3, <1>4, <2>1 DEF LinkAlone, At, Apart
  <2> QED BY <1>2, <1>4, <2>2 DEF IndexAllows, At
<1>5. CASE At(r, "linkTarget")
  <2>1. req[r].dst \in Ports \ {req[r].src} /\ Ends(r) = {req[r].src, req[r].dst}
    BY <1>1, <1>5, PortsAssumption DEF LinkShape, Ends, LinksOK, Doing, LinkTasks, LinkTask, Idle, At
  <2>2. \A o \in Up(r) \ {req[r].dst} : Row(r, o).peer # req[r].src
    BY <1>1, <1>3, <1>5, <2>1 DEF LinkAlone, At
  <2> QED BY <1>2, <1>5, <2>2 DEF IndexAllows, At
<1> QED BY <1>4, <1>5

\* Alone, a request leaves no half cable that was not there.
LEMMA LinksBothEnds ==
    ASSUME LinksOK, NEW r \in Requests, alone[r], LinkTarget(r) \/ ConnectEndpoint(r)
    PROVE  Dangling' \subseteq Dangling
<1>1. /\ TablesOK /\ LinkAlone(r) /\ LinkShape(r)
      /\ port \in [Ports -> PortRow] /\ Apart(port)
  BY DEF LinksOK, TablesOK, LinksTypeOK
<1>2. req[r].pc \in {"linkTarget", "last"}
  BY DEF LinkTarget, ConnectEndpoint, At
<1>3. \A o \in Ports \ Ends(r) : Row(r, o).peer \notin Ends(r) /\ LetGo(r, o)
  BY <1>1, <1>2 DEF LinkAlone
<1>4. \A p \in Ports \ Ends(r) : port'[p] = Row(r, p)
  BY LinkTargetKept, ConnectEndpointKept, PortsAssumption DEF Ends
<1>5. \A e \in Ends(r) : e \in Ports /\ (port'[e].peer # NoPort => port'[port'[e].peer].peer = e)
  <2>1. CASE LinkTarget(r)
    <3>1. /\ req[r].src \in Ports /\ req[r].dst \in Ports \ {req[r].src}
          /\ port'[req[r].dst] = Linked(req[r].src)
          /\ port'[req[r].src] = Row(r, req[r].src)
      BY <2>1, LinkTargetKept
    <3>2. Row(r, req[r].src).peer = req[r].dst
      BY <1>1, <2>1 DEF LinkAlone, LinkTarget
    <3> QED BY <3>1, <3>2 DEF Ends, Linked
  <2>2. CASE ConnectEndpoint(r)
    BY <2>2, ConnectEndpointKept DEF Ends
  <2> QED BY <2>1, <2>2
<1>6. ASSUME NEW p \in Ports \ Ends(r), port'[p].peer # NoPort, port[port[p].peer].peer = p
      PROVE  port'[port'[p].peer].peer = p
  <2> DEFINE q == port[p].peer
  <2>1. port'[p].peer = q /\ q \notin Ends(r) /\ q # NoPort
    BY <1>3, <1>4, <1>6 DEF LetGo
  <2>2. q \in Ports \ Ends(r) /\ port'[q] = Row(r, q)
    BY <1>1, <1>4, <2>1 DEF PortRow
  <2>3. Row(r, q).peer = port[q].peer
    <3>1. port[q].peer \notin Ends(r)
      BY <1>6
    <3>2. ASSUME NEW e \in Ends(r) PROVE port[e].peer # q
      BY <1>1, <1>5, <2>1 DEF Apart
    <3> QED BY <1>3, <2>2, <3>1, <3>2 DEF LetGo
  <2> QED BY <1>6, <2>1, <2>2, <2>3
<1>7. ASSUME NEW p \in Ports \ Ends(r), port'[p].peer # NoPort PROVE port[p].peer # NoPort
  BY <1>3, <1>4, <1>7 DEF LetGo
<1> QED BY <1>5, <1>6, <1>7 DEF Dangling
-----------------------------------------------------------------------------
(* Mounts.                                                                 *)

CreateTask == [pc : {"validate", "writeMount"}, op : {"create"}, dev : Devices,
               wish : Place, at : Place]
UpdateTask == [pc : {"readSwitch", "validate", "writeMount"}, op : {"update"}, dev : Devices,
               wish : Wish, at : Place]
RackTask == [pc : {"unmount", "deleteRack"}, rack : Racks]
MountTasks == {Idle} \cup CreateTask \cup UpdateTask \cup RackTask

\* Where the request would put its device.
Goal(r) == Over(mount[req[r].dev].at, req[r].wish)

\* What a request that is alone validates, and what it writes: nothing in a rack, a free
\* place that fits, or what is there.
MountAlone(r) ==
    /\ At(r, "validate") => req[r].at = Goal(r)
    /\ At(r, "writeMount") =>
          \/ ~Mounted(Goal(r))
          \/ InTheWay(req[r].dev, Goal(r)) = {} /\ Fits(Goal(r))
          \/ req[r].op = "update" /\ ~Named(req[r].wish)

\* The invariant of the mounts.
RacksOK ==
    /\ Doing(MountTasks)
    /\ RacksTypeOK
    /\ \A r \in Requests : alone[r] => MountAlone(r)

\* Which request is at which step.
LEMMA MountShapes ==
    ASSUME RacksOK, NEW r \in Requests
    PROVE  /\ At(r, "readSwitch") => req[r] \in UpdateTask
           /\ req[r].pc \in {"validate", "writeMount"} => req[r] \in CreateTask \cup UpdateTask
           /\ req[r].pc \in {"unmount", "deleteRack"} => req[r] \in RackTask
<1>1. req[r] \in MountTasks
  BY DEF RacksOK, Doing
<1> QED BY <1>1 DEF MountTasks, CreateTask, UpdateTask, RackTask, Idle, At

\* What is written is a place.
LEMMA OverPlace ==
    ASSUME NEW a \in Place, NEW w \in Place \cup Wish
    PROVE  Over(a, w) \in Place
<1>1. w \in [rack : Racks \cup {NoRack, Keep}, pos : Positions \cup {NoPos, Keep}, height : Heights \cup {Keep}]
  BY DEF Place, Wish
<1>2. DOMAIN a = {"rack", "pos", "height"}
  BY DEF Place
<1>3. PICK b : b = Over(a, w)
  OBVIOUS
<1>4. b = [rack |-> b.rack, pos |-> b.pos, height |-> b.height]
  BY <1>2, <1>3 DEF Over
<1>5. /\ b.rack = IF w.rack = Keep THEN a.rack ELSE w.rack
      /\ b.pos = IF w.pos = Keep THEN a.pos ELSE w.pos
      /\ b.height = IF w.height = Keep THEN a.height ELSE w.height
  BY <1>2, <1>3 DEF Over
<1>6. b.rack \in Racks \cup {NoRack} /\ b.pos \in Positions \cup {NoPos} /\ b.height \in Heights
  BY <1>1, <1>5 DEF Place
<1> QED BY <1>3, <1>4, <1>6 DEF Place

\* A place leaves nothing out; a request that names nothing leaves the place as it is.
LEMMA OverAll ==
    ASSUME NEW a \in Place, NEW w \in Place
    PROVE  Over(a, w) = w
<1>1. DOMAIN a = {"rack", "pos", "height"} /\ w = [f \in {"rack", "pos", "height"} |-> w[f]]
  BY DEF Place
<1>2. w.rack # Keep /\ w.pos # Keep /\ w.height # Keep
  BY RacksAssumption DEF Place
<1> QED BY <1>1, <1>2 DEF Over

\* A payload that names no place leaves the device where it is.
LEMMA OverNothing ==
    ASSUME NEW a \in Place, NEW w \in Wish, ~Named(w)
    PROVE  Over(a, w) = a /\ \A f \in DOMAIN w : w[f] = Keep
<1>1. DOMAIN a = {"rack", "pos", "height"} /\ a = [f \in {"rack", "pos", "height"} |-> a[f]]
  BY DEF Place
<1>2. DOMAIN w = {"rack", "pos", "height"} /\ w.rack = Keep /\ w.pos = Keep /\ w.height = Keep
  BY DEF Wish, Named
<1> QED BY <1>1, <1>2 DEF Over

\* The request moves, the others and the rows stay as they were.
LEMMA OneMount ==
    ASSUME RacksOK, NEW r \in Requests, Doing(MountTasks)', RacksTypeOK',
           \A q \in Requests \ {r} : ~alone'[q], alone'[r] => MountAlone(r)'
    PROVE  RacksOK'
  BY DEF RacksOK

\* A request that arrives knows what its payload says.
LEMMA MountBegins == ASSUME RacksOK, NEW r \in Requests, ArriveMount(r) PROVE RacksOK'
<1>0. Nowhere \in Place
  BY RacksAssumption DEF Nowhere, Place
<1>1. ASSUME NEW d \in Devices, NEW a \in Place, StartCreate(r, d, a) PROVE RacksOK'
  <2> DEFINE task == [pc |-> IF Mounted(a) THEN "validate" ELSE "writeMount", op |-> "create",
                      dev |-> d, wish |-> a, at |-> IF Mounted(a) THEN a ELSE Nowhere]
  <2>1. Begin(r, task) /\ UNCHANGED <<rack, mount>>
    BY <1>1 DEF StartCreate, racks
  <2>2. task \in CreateTask /\ task.dev = d /\ task.wish = a
    BY <1>0 DEF CreateTask
  <2>3. task.pc = "validate" => task.at = a
    OBVIOUS
  <2>4. task.pc = "writeMount" => ~Mounted(a)
    OBVIOUS
  <2> HIDE DEF task
  <2>5. Doing(MountTasks) /\ task \in MountTasks
    BY <2>2 DEF RacksOK, MountTasks
  <2>6. Doing(MountTasks)' /\ req'[r] = task /\ \A q \in Requests \ {r} : ~alone'[q]
    BY <2>1, <2>5, BeginDoing
  <2>7. mount[d].at \in Place
    BY DEF RacksOK, RacksTypeOK, MountRow
  <2>8. Goal(r)' = a
    BY <2>1, <2>2, <2>6, <2>7, OverAll DEF Goal
  <2>9. MountAlone(r)'
    BY <2>2, <2>3, <2>4, <2>6, <2>8 DEF MountAlone, At
  <2> QED BY <2>1, <2>6, <2>9, OneMount DEF RacksOK, RacksTypeOK
<1>2. ASSUME NEW d \in Devices, NEW w \in Wish, StartMove(r, d, w) PROVE RacksOK'
  <2> DEFINE task == [pc |-> "readSwitch", op |-> "update", dev |-> d, wish |-> w, at |-> Nowhere]
  <2>1. Begin(r, task) /\ UNCHANGED <<rack, mount>>
    BY <1>2 DEF StartMove, racks
  <2>2. task \in UpdateTask /\ task.pc = "readSwitch"
    BY <1>0 DEF UpdateTask
  <2> HIDE DEF task
  <2>3. Doing(MountTasks) /\ task \in MountTasks
    BY <2>2 DEF RacksOK, MountTasks
  <2>4. Doing(MountTasks)' /\ req'[r] = task /\ \A q \in Requests \ {r} : ~alone'[q]
    BY <2>1, <2>3, BeginDoing
  <2>5. MountAlone(r)'
    BY <2>2, <2>4 DEF MountAlone, At
  <2> QED BY <2>1, <2>4, <2>5, OneMount DEF RacksOK, RacksTypeOK
<1>3. ASSUME NEW k \in Racks, StartDeleteRack(r, k) PROVE RacksOK'
  <2> DEFINE task == [pc |-> "unmount", rack |-> k]
  <2>1. Begin(r, task) /\ UNCHANGED <<rack, mount>>
    BY <1>3 DEF StartDeleteRack, racks
  <2>2. task \in RackTask /\ task.pc = "unmount"
    BY DEF RackTask
  <2> HIDE DEF task
  <2>3. Doing(MountTasks) /\ task \in MountTasks
    BY <2>2 DEF RacksOK, MountTasks
  <2>4. Doing(MountTasks)' /\ req'[r] = task /\ \A q \in Requests \ {r} : ~alone'[q]
    BY <2>1, <2>3, BeginDoing
  <2>5. MountAlone(r)'
    BY <2>2, <2>4 DEF MountAlone, At
  <2> QED BY <2>1, <2>4, <2>5, OneMount DEF RacksOK, RacksTypeOK
<1> QED BY <1>1, <1>2, <1>3 DEF ArriveMount

\* The place to validate is the wish over the row that was read.
LEMMA ReadSwitchKept == ASSUME RacksOK, NEW r \in Requests, ReadSwitch(r) PROVE RacksOK'
<1> DEFINE a == Over(mount[req[r].dev].at, req[r].wish)
           task == IF Mounted(a) /\ Named(req[r].wish)
                   THEN [req[r] EXCEPT !.pc = "validate", !.at = a]
                   ELSE [req[r] EXCEPT !.pc = "writeMount"]
<1>1. At(r, "readSwitch") /\ Continue(r, task) /\ UNCHANGED <<rack, mount>>
  BY DEF ReadSwitch, racks
<1>2. req[r] \in UpdateTask
  BY <1>1, MountShapes
<1>3. a \in Place
  BY <1>2, OverPlace DEF UpdateTask, RacksOK, RacksTypeOK, MountRow
<1>4. /\ task \in UpdateTask /\ task.dev = req[r].dev /\ task.wish = req[r].wish
      /\ task.op = "update"
      /\ IF Mounted(a) /\ Named(req[r].wish) THEN task.pc = "validate" /\ task.at = a
         ELSE task.pc = "writeMount"
  BY <1>2, <1>3 DEF UpdateTask
<1> HIDE DEF task
<1>5. Doing(MountTasks) /\ task \in MountTasks /\ ~At(r, "idle")
  BY <1>1, <1>4 DEF RacksOK, MountTasks, At
<1>6. Doing(MountTasks)' /\ req'[r] = task /\ \A q \in Requests \ {r} : ~alone'[q]
  BY <1>1, <1>5, ContinueDoing
<1>7. Goal(r)' = a
  BY <1>1, <1>4, <1>6 DEF Goal
<1> HIDE DEF a
<1>8. MountAlone(r)'
  BY <1>4, <1>6, <1>7 DEF MountAlone, At
<1> QED BY <1>1, <1>6, <1>8, OneMount DEF RacksOK, RacksTypeOK

\* What fitted and had nothing in its way is so still for a request that runs alone.
LEMMA ValidateKept == ASSUME RacksOK, NEW r \in Requests, ValidateRackMount(r) PROVE RacksOK'
<1> DEFINE task == [req[r] EXCEPT !.pc = "writeMount", !.at = Nowhere]
<1>1. /\ At(r, "validate") /\ Continue(r, task) /\ UNCHANGED <<rack, mount>>
      /\ Fits(req[r].at) /\ InTheWay(req[r].dev, req[r].at) = {}
  BY DEF ValidateRackMount, racks
<1>2. req[r] \in CreateTask \cup UpdateTask
  BY <1>1, MountShapes DEF At
<1>3. Nowhere \in Place
  BY RacksAssumption DEF Nowhere, Place
<1>4. /\ task \in CreateTask \cup UpdateTask /\ task.dev = req[r].dev /\ task.wish = req[r].wish
      /\ task.pc = "writeMount"
  BY <1>2, <1>3 DEF CreateTask, UpdateTask
<1> HIDE DEF task
<1>5. Doing(MountTasks) /\ task \in MountTasks /\ ~At(r, "idle")
  BY <1>1, <1>4 DEF RacksOK, MountTasks, At
<1>6. Doing(MountTasks)' /\ req'[r] = task /\ alone' = alone /\ \A q \in Requests \ {r} : ~alone'[q]
  BY <1>1, <1>5, ContinueDoing
<1>7. Goal(r)' = Goal(r) /\ req'[r].dev = req[r].dev
  BY <1>1, <1>4, <1>6 DEF Goal
<1>8. ASSUME alone'[r] PROVE MountAlone(r)'
  <2>1. req[r].at = Goal(r)
    BY <1>1, <1>6, <1>8 DEF RacksOK, MountAlone
  <2>2. (InTheWay(req[r].dev, Goal(r)))' = {} /\ (Fits(Goal(r)))'
    BY <1>1, <1>7, <2>1 DEF InTheWay, Fits
  <2> QED BY <1>4, <1>6, <2>2 DEF MountAlone, At
<1> QED BY <1>1, <1>6, <1>8, OneMount DEF RacksOK, RacksTypeOK

\* The rows after a step that is the last of its request.
LEMMA MountOver ==
    ASSUME RacksOK, RacksTypeOK', Instant \/ \E r \in Requests : ~At(r, "idle") /\ Finish(r)
    PROVE  RacksOK'
<1>1. Doing(MountTasks) /\ Idle \in MountTasks
  BY DEF RacksOK, MountTasks
<1>2. Doing(MountTasks)' /\ \A q \in Requests : ~alone'[q]
  BY <1>1, FinishDoing, InstantDoing
<1> QED BY <1>2 DEF RacksOK

\* The device is written where it was validated.
LEMMA WriteMountKept ==
    ASSUME RacksOK, NEW r \in Requests, WriteMount(r)
    PROVE  RacksOK' /\ mount' = [mount EXCEPT ![req[r].dev] = [life |-> "up", at |-> Goal(r)]]
<1>1. /\ At(r, "writeMount") /\ Finish(r) /\ UNCHANGED rack
      /\ mount' = [mount EXCEPT ![req[r].dev] = [life |-> "up", at |-> Goal(r)]]
  BY DEF WriteMount, Goal
<1>2. req[r] \in CreateTask \cup UpdateTask
  BY <1>1, MountShapes DEF At
<1>3. Goal(r) \in Place
  BY <1>2, OverPlace DEF Goal, CreateTask, UpdateTask, RacksOK, RacksTypeOK, MountRow
<1>4. RacksTypeOK'
  BY <1>1, <1>3 DEF RacksOK, RacksTypeOK, MountRow, Life
<1> QED BY <1>1, <1>4, MountOver DEF At

\* A switch out of its rack is in a place.
LEMMA OutOfRack ==
    ASSUME NEW row \in MountRow
    PROVE  /\ [row EXCEPT !.at.rack = NoRack] \in MountRow
           /\ [row EXCEPT !.at.rack = NoRack, !.at.pos = NoPos] \in MountRow
<1>1. PICK l \in Life, a \in Place : row = [life |-> l, at |-> a]
  BY DEF MountRow
<1>2. [a EXCEPT !.rack = NoRack] \in Place /\ [[a EXCEPT !.rack = NoRack] EXCEPT !.pos = NoPos] \in Place
  BY DEF Place
<1>3. [row EXCEPT !.at.rack = NoRack] = [life |-> l, at |-> [a EXCEPT !.rack = NoRack]]
  BY <1>1
<1>4. PICK b \in Place : b = [a EXCEPT !.rack = NoRack]
  BY <1>2
<1>5. PICK out : out = [row EXCEPT !.at.rack = NoRack]
  OBVIOUS
<1>6. out = [life |-> l, at |-> b]
  BY <1>3, <1>4, <1>5
<1>7. [row EXCEPT !.at.rack = NoRack, !.at.pos = NoPos] = [out EXCEPT !.at.pos = NoPos]
  BY <1>5
<1>8. [out EXCEPT !.at.pos = NoPos] = [life |-> l, at |-> [b EXCEPT !.pos = NoPos]]
  BY <1>6
<1> QED BY <1>2, <1>3, <1>4, <1>7, <1>8 DEF MountRow

\* Taking the devices off a rack puts none on another.
LEMMA UnmountKept == ASSUME RacksOK, NEW r \in Requests, Unmount(r) PROVE RacksOK'
<1> DEFINE task == [req[r] EXCEPT !.pc = "deleteRack"]
<1>1. At(r, "unmount") /\ Continue(r, task) /\ UNCHANGED rack
  BY DEF Unmount, Goto
<1>2. req[r] \in RackTask
  BY <1>1, MountShapes DEF At
<1>3. task \in RackTask /\ task.pc = "deleteRack"
  BY <1>2 DEF RackTask
<1> HIDE DEF task
<1>4. Doing(MountTasks) /\ task \in MountTasks /\ ~At(r, "idle")
  BY <1>1, <1>3 DEF RacksOK, MountTasks, At
<1>5. Doing(MountTasks)' /\ req'[r] = task /\ \A q \in Requests \ {r} : ~alone'[q]
  BY <1>1, <1>4, ContinueDoing
<1>6. MountAlone(r)'
  BY <1>3, <1>5 DEF MountAlone, At
<1>7. RacksTypeOK'
  BY <1>1, OutOfRack DEF Unmount, RacksOK, RacksTypeOK
<1> QED BY <1>5, <1>6, <1>7, OneMount

\* The other statements about racks and devices mount nothing.
LEMMA RackRowsKept ==
    ASSUME RacksOK,
           \/ \E r \in Requests : DeleteRack(r) \/ AbortMount(r)
           \/ \E k \in Racks : CreateRack(k)
           \/ \E d \in Devices : RemoveDevice(d)
    PROVE  RacksOK'
<1>1. ASSUME NEW r \in Requests, DeleteRack(r) PROVE RacksOK'
  <2>1. req[r] \in RackTask /\ ~At(r, "idle") /\ Finish(r)
    BY <1>1, MountShapes DEF DeleteRack, At
  <2>2. RacksTypeOK'
    BY <1>1, OutOfRack DEF DeleteRack, RacksOK, RacksTypeOK, Life
  <2> QED BY <2>1, <2>2, MountOver
<1>2. ASSUME NEW r \in Requests, AbortMount(r) PROVE RacksOK'
  <2>1. RacksTypeOK' /\ ~At(r, "idle") /\ Finish(r)
    BY <1>2 DEF AbortMount, racks, RacksOK, RacksTypeOK, At
  <2> QED BY <2>1, MountOver
<1>3. ASSUME NEW k \in Racks, CreateRack(k) PROVE RacksOK'
  <2>1. RacksTypeOK' /\ Instant
    BY <1>3 DEF CreateRack, RacksOK, RacksTypeOK, Life
  <2> QED BY <2>1, MountOver
<1>4. ASSUME NEW d \in Devices, RemoveDevice(d) PROVE RacksOK'
  <2>1. Nowhere \in Place
    BY RacksAssumption DEF Nowhere, Place
  <2>2. RacksTypeOK' /\ Instant
    BY <1>4, <2>1 DEF RemoveDevice, RacksOK, RacksTypeOK, MountRow, Life
  <2> QED BY <2>2, MountOver
<1> QED BY <1>1, <1>2, <1>3, <1>4

\* Every step of the racks keeps the invariant.
LEMMA RacksStep == RacksOK /\ RacksNext => RacksOK'
  BY MountBegins, ReadSwitchKept, ValidateKept, WriteMountKept, UnmountKept, RackRowsKept
     DEF RacksNext, MountStatement

\* Two devices that claim a unit of a rack collide there.
LEMMA SharedUnit ==
    ASSUME NEW a \in Place, NEW b \in Place, Mounted(a), Mounted(b), NEW u,
           u \in {<<a.rack, n>> : n \in a.pos .. Top(a)}, u \in {<<b.rack, n>> : n \in b.pos .. Top(b)}
    PROVE  Collide(a, b)
<1>1. a.pos \in Nat /\ b.pos \in Nat /\ a.height \in Nat /\ b.height \in Nat
  BY RacksAssumption DEF Place, Mounted
<1>2. PICK n \in a.pos .. Top(a) : u = <<a.rack, n>>
  OBVIOUS
<1>3. PICK m \in b.pos .. Top(b) : u = <<b.rack, m>>
  OBVIOUS
<1>4. a.rack = b.rack /\ n = m
  BY <1>2, <1>3
<1>5. Top(a) \in Int /\ Top(b) \in Int
  BY <1>1 DEF Top
<1>6. a.pos <= Top(b) /\ b.pos <= Top(a)
  BY <1>1, <1>4, <1>5
<1> QED BY <1>4, <1>6 DEF Collide

\* Alone, what is written collides with nothing new, and fits.
LEMMA MountsFree ==
    ASSUME RacksOK, NEW r \in Requests, alone[r], WriteMount(r)
    PROVE  /\ Overlaps' \subseteq Overlaps
           /\ \A d \in {req[r].dev} : \A w \in {req[r].wish} :
                 (\E f \in DOMAIN w : w[f] # Keep) => \A u \in Units(d)' : u[2] \in 1 .. RackHeight
<1>0. PICK d, a, w : d = req[r].dev /\ a = Goal(r) /\ w = req[r].wish
  OBVIOUS
<1>1. /\ At(r, "writeMount") /\ mount' = [mount EXCEPT ![d] = [life |-> "up", at |-> a]]
      /\ IF req[r].op = "create" THEN mount[d].life = "none" ELSE mount[d].life = "up"
  BY <1>0, WriteMountKept DEF WriteMount
<1>2. req[r] \in CreateTask \cup UpdateTask
  BY <1>1, MountShapes DEF At
<1>3. d \in Devices /\ w \in Place \cup Wish /\ mount \in [Devices -> MountRow]
  BY <1>0, <1>2 DEF CreateTask, UpdateTask, RacksOK, RacksTypeOK
<1>4. a = Over(mount[d].at, w) /\ a \in Place
  BY <1>0, <1>3, OverPlace DEF Goal, MountRow
<1>5. \/ ~Mounted(a)
      \/ InTheWay(d, a) = {} /\ Fits(a)
      \/ req[r].op = "update" /\ ~Named(w)
  BY <1>0, <1>1 DEF RacksOK, MountAlone
<1>6. mount'[d] = [life |-> "up", at |-> a] /\ \A e \in Devices \ {d} : mount'[e] = mount[e]
  BY <1>1, <1>3
<1>7. \A e \in Devices \ {d} : Units(e)' = Units(e)
  BY <1>6 DEF Units
<1>8. (Units(d))' = IF Mounted(a) THEN {<<a.rack, u>> : u \in a.pos .. Top(a)} ELSE {}
  BY <1>6 DEF Units
<1>9. req[r].op = "update" /\ ~Named(w) => (Units(d))' = Units(d) /\ \A f \in DOMAIN w : w[f] = Keep
  <2> SUFFICES ASSUME req[r].op = "update", ~Named(w)
               PROVE  (Units(d))' = Units(d) /\ \A f \in DOMAIN w : w[f] = Keep
    OBVIOUS
  <2>1. w \in Wish /\ mount[d].life = "up" /\ mount[d].at \in Place
    BY <1>0, <1>1, <1>2, <1>3 DEF CreateTask, UpdateTask, MountRow
  <2>2. a = mount[d].at /\ \A f \in DOMAIN w : w[f] = Keep
    BY <1>4, <2>1, OverNothing
  <2> QED BY <1>8, <2>1, <2>2 DEF Units
<1>10. ASSUME NEW e \in Devices \ {d}, (Units(d))' \cap Units(e) # {} PROVE (Units(d))' = Units(d)
  <2>1. Mounted(a)
    BY <1>8, <1>10
  <2>2. mount[e].life = "up" /\ Mounted(mount[e].at) /\ mount[e].at \in Place
        /\ Units(e) = {<<mount[e].at.rack, u>> : u \in mount[e].at.pos .. Top(mount[e].at)}
    BY <1>3, <1>10 DEF Units, MountRow
  <2>3. Collide(mount[e].at, a)
    BY <1>4, <1>8, <1>10, <2>1, <2>2, SharedUnit
  <2>4. e \in InTheWay(d, a)
    BY <2>2, <2>3 DEF InTheWay
  <2> QED BY <1>5, <1>9, <2>1, <2>4
<1>11. Overlaps' \subseteq Overlaps
  <2> SUFFICES ASSUME NEW S \in SUBSET Devices, NEW x \in S, NEW y \in S, S = {x, y}, x # y,
                      (Units(x))' \cap (Units(y))' # {}
               PROVE  Units(x) \cap Units(y) # {}
    BY DEF Overlaps
  <2>1. CASE x # d /\ y # d
    BY <1>7, <2>1
  <2>2. CASE x = d
    BY <1>7, <1>10, <2>2
  <2>3. CASE y = d
    BY <1>7, <1>10, <2>3
  <2> QED BY <2>1, <2>2, <2>3
<1>12. ASSUME NEW f \in DOMAIN w, w[f] # Keep, NEW u \in (Units(d))' PROVE u[2] \in 1 .. RackHeight
  <2>1. Mounted(a)
    BY <1>8, <1>12
  <2>2. PICK n \in a.pos .. Top(a) : u = <<a.rack, n>>
    BY <1>8, <1>12, <2>1
  <2>3. Top(a) <= RackHeight
    BY <1>5, <1>9, <1>12, <2>1 DEF Fits
  <2>4. a.pos \in Nat \ {0} /\ a.height \in Nat
    BY <1>4, <2>1, RacksAssumption DEF Place, Mounted
  <2>5. n \in 1 .. RackHeight
    BY <2>2, <2>3, <2>4, RacksAssumption DEF Top
  <2> QED BY <2>2, <2>5
<1> QED BY <1>0, <1>11, <1>12
-----------------------------------------------------------------------------
(* Addresses.                                                              *)

\* A request before it has written, and one that syncs.
Before == IpSteps \ {"sync"}
Counts == 0 .. MaxIps \cup {NoCount}
AskTask ==
    [pc : Before, op : {"create", "update", "delete"}, id : Ids \cup {0},
     subnet : Subnets \cup {NoSubnet, Same}, addr : Addresses \cup {NoAddress, Same},
     status : Statuses \cup {Same}, todo : Seq(Subnets), again : BOOLEAN, was : SUBSET Subnets]
SyncTask ==
    [pc : {"sync"}, todo : Seq(Subnets), used : Counts, reserved : Counts, was : SUBSET Subnets]
IpTasks == {Idle} \cup AskTask \cup SyncTask

\* A request that creates has all it needs, one that changes names a row.
IpShape(r) ==
    /\ At(r, "readSubnet") => req[r].subnet \in Subnets
    /\ req[r].pc \in {"readSubnet", "match", "findExisting", "createIp"} =>
          /\ req[r].subnet \in Subnets \cup {NoSubnet} /\ req[r].status \in Statuses
          /\ req[r].addr \in Addresses \cup {NoAddress}
    /\ req[r].pc \in {"readIp", "updateIp", "deleteIp"} =>
          /\ req[r].id \in Ids /\ req[r].addr \in Addresses \cup {Same}
    /\ At(r, "sync") => req[r].todo # <<>>

\* The subnets of a list.
Pending(todo) == {todo[n] : n \in 1 .. Len(todo)}
OneOrNone(s) == IF s = NoSubnet THEN <<>> ELSE <<s>>

\* The counters a request that is alone has yet to see to.
IpAlone(r) ==
    /\ req[r].pc \in Before => Wrong \subseteq req[r].was
    /\ req[r].pc \in {"updateIp", "deleteIp"} => req[r].todo = OneOrNone(ip[req[r].id].subnet)
    /\ At(r, "sync") =>
          /\ Wrong \subseteq req[r].was \cup Pending(req[r].todo)
          /\ req[r].used # NoCount => req[r].used = Count(Head(req[r].todo), "ASSIGNED")
          /\ req[r].reserved # NoCount => req[r].reserved = Count(Head(req[r].todo), "RESERVED")

\* The invariant of the addresses.
AddressingOK ==
    /\ Doing(IpTasks)
    /\ SubnetsTypeOK
    /\ \A r \in Requests : IpShape(r) /\ (alone[r] => IpAlone(r))

\* Which request is at which step.
LEMMA IpShapes ==
    ASSUME AddressingOK, NEW r \in Requests
    PROVE  /\ req[r].pc \in Before => req[r] \in AskTask
           /\ At(r, "sync") => req[r] \in SyncTask
           /\ req[r].pc \in IpSteps => ~At(r, "idle")
<1>1. req[r] \in IpTasks
  BY DEF AddressingOK, Doing
<1> QED BY <1>1 DEF IpTasks, AskTask, SyncTask, Idle, At, Before, IpSteps

\* What is counted are some of the rows.
LEMMA CountType == ASSUME NEW s, NEW st PROVE Count(s, st) \in 0 .. MaxIps
<1> DEFINE T == {i \in Rows(s) : ip[i].status = st}
<1>1. T \in SUBSET Ids
  BY DEF Rows
<1>2. IsFiniteSet(Ids) /\ Cardinality(Ids) = MaxIps
  BY FS_Interval, SubnetsAssumption DEF Ids
<1>3. IsFiniteSet(T) /\ Cardinality(T) <= MaxIps
  BY <1>1, <1>2, FS_Subset
<1>4. Cardinality(T) \in Nat
  BY <1>3, FS_CardinalityType
<1> QED BY <1>3, <1>4, SubnetsAssumption DEF Count

\* Some addresses have a least one.
LEMMA LeastAddress ==
    ASSUME NEW S \in SUBSET Nat, S # {}
    PROVE  Min(S) \in S
<1> DEFINE R == OpToRel(<, Nat)
<1>1. IsWellFoundedOn(R, Nat)
  BY NatLessThanWellFounded
<1> HIDE DEF R
<1>2. \E n \in S : \A m \in S : ~ (<<m, n>> \in R)
  BY <1>1, WFMin
<1>3. PICK n \in S : \A m \in S : ~ (<<m, n>> \in R)
  BY <1>2
<1>4. \A m \in S : n <= m
  <2>1. \A m, k \in Nat : m < k => <<m, k>> \in R
    BY DEF R, OpToRel
  <2>2. n \in Nat /\ \A m \in S : m \in Nat /\ ~ (m < n)
    BY <1>3, <2>1
  <2> QED BY <2>2
<1> QED BY <1>3, <1>4 DEF Min

\* The head of a list is synced, the tail is left.
LEMMA PendingTail ==
    ASSUME NEW todo \in Seq(Subnets), todo # <<>>
    PROVE  /\ Head(todo) \in Subnets /\ Tail(todo) \in Seq(Subnets)
           /\ Pending(todo) \subseteq {Head(todo)} \cup Pending(Tail(todo))
<1>1. Head(todo) = todo[1] /\ Head(todo) \in Subnets /\ Tail(todo) \in Seq(Subnets)
  OBVIOUS
<1>2. Len(todo) \in Nat \ {0} /\ Len(Tail(todo)) = Len(todo) - 1
  OBVIOUS
<1>3. \A n \in 1 .. Len(todo) - 1 : Tail(todo)[n] = todo[n + 1]
  OBVIOUS
<1>4. ASSUME NEW n \in 1 .. Len(todo) PROVE todo[n] \in {Head(todo)} \cup Pending(Tail(todo))
  <2>1. CASE n = 1
    BY <1>1, <2>1
  <2>2. CASE n # 1
    <3>1. n - 1 \in 1 .. Len(Tail(todo)) /\ Tail(todo)[n - 1] = todo[n]
      BY <1>2, <1>3, <2>2
    <3> QED BY <3>1 DEF Pending
  <2> QED BY <2>1, <2>2
<1> QED BY <1>1, <1>4 DEF Pending

\* The list of a subnet, or of none.
LEMMA PendingOne ==
    ASSUME NEW s \in Subnets \cup {NoSubnet}
    PROVE  OneOrNone(s) \in Seq(Subnets) /\ Pending(OneOrNone(s)) = {s} \ {NoSubnet}
<1>1. CASE s = NoSubnet
  <2>1. OneOrNone(s) = <<>> /\ <<>> \in Seq(Subnets) /\ Len(<<>>) = 0
    BY <1>1 DEF OneOrNone
  <2> QED BY <1>1, <2>1 DEF Pending
<1>2. CASE s # NoSubnet
  <2>1. OneOrNone(s) = <<s>> /\ <<s>> \in Seq(Subnets) /\ Len(<<s>>) = 1 /\ <<s>>[1] = s
    BY <1>2 DEF OneOrNone
  <2> QED BY <1>2, <2>1 DEF Pending
<1> QED BY <1>1, <1>2

\* One list after another.
LEMMA PendingBoth ==
    ASSUME NEW a \in Seq(Subnets), NEW b \in Seq(Subnets)
    PROVE  a \o b \in Seq(Subnets) /\ Pending(a \o b) = Pending(a) \cup Pending(b)
<1> DEFINE c == a \o b
<1>1. /\ c \in Seq(Subnets) /\ Len(c) = Len(a) + Len(b) /\ Len(a) \in Nat /\ Len(b) \in Nat
      /\ \A n \in 1 .. Len(c) : c[n] = IF n <= Len(a) THEN a[n] ELSE b[n - Len(a)]
  OBVIOUS
<1> HIDE DEF c
<1>2. \A n \in 1 .. Len(c) : c[n] \in Pending(a) \cup Pending(b)
  <2> SUFFICES ASSUME NEW n \in 1 .. Len(c) PROVE c[n] \in Pending(a) \cup Pending(b)
    OBVIOUS
  <2>1. CASE n <= Len(a)
    <3>1. n \in 1 .. Len(a) /\ c[n] = a[n]
      BY <1>1, <2>1
    <3> QED BY <3>1 DEF Pending
  <2>2. CASE ~(n <= Len(a))
    <3>1. n - Len(a) \in 1 .. Len(b) /\ c[n] = b[n - Len(a)]
      BY <1>1, <2>2
    <3> QED BY <3>1 DEF Pending
  <2> QED BY <2>1, <2>2
<1>3. \A n \in 1 .. Len(a) : a[n] \in Pending(c)
  <2> SUFFICES ASSUME NEW n \in 1 .. Len(a) PROVE a[n] \in Pending(c)
    OBVIOUS
  <2>1. n \in 1 .. Len(c) /\ c[n] = a[n]
    BY <1>1
  <2> QED BY <2>1 DEF Pending
<1>4. \A n \in 1 .. Len(b) : b[n] \in Pending(c)
  <2> SUFFICES ASSUME NEW n \in 1 .. Len(b) PROVE b[n] \in Pending(c)
    OBVIOUS
  <2>1. n + Len(a) \in 1 .. Len(c) /\ ~(n + Len(a) <= Len(a)) /\ (n + Len(a)) - Len(a) = n
    BY <1>1
  <2>2. c[n + Len(a)] = b[n]
    BY <1>1, <2>1
  <2> QED BY <2>1, <2>2 DEF Pending
<1>5. Pending(c) = Pending(a) \cup Pending(b)
  <2>1. Pending(c) \subseteq Pending(a) \cup Pending(b)
    BY <1>2 DEF Pending
  <2>2. Pending(a) \subseteq Pending(c)
    BY <1>3 DEF Pending
  <2>3. Pending(b) \subseteq Pending(c)
    BY <1>4 DEF Pending
  <2> QED BY <2>1, <2>2, <2>3
<1> QED BY <1>1, <1>5 DEF c

\* updateIp syncs a list of subnets, and both the one the address leaves and the one it enters.
LEMMA ResyncBoth ==
    ASSUME NEW old \in Seq(Subnets), NEW new \in Subnets \cup {NoSubnet}, NEW again \in BOOLEAN
    PROVE  /\ Resync(old, new, again) \in Seq(Subnets)
           /\ Pending(old) \cup ({new} \ {NoSubnet}) \subseteq Pending(Resync(old, new, again))
<1>0. PICK a, b, c : /\ a = IF old = <<new>> THEN <<>> ELSE old
                     /\ b = OneOrNone(new)
                     /\ c = IF old = <<new>> /\ again THEN old ELSE <<>>
  OBVIOUS
<1>1. <<>> \in Seq(Subnets)
  OBVIOUS
<1>2. a \in Seq(Subnets) /\ c \in Seq(Subnets)
  BY <1>0, <1>1
<1>3. b \in Seq(Subnets) /\ Pending(b) = {new} \ {NoSubnet}
  BY <1>0, PendingOne
<1>4. a \o b \in Seq(Subnets) /\ Pending(a \o b) = Pending(a) \cup Pending(b)
  BY <1>2, <1>3, PendingBoth
<1>5. (a \o b) \o c \in Seq(Subnets) /\ Pending((a \o b) \o c) = Pending(a \o b) \cup Pending(c)
  BY <1>2, <1>4, PendingBoth
<1>6. Resync(old, new, again) = (a \o b) \o c
  BY <1>0 DEF Resync, OneOrNone
<1>7. Pending(old) \subseteq Pending(a) \cup Pending(b)
  <2>1. CASE old = <<new>>
    <3>1. Len(old) = 1 /\ old[1] = new /\ new \in Subnets
      BY <2>1
    <3>2. Pending(old) = {new}
      BY <3>1 DEF Pending
    <3> QED BY <1>3, <3>1, <3>2, SubnetsAssumption
  <2>2. CASE old # <<new>>
    BY <1>0, <2>2
  <2> QED BY <2>1, <2>2
<1> QED BY <1>3, <1>4, <1>5, <1>6, <1>7

\* A row that changes is counted by the subnets it leaves and enters alone.
LEMMA CountedElsewhere ==
    ASSUME SubnetsTypeOK, NEW i \in Ids, NEW n, ip' = [ip EXCEPT ![i] = n],
           NEW s \in Subnets, NEW st \in Status,
           ip[i].life = "up" => ip[i].subnet # s, n.life = "up" => n.subnet # s
    PROVE  Count(s, st)' = Count(s, st)
<1>1. ip'[i] = n /\ \A j \in Ids \ {i} : ip'[j] = ip[j]
  BY DEF SubnetsTypeOK
<1>2. Rows(s)' = Rows(s) /\ i \notin Rows(s) /\ Rows(s) \subseteq Ids
  BY <1>1 DEF Rows
<1>3. \A j \in Rows(s) : ip'[j] = ip[j]
  BY <1>1, <1>2
<1> QED BY <1>2, <1>3 DEF Count

\* Only their counters can become wrong.
LEMMA WrongElsewhere ==
    ASSUME SubnetsTypeOK, NEW i \in Ids, NEW n, ip' = [ip EXCEPT ![i] = n], UNCHANGED subnet, NEW S,
           ip[i].life = "up" => ip[i].subnet \in S \cup {NoSubnet},
           n.life = "up" => n.subnet \in S \cup {NoSubnet}
    PROVE  Wrong' \subseteq Wrong \cup S
<1> SUFFICES ASSUME NEW s \in Wrong', s \notin S PROVE s \in Wrong
  OBVIOUS
<1>1. s \in Subnets /\ s # NoSubnet
  BY SubnetsAssumption DEF Wrong
<1>2. ASSUME NEW st \in Status PROVE Count(s, st)' = Count(s, st)
  <2>1. ip[i].life = "up" => ip[i].subnet # s
    BY <1>1
  <2>2. n.life = "up" => n.subnet # s
    BY <1>1
  <2> QED BY <1>1, <2>1, <2>2, CountedElsewhere
<1>3. "ASSIGNED" \in Status /\ "RESERVED" \in Status
  BY DEF Status
<1> QED BY <1>1, <1>2, <1>3 DEF Wrong

\* A request goes on before it has written; what it knows depends on it alone.
LEMMA AskGoesOn ==
    ASSUME AddressingOK, NEW r \in Requests, NEW task \in AskTask, UNCHANGED <<subnet, ip>>,
           Begin(r, task) \/ (~At(r, "idle") /\ Continue(r, task)),
           task.was = Wrong \/ (req[r].pc \in Before /\ task.was = req[r].was),
           task.pc = "readSubnet" => task.subnet \in Subnets,
           task.pc \in {"readSubnet", "match", "findExisting", "createIp"} =>
              /\ task.subnet \in Subnets \cup {NoSubnet} /\ task.status \in Statuses
              /\ task.addr \in Addresses \cup {NoAddress},
           task.pc \in {"readIp", "updateIp", "deleteIp"} =>
              task.id \in Ids /\ task.addr \in Addresses \cup {Same},
           task.pc \in {"updateIp", "deleteIp"} => task.todo = OneOrNone(ip[task.id].subnet)
    PROVE  AddressingOK'
<1>1. Doing(IpTasks) /\ task \in IpTasks
  BY DEF AddressingOK, IpTasks
<1>2. /\ Doing(IpTasks)' /\ req'[r] = task
      /\ \A q \in Requests \ {r} : req'[q] = req[q] /\ ~alone'[q]
      /\ Begin(r, task) \/ alone' = alone
  BY <1>1, BeginDoing, ContinueDoing
<1>3. Wrong' = Wrong
  BY DEF Wrong, Count, Rows
<1>4. task.pc \in Before
  BY DEF AskTask
<1>5. IpShape(r)'
  BY <1>2, <1>4 DEF IpShape, At, Before
<1>6. ASSUME alone'[r] PROVE IpAlone(r)'
  <2>1. Wrong \subseteq task.was
    <3>1. CASE task.was = Wrong
      BY <3>1
    <3>2. CASE req[r].pc \in Before /\ task.was = req[r].was
      <4>1. alone' = alone
        BY <1>2, <3>2 DEF Begin, At, Before, IpSteps
      <4> QED BY <1>6, <3>2, <4>1 DEF AddressingOK, IpAlone
    <3> QED BY <3>1, <3>2
  <2> QED BY <1>2, <1>3, <1>4, <2>1 DEF IpAlone, At, Before
<1>7. SubnetsTypeOK'
  BY DEF AddressingOK, SubnetsTypeOK
<1>8. \A q \in Requests \ {r} : IpShape(q)'
  BY <1>2 DEF AddressingOK, IpShape, At
<1> QED BY <1>2, <1>5, <1>6, <1>7, <1>8 DEF AddressingOK

\* One that has written, or synced a subnet, goes on with the rest of its list.
LEMMA SyncGoesOn ==
    ASSUME AddressingOK, SubnetsTypeOK', NEW r \in Requests, req[r].pc \in IpSteps,
           NEW order \in Seq(Subnets), req' = [req EXCEPT ![r] = Syncing(r, order)],
           \/ alone' = [alone EXCEPT ![r] = FALSE]
           \/ alone' = [alone EXCEPT ![r] = @ /\ order # <<>>],
           alone'[r] => Wrong' \subseteq req[r].was \cup Pending(order)
    PROVE  AddressingOK'
<1>1. req[r] \in AskTask \cup SyncTask /\ ~At(r, "idle")
  BY IpShapes DEF Before, IpSteps, At
<1>2. req[r].was \in SUBSET Subnets
  BY <1>1 DEF AskTask, SyncTask
<1>3. PICK task : task = Syncing(r, order)
  OBVIOUS
<1>4. task \in {Idle} \cup SyncTask
  BY <1>2, <1>3 DEF Syncing, SyncTask, Counts
<1>5. task # Idle => /\ order # <<>> /\ task.todo = order /\ task.pc = "sync" /\ task.was = req[r].was
                     /\ task.used = NoCount /\ task.reserved = NoCount
  BY <1>3 DEF Syncing
<1>6. Doing(IpTasks) /\ task \in IpTasks
  BY <1>4 DEF AddressingOK, IpTasks
<1>7. req'[r] = task /\ \A q \in Requests \ {r} : req'[q] = req[q] /\ alone'[q] = alone[q]
  BY <1>3, <1>6 DEF Doing
<1>8. \A q \in Requests \ {r} : ~alone[q]
  BY <1>1, <1>6 DEF Doing
<1>9. Doing(IpTasks)'
  <2>1. req' = [q \in Requests |-> req'[q]] /\ alone' = [q \in Requests |-> alone'[q]]
    BY <1>6 DEF Doing
  <2>2. \A q \in Requests : req'[q] \in IpTasks
    BY <1>6, <1>7 DEF Doing
  <2>3. alone'[r] => alone[r]
    BY <1>6 DEF Doing
  <2> QED BY <1>6, <1>7, <1>8, <2>1, <2>2, <2>3 DEF Doing, At
<1>10. IpShape(r)'
  BY <1>4, <1>5, <1>7 DEF IpShape, At, Idle
<1>11. ASSUME alone'[r] PROVE IpAlone(r)'
  BY <1>4, <1>5, <1>7, <1>11 DEF IpAlone, At, Idle, Before, IpSteps
<1>12. \A q \in Requests \ {r} : IpShape(q)'
  BY <1>7 DEF AddressingOK, IpShape, At
<1> QED BY <1>7, <1>8, <1>9, <1>10, <1>11, <1>12 DEF AddressingOK

\* When it is over at that, its list is empty, and no counter is wrong that was not.
Settled(r) == alone[r] /\ (At(r, "idle"))' => Wrong' \subseteq req[r].was

\* A request that has yet to recount every subnet that its write made wrong leaves none wrong.
LEMMA SyncSettles ==
    ASSUME AddressingOK, SubnetsTypeOK', NEW r \in Requests, req[r].pc \in IpSteps,
           NEW order \in Seq(Subnets), ThenSync(r, order),
           alone[r] => Wrong' \subseteq req[r].was \cup Pending(order)
    PROVE  AddressingOK' /\ Settled(r)
<1>1. alone = [q \in Requests |-> alone[q]] /\ req = [q \in Requests |-> req[q]]
  BY DEF AddressingOK, Doing
<1>2. AddressingOK'
  BY <1>1, SyncGoesOn DEF ThenSync
<1>3. ASSUME (At(r, "idle"))' PROVE order = <<>> /\ Pending(order) = {}
  <2>1. req'[r] = Syncing(r, order)
    BY <1>1 DEF ThenSync
  <2>2. order = <<>>
    BY <1>3, <2>1 DEF Syncing, At
  <2>3. Len(<<>>) = 0
    OBVIOUS
  <2> QED BY <2>2, <2>3 DEF Pending
<1> QED BY <1>2, <1>3 DEF Settled

\* A request that arrives has remembered which counters were wrong before it.
LEMMA IpBegins == ASSUME AddressingOK, NEW r \in Requests, ArriveIp(r) PROVE AddressingOK'
<1>0. Wrong \in SUBSET Subnets /\ <<>> \in Seq(Subnets)
  BY DEF Wrong
<1>1. ASSUME NEW n \in Subnets \cup {NoSubnet}, NEW a \in Addresses \cup {NoAddress}, NEW st \in Statuses,
             StartCreateIp(r, n, a, st)
      PROVE  AddressingOK'
  <2> DEFINE step == IF n = NoSubnet THEN "match" ELSE "readSubnet"
             task == Task(step, "create", 0, n, a, st)
  <2>1. Begin(r, task) /\ UNCHANGED <<subnet, ip>>
    BY <1>1 DEF StartCreateIp, addressing
  <2>2. task \in AskTask /\ task.pc = step /\ task.was = Wrong /\ task.subnet = n /\ task.addr = a
        /\ task.status = st
    BY <1>0 DEF Task, AskTask, Before, IpSteps
  <2> HIDE DEF task
  <2> QED BY <2>1, <2>2, AskGoesOn
<1>2. ASSUME NEW i \in Ids, NEW n \in Subnets \cup {NoSubnet, Same}, NEW a \in Addresses \cup {Same},
             NEW st \in Statuses \cup {Same}, StartUpdateIp(r, i, n, a, st)
      PROVE  AddressingOK'
  <2> DEFINE task == Task("readIp", "update", i, n, a, st)
  <2>1. Begin(r, task) /\ UNCHANGED <<subnet, ip>>
    BY <1>2 DEF StartUpdateIp, addressing
  <2>2. task \in AskTask /\ task.pc = "readIp" /\ task.was = Wrong /\ task.id = i /\ task.addr = a
    BY <1>0 DEF Task, AskTask, Before, IpSteps
  <2> HIDE DEF task
  <2> QED BY <2>1, <2>2, AskGoesOn
<1>3. ASSUME NEW i \in Ids, StartDeleteIp(r, i) PROVE AddressingOK'
  <2> DEFINE task == Task("readIp", "delete", i, Same, Same, Same)
  <2>1. Begin(r, task) /\ UNCHANGED <<subnet, ip>>
    BY <1>3 DEF StartDeleteIp, addressing
  <2>2. task \in AskTask /\ task.pc = "readIp" /\ task.was = Wrong /\ task.id = i /\ task.addr = Same
    BY <1>0 DEF Task, AskTask, Before, IpSteps
  <2> HIDE DEF task
  <2> QED BY <2>1, <2>2, AskGoesOn
<1> QED BY <1>1, <1>2, <1>3 DEF ArriveIp

\* Reading a subnet and choosing a free address writes nothing.
LEMMA ReadSubnetKept == ASSUME AddressingOK, NEW r \in Requests, ReadSubnet(r) PROVE AddressingOK'
<1> DEFINE n == req[r].subnet
           a == IF req[r].addr = NoAddress /\ subnet[n].life = "up" /\ Free(n) # {}
                THEN Min(Free(n)) ELSE req[r].addr
           task == [req[r] EXCEPT !.pc = "findExisting", !.addr = a]
<1>1. At(r, "readSubnet") /\ Continue(r, task) /\ UNCHANGED <<subnet, ip>>
  BY DEF ReadSubnet, addressing
<1>2. req[r] \in AskTask /\ req[r].pc \in Before /\ ~At(r, "idle")
  BY <1>1, IpShapes DEF At, Before, IpSteps
<1>3. n \in Subnets /\ req[r].status \in Statuses /\ req[r].addr \in Addresses \cup {NoAddress}
  BY <1>1 DEF AddressingOK, IpShape, At
<1>4. a \in Addresses \cup {NoAddress}
  <2>1. Free(n) \in SUBSET Nat /\ Free(n) \subseteq Addresses
    BY <1>3, SubnetsAssumption DEF Free
  <2> QED BY <1>3, <2>1, LeastAddress
<1> HIDE DEF a
<1>5. task \in AskTask /\ task.pc = "findExisting" /\ task.was = req[r].was /\ task.subnet = n
      /\ task.addr = a /\ task.status = req[r].status
  BY <1>2, <1>4 DEF AskTask, Before, IpSteps
<1> HIDE DEF task
<1> QED BY <1>1, <1>2, <1>3, <1>4, <1>5, AskGoesOn

\* Neither does looking for the subnet around an address.
LEMMA MatchKept == ASSUME AddressingOK, NEW r \in Requests, Match(r) PROVE AddressingOK'
<1>0. PICK n \in Subnets \cup {NoSubnet} :
         Continue(r, [req[r] EXCEPT !.pc = "findExisting", !.subnet = n])
  BY DEF Match, Around
<1> DEFINE task == [req[r] EXCEPT !.pc = "findExisting", !.subnet = n]
<1>1. At(r, "match") /\ Continue(r, task) /\ UNCHANGED <<subnet, ip>>
  BY <1>0 DEF Match, addressing
<1>2. req[r] \in AskTask /\ req[r].pc \in Before /\ ~At(r, "idle")
  BY <1>1, IpShapes DEF At, Before, IpSteps
<1>3. req[r].status \in Statuses /\ req[r].addr \in Addresses \cup {NoAddress}
  BY <1>1 DEF AddressingOK, IpShape, At
<1>4. task \in AskTask /\ task.pc = "findExisting" /\ task.was = req[r].was /\ task.subnet = n
      /\ task.addr = req[r].addr /\ task.status = req[r].status
  BY <1>2 DEF AskTask, Before, IpSteps
<1> HIDE DEF task
<1> QED BY <1>1, <1>2, <1>3, <1>4, AskGoesOn

\* Nor asking whether the address is taken.
LEMMA FindExistingKept == ASSUME AddressingOK, NEW r \in Requests, FindExisting(r) PROVE AddressingOK'
<1> DEFINE task == [req[r] EXCEPT !.pc = "createIp"]
<1>1. At(r, "findExisting") /\ Continue(r, task) /\ UNCHANGED <<subnet, ip>>
  BY DEF FindExisting, Goto, addressing
<1>2. req[r] \in AskTask /\ req[r].pc \in Before /\ ~At(r, "idle")
  BY <1>1, IpShapes DEF At, Before, IpSteps
<1>3. /\ req[r].subnet \in Subnets \cup {NoSubnet} /\ req[r].status \in Statuses
      /\ req[r].addr \in Addresses \cup {NoAddress}
  BY <1>1 DEF AddressingOK, IpShape, At
<1>4. task \in AskTask /\ task.pc = "createIp" /\ task.was = req[r].was /\ task.subnet = req[r].subnet
      /\ task.addr = req[r].addr /\ task.status = req[r].status
  BY <1>2 DEF AskTask, Before, IpSteps
<1> HIDE DEF task
<1> QED BY <1>1, <1>2, <1>3, <1>4, AskGoesOn

\* The row is vacant, so no subnet counted it.
LEMMA CreateIpKept ==
    ASSUME AddressingOK, NEW r \in Requests, CreateIp(r) PROVE AddressingOK' /\ Settled(r)
<1> DEFINE n == [life |-> "up", addr |-> req[r].addr, subnet |-> req[r].subnet, status |-> req[r].status]
<1>1. /\ At(r, "createIp") /\ UNCHANGED subnet
      /\ ThenSync(r, OneOrNone(req[r].subnet))
  BY DEF CreateIp, OneOrNone
<1>2. PICK i \in Ids : i \in Vacant /\ ip' = [ip EXCEPT ![i] = n]
  BY DEF CreateIp
<1>3. /\ req[r].subnet \in Subnets \cup {NoSubnet} /\ req[r].status \in Statuses
      /\ req[r].addr \in Addresses \cup {NoAddress} /\ req[r].pc \in IpSteps
  BY <1>1 DEF AddressingOK, IpShape, At, IpSteps
<1>4. n \in IpRow /\ n.subnet = req[r].subnet
  BY <1>3, SubnetsAssumption DEF IpRow, Life
<1> HIDE DEF n
<1>5. SubnetsTypeOK'
  BY <1>1, <1>2, <1>4 DEF AddressingOK, SubnetsTypeOK
<1>6. OneOrNone(req[r].subnet) \in Seq(Subnets)
      /\ Pending(OneOrNone(req[r].subnet)) = {req[r].subnet} \ {NoSubnet}
  BY <1>3, PendingOne
<1>7. ASSUME alone[r] PROVE Wrong' \subseteq req[r].was \cup Pending(OneOrNone(req[r].subnet))
  <2>1. ip[i].life # "up"
    BY <1>2 DEF Vacant
  <2>2. Wrong' \subseteq Wrong \cup ({req[r].subnet} \ {NoSubnet})
    BY <1>1, <1>2, <1>4, <2>1, WrongElsewhere DEF AddressingOK
  <2>3. Wrong \subseteq req[r].was
    BY <1>1, <1>7 DEF AddressingOK, IpAlone, At, Before, IpSteps
  <2> QED BY <1>6, <2>2, <2>3
<1>8. PICK order \in Seq(Subnets) : order = OneOrNone(req[r].subnet)
  BY <1>6
<1> QED BY <1>1, <1>3, <1>5, <1>7, <1>8, SyncSettles

\* Reading the row decides which subnets will be recounted.
LEMMA ReadIpKept == ASSUME AddressingOK, NEW r \in Requests, ReadIp(r) PROVE AddressingOK'
<1> DEFINE x == ip[req[r].id]
           step == IF req[r].op = "update" THEN "updateIp" ELSE "deleteIp"
           list == OneOrNone(x.subnet)
           more == req[r].status \notin {Same, x.status}
           task == [req[r] EXCEPT !.pc = step, !.todo = list, !.again = more]
<1>1. At(r, "readIp") /\ Continue(r, task) /\ UNCHANGED <<subnet, ip>>
  BY DEF ReadIp, addressing, OneOrNone
<1>2. req[r] \in AskTask /\ req[r].pc \in Before /\ ~At(r, "idle")
  BY <1>1, IpShapes DEF At, Before, IpSteps
<1>3. req[r].id \in Ids /\ req[r].addr \in Addresses \cup {Same}
  BY <1>1 DEF AddressingOK, IpShape, At
<1>4. list \in Seq(Subnets) /\ step \in {"updateIp", "deleteIp"} /\ more \in BOOLEAN
  BY <1>3, PendingOne DEF AddressingOK, SubnetsTypeOK, IpRow
<1> HIDE DEF list, step, more
<1>5. task \in AskTask /\ task.pc = step /\ task.was = req[r].was /\ task.todo = list
      /\ task.addr = req[r].addr /\ task.id = req[r].id
  BY <1>2, <1>4 DEF AskTask, Before, IpSteps
<1>6. task.todo = OneOrNone(ip[task.id].subnet)
  BY <1>5 DEF list
<1> HIDE DEF task
<1> QED BY <1>1, <1>2, <1>3, <1>4, <1>5, <1>6, AskGoesOn

\* An update makes wrong no counters but those of the subnet before and the subnet after.
LEMMA UpdateIpKept ==
    ASSUME AddressingOK, NEW r \in Requests, UpdateIp(r) PROVE AddressingOK' /\ Settled(r)
<1>0. PICK i, x, n : /\ i = req[r].id /\ x = ip[i]
                     /\ n = [x EXCEPT !.addr = Changed(@, req[r].addr),
                                      !.subnet = Changed(@, req[r].subnet),
                                      !.status = Changed(@, req[r].status)]
  OBVIOUS
<1>1. /\ At(r, "updateIp") /\ UNCHANGED subnet /\ x.life = "up"
      /\ ip' = [ip EXCEPT ![i] = n]
      /\ ThenSync(r, Resync(req[r].todo, n.subnet, req[r].again))
  BY <1>0 DEF UpdateIp
<1>2. req[r] \in AskTask /\ i \in Ids /\ req[r].addr \in Addresses \cup {Same}
  BY <1>0, <1>1, IpShapes DEF AddressingOK, IpShape, At, Before, IpSteps
<1>3. x \in IpRow
  BY <1>0, <1>2 DEF AddressingOK, SubnetsTypeOK
<1>4. /\ Changed(x.addr, req[r].addr) \in Addresses \cup {NoAddress}
      /\ Changed(x.subnet, req[r].subnet) \in Subnets \cup {NoSubnet}
      /\ Changed(x.status, req[r].status) \in Status
  BY <1>2, <1>3, SubnetsAssumption DEF Changed, IpRow, AskTask
<1>5. n \in IpRow
  <2>1. n = [life |-> x.life, addr |-> Changed(x.addr, req[r].addr),
             subnet |-> Changed(x.subnet, req[r].subnet), status |-> Changed(x.status, req[r].status)]
    BY <1>0, <1>3 DEF IpRow
  <2> QED BY <1>3, <1>4, <2>1 DEF IpRow
<1>6. SubnetsTypeOK'
  BY <1>1, <1>2, <1>5 DEF AddressingOK, SubnetsTypeOK
<1>7. PICK order \in Seq(Subnets) :
         /\ order = Resync(req[r].todo, n.subnet, req[r].again)
         /\ Pending(req[r].todo) \cup ({n.subnet} \ {NoSubnet}) \subseteq Pending(order)
  BY <1>2, <1>5, ResyncBoth DEF AskTask, IpRow
<1>8. ASSUME alone[r] PROVE Wrong' \subseteq req[r].was \cup Pending(order)
  <2>1. Wrong \subseteq req[r].was /\ req[r].todo = OneOrNone(x.subnet)
    BY <1>0, <1>1, <1>8 DEF AddressingOK, IpAlone, At, Before, IpSteps
  <2>2. Pending(req[r].todo) = {x.subnet} \ {NoSubnet}
    BY <1>3, <2>1, PendingOne DEF IpRow
  <2>3. x.subnet \in Pending(order) \cup {NoSubnet} /\ n.subnet \in Pending(order) \cup {NoSubnet}
    BY <1>7, <2>2
  <2>4. ip[i].life = "up" => ip[i].subnet \in Pending(order) \cup {NoSubnet}
    BY <1>0, <2>3
  <2>5. PICK S : S = Pending(order)
    OBVIOUS
  <2>6. Wrong' \subseteq Wrong \cup S
    BY <1>1, <1>2, <2>3, <2>4, <2>5, WrongElsewhere DEF AddressingOK
  <2> QED BY <2>1, <2>5, <2>6
<1>9. req[r].pc \in IpSteps
  BY <1>1 DEF At, IpSteps
<1> QED BY <1>1, <1>6, <1>7, <1>8, <1>9, SyncSettles

\* A deletion makes wrong no counters but those of the subnet it was in.
LEMMA DeleteIpKept ==
    ASSUME AddressingOK, NEW r \in Requests, DeleteIp(r) PROVE AddressingOK' /\ Settled(r)
<1>0. PICK i : i = req[r].id
  OBVIOUS
<1>1. /\ At(r, "deleteIp") /\ UNCHANGED subnet /\ ip' = [ip EXCEPT ![i] = NoIp]
      /\ ThenSync(r, req[r].todo)
  BY <1>0 DEF DeleteIp
<1>2. req[r] \in AskTask /\ i \in Ids /\ req[r].pc \in IpSteps
  BY <1>0, <1>1, IpShapes DEF AddressingOK, IpShape, At, Before, IpSteps
<1>3. SubnetsTypeOK'
  BY <1>1, <1>2 DEF AddressingOK, SubnetsTypeOK, NoIp, IpRow, Life, Status
<1>4. PICK order \in Seq(Subnets) : order = req[r].todo
  BY <1>2 DEF AskTask
<1>5. ASSUME alone[r] PROVE Wrong' \subseteq req[r].was \cup Pending(order)
  <2>1. Wrong \subseteq req[r].was /\ order = OneOrNone(ip[i].subnet)
    BY <1>0, <1>1, <1>4, <1>5 DEF AddressingOK, IpAlone, At, Before, IpSteps
  <2>2. Pending(order) = {ip[i].subnet} \ {NoSubnet}
    BY <1>2, <2>1, PendingOne DEF AddressingOK, SubnetsTypeOK, IpRow
  <2>3. ip[i].subnet \in Pending(order) \cup {NoSubnet} /\ NoIp.subnet = NoSubnet
    BY <2>2 DEF NoIp
  <2>4. Wrong' \subseteq Wrong \cup Pending(order)
    BY <1>1, <1>2, <2>3, WrongElsewhere DEF AddressingOK
  <2> QED BY <2>1, <2>4
<1> QED BY <1>1, <1>2, <1>3, <1>4, <1>5, SyncSettles

\* A count is that of the head of the list.
LEMMA CountKept ==
    ASSUME AddressingOK, NEW r \in Requests, CountUsed(r) \/ CountReserved(r) PROVE AddressingOK'
<1> DEFINE s == Head(req[r].todo)
<1>1. At(r, "sync") /\ UNCHANGED <<subnet, ip>>
  BY DEF CountUsed, CountReserved, addressing
<1>2. req[r] \in SyncTask /\ req[r].todo # <<>> /\ ~At(r, "idle")
  BY <1>1, IpShapes DEF AddressingOK, IpShape, At, IpSteps
<1>3. Count(s, "ASSIGNED") \in Counts /\ Count(s, "RESERVED") \in Counts
  BY CountType DEF Counts
<1>4. PICK task \in SyncTask :
         /\ Continue(r, task) /\ task.pc = "sync" /\ task.todo = req[r].todo /\ task.was = req[r].was
         /\ task.used \in {req[r].used, Count(s, "ASSIGNED")}
         /\ task.reserved \in {req[r].reserved, Count(s, "RESERVED")}
  <2>1. CASE CountUsed(r)
    <3> DEFINE task == [req[r] EXCEPT !.used = Count(s, "ASSIGNED")]
    <3>1. task \in SyncTask
      BY <1>2, <1>3 DEF SyncTask
    <3>2. /\ Continue(r, task) /\ task.pc = "sync" /\ task.todo = req[r].todo /\ task.was = req[r].was
          /\ task.used = Count(s, "ASSIGNED") /\ task.reserved = req[r].reserved
      BY <1>2, <2>1 DEF CountUsed, SyncTask
    <3> QED BY <3>1, <3>2
  <2>2. CASE CountReserved(r)
    <3> DEFINE task == [req[r] EXCEPT !.reserved = Count(s, "RESERVED")]
    <3>1. task \in SyncTask
      BY <1>2, <1>3 DEF SyncTask
    <3>2. /\ Continue(r, task) /\ task.pc = "sync" /\ task.todo = req[r].todo /\ task.was = req[r].was
          /\ task.used = req[r].used /\ task.reserved = Count(s, "RESERVED")
      BY <1>2, <2>2 DEF CountReserved, SyncTask
    <3> QED BY <3>1, <3>2
  <2> QED BY <2>1, <2>2
<1>5. Doing(IpTasks) /\ task \in IpTasks
  BY DEF AddressingOK, IpTasks
<1>6. /\ Doing(IpTasks)' /\ req'[r] = task /\ alone' = alone
      /\ \A q \in Requests \ {r} : req'[q] = req[q] /\ ~alone'[q]
  BY <1>2, <1>4, <1>5, ContinueDoing
<1>7. IpShape(r)'
  BY <1>2, <1>4, <1>6 DEF IpShape, At
<1>8. Wrong' = Wrong /\ \A t, st : Count(t, st)' = Count(t, st)
  BY <1>1 DEF Wrong, Count, Rows
<1>9. ASSUME alone'[r] PROVE IpAlone(r)'
  <2>1. IpAlone(r)
    BY <1>6, <1>9 DEF AddressingOK
  <2>2. /\ Wrong \subseteq task.was \cup Pending(task.todo)
        /\ task.used # NoCount => task.used = Count(Head(task.todo), "ASSIGNED")
        /\ task.reserved # NoCount => task.reserved = Count(Head(task.todo), "RESERVED")
    BY <1>1, <1>4, <2>1 DEF IpAlone, At
  <2>3. task.pc \notin Before /\ task.pc \notin {"updateIp", "deleteIp"}
    BY <1>4 DEF Before
  <2> QED BY <1>6, <1>8, <2>2, <2>3 DEF IpAlone, At
<1>10. SubnetsTypeOK'
  BY <1>1 DEF AddressingOK, SubnetsTypeOK
<1>11. \A q \in Requests \ {r} : IpShape(q)'
  BY <1>6 DEF AddressingOK, IpShape, At
<1> QED BY <1>6, <1>7, <1>9, <1>10, <1>11 DEF AddressingOK

\* A field of a row that is written.
Wrote1(old, new, s, f, v) ==
    /\ new \in [Subnets -> SubnetRow]
    /\ \A t \in Subnets \ {s} : new[t] = old[t]
    /\ \A g \in {"life", "used", "reserved"} : new[s][g] = IF g = f THEN v ELSE old[s][g]

\* One subnet's row replaced by another.
LEMMA RowReplaced ==
    ASSUME NEW old \in [Subnets -> SubnetRow], NEW s \in Subnets, NEW y \in SubnetRow
    PROVE  /\ [old EXCEPT ![s] = y] \in [Subnets -> SubnetRow]
           /\ [old EXCEPT ![s] = y][s] = y
           /\ \A t \in Subnets \ {s} : [old EXCEPT ![s] = y][t] = old[t]
  OBVIOUS

\* One field of a row written: its life,
LEMMA LifeWritten ==
    ASSUME NEW old \in [Subnets -> SubnetRow], NEW s \in Subnets, NEW l \in Life
    PROVE  Wrote1(old, [old EXCEPT ![s].life = l], s, "life", l)
<1>1. PICK x \in SubnetRow : x = old[s]
  OBVIOUS
<1>2. PICK y \in SubnetRow : y = [x EXCEPT !.life = l]
  BY DEF SubnetRow
<1>3. y.life = l /\ y.used = x.used /\ y.reserved = x.reserved
  BY <1>2 DEF SubnetRow
<1>4. [old EXCEPT ![s].life = l] = [old EXCEPT ![s] = y]
  BY <1>1, <1>2
<1> QED BY <1>1, <1>3, <1>4, RowReplaced DEF Wrote1

\* its number of used addresses,
LEMMA UsedWritten ==
    ASSUME NEW old \in [Subnets -> SubnetRow], NEW s \in Subnets, NEW n \in 0 .. MaxIps
    PROVE  Wrote1(old, [old EXCEPT ![s].used = n], s, "used", n)
<1>1. PICK x \in SubnetRow : x = old[s]
  OBVIOUS
<1>2. PICK y \in SubnetRow : y = [x EXCEPT !.used = n]
  BY DEF SubnetRow
<1>3. y.life = x.life /\ y.used = n /\ y.reserved = x.reserved
  BY <1>2 DEF SubnetRow
<1>4. [old EXCEPT ![s].used = n] = [old EXCEPT ![s] = y]
  BY <1>1, <1>2
<1> QED BY <1>1, <1>3, <1>4, RowReplaced DEF Wrote1

\* or its number of reserved ones.
LEMMA ReservedWritten ==
    ASSUME NEW old \in [Subnets -> SubnetRow], NEW s \in Subnets, NEW n \in 0 .. MaxIps
    PROVE  Wrote1(old, [old EXCEPT ![s].reserved = n], s, "reserved", n)
<1>1. PICK x \in SubnetRow : x = old[s]
  OBVIOUS
<1>2. PICK y \in SubnetRow : y = [x EXCEPT !.reserved = n]
  BY DEF SubnetRow
<1>3. y.life = x.life /\ y.used = x.used /\ y.reserved = n
  BY <1>2 DEF SubnetRow
<1>4. [old EXCEPT ![s].reserved = n] = [old EXCEPT ![s] = y]
  BY <1>1, <1>2
<1> QED BY <1>1, <1>3, <1>4, RowReplaced DEF Wrote1

\* Both counters of a row are written, and nothing else.
Counted(old, new, s, u, v) ==
    /\ new \in [Subnets -> SubnetRow]
    /\ new[s].life = old[s].life /\ new[s].used = u /\ new[s].reserved = v
    /\ \A t \in Subnets \ {s} : new[t] = old[t]

\* Both counters of a row written.
LEMMA CountersWritten ==
    ASSUME NEW old \in [Subnets -> SubnetRow], NEW s \in Subnets,
           NEW u \in 0 .. MaxIps, NEW v \in 0 .. MaxIps
    PROVE  Counted(old, [old EXCEPT ![s].used = u, ![s].reserved = v], s, u, v)
<1>0. PICK new : new = [old EXCEPT ![s].used = u, ![s].reserved = v]
  OBVIOUS
<1>1. PICK a : a = [old EXCEPT ![s].used = u]
  OBVIOUS
<1>2. new = [a EXCEPT ![s].reserved = v]
  BY <1>0, <1>1
<1>3. Wrote1(old, a, s, "used", u)
  BY <1>1, UsedWritten
<1>4. a \in [Subnets -> SubnetRow]
  BY <1>3 DEF Wrote1
<1>5. Wrote1(a, [a EXCEPT ![s].reserved = v], s, "reserved", v)
  BY <1>4, ReservedWritten
<1>6. Wrote1(a, new, s, "reserved", v)
  BY <1>2, <1>5
<1>7. Counted(old, new, s, u, v)
  BY <1>3, <1>6 DEF Wrote1, Counted
<1> QED BY <1>0, <1>7

\* The row of a subnet that goes.
LEMMA RowCleared ==
    ASSUME NEW old \in [Subnets -> SubnetRow], NEW s \in Subnets, NEW new,
           new = [old EXCEPT ![s].life = "none", ![s].used = 0, ![s].reserved = 0]
    PROVE  new \in [Subnets -> SubnetRow]
<1>0. 0 \in 0 .. MaxIps /\ "none" \in Life
  BY SubnetsAssumption DEF Life
<1>1. PICK a : a = [old EXCEPT ![s].life = "none"]
  OBVIOUS
<1>2. PICK b : b = [a EXCEPT ![s].used = 0]
  OBVIOUS
<1>3. new = [b EXCEPT ![s].reserved = 0]
  BY <1>1, <1>2
<1>4. a \in [Subnets -> SubnetRow]
  BY <1>0, <1>1, LifeWritten DEF Wrote1
<1>5. b \in [Subnets -> SubnetRow]
  BY <1>0, <1>2, <1>4, UsedWritten DEF Wrote1
<1>6. Wrote1(b, [b EXCEPT ![s].reserved = 0], s, "reserved", 0)
  BY <1>0, <1>5, ReservedWritten
<1> QED BY <1>3, <1>6 DEF Wrote1

\* Counters written by a request that runs alone are right.
LEMMA WriteStatsKept ==
    ASSUME AddressingOK, NEW r \in Requests, WriteStats(r) PROVE AddressingOK' /\ Settled(r)
<1>0. PICK s, u, v : s = Head(req[r].todo) /\ u = req[r].used /\ v = req[r].reserved
  OBVIOUS
<1>1. /\ At(r, "sync") /\ NoCount \notin {u, v} /\ UNCHANGED ip /\ ThenSync(r, Tail(req[r].todo))
      /\ subnet' = IF subnet[s].life = "up"
                   THEN [subnet EXCEPT ![s].used = u, ![s].reserved = v] ELSE subnet
  BY <1>0 DEF WriteStats
<1>2. req[r] \in SyncTask /\ req[r].todo # <<>> /\ req[r].pc \in IpSteps
  BY <1>1, IpShapes DEF AddressingOK, IpShape, At, IpSteps
<1>3. PICK order \in Seq(Subnets) :
         /\ order = Tail(req[r].todo) /\ s \in Subnets
         /\ Pending(req[r].todo) \subseteq {s} \cup Pending(order)
  BY <1>0, <1>2, PendingTail DEF SyncTask
<1>4. u \in 0 .. MaxIps /\ v \in 0 .. MaxIps
  BY <1>0, <1>1, <1>2 DEF SyncTask, Counts
<1>5. subnet \in [Subnets -> SubnetRow] /\ ip \in [Ids -> IpRow]
  BY DEF AddressingOK, SubnetsTypeOK
<1>6. PICK x \in SubnetRow : x = subnet[s]
  BY <1>3, <1>5
<1>7. /\ subnet' \in [Subnets -> SubnetRow] /\ subnet'[s].life = x.life
      /\ x.life = "up" => subnet'[s].used = u /\ subnet'[s].reserved = v
      /\ \A t \in Subnets \ {s} : subnet'[t] = subnet[t]
  <2>1. CASE x.life = "up"
    <3>1. subnet[s].life = "up"
      BY <1>6, <2>1
    <3>2. PICK new : new = subnet' /\ new = [subnet EXCEPT ![s].used = u, ![s].reserved = v]
      BY <1>1, <3>1
    <3>3. Counted(subnet, [subnet EXCEPT ![s].used = u, ![s].reserved = v], s, u, v)
      BY <1>3, <1>4, <1>5, CountersWritten
    <3>4. Counted(subnet, new, s, u, v)
      BY <3>2, <3>3
    <3> QED BY <2>1, <3>1, <3>2, <3>4 DEF Counted
  <2>2. CASE x.life # "up"
    BY <1>1, <1>5, <1>6, <2>2
  <2> QED BY <2>1, <2>2
<1>8. SubnetsTypeOK'
  BY <1>1, <1>5, <1>7 DEF SubnetsTypeOK
<1>9. ASSUME alone[r] PROVE Wrong' \subseteq req[r].was \cup Pending(order)
  <2>1. Wrong \subseteq req[r].was \cup Pending(req[r].todo)
        /\ u = Count(s, "ASSIGNED") /\ v = Count(s, "RESERVED")
    BY <1>0, <1>1, <1>9 DEF AddressingOK, IpAlone, At
  <2>2. \A t, st : Count(t, st)' = Count(t, st)
    BY <1>1 DEF Count, Rows
  <2>3. Wrong' \subseteq Wrong \cup {s}
    BY <1>7, <2>2 DEF Wrong
  <2>4. s \notin Wrong'
    BY <1>3, <1>7, <2>1, <2>2 DEF Wrong
  <2> QED BY <1>3, <2>1, <2>3, <2>4
<1> QED BY <1>1, <1>2, <1>3, <1>8, <1>9, SyncSettles

\* A recount that fails is logged, and the request was not undisturbed.
LEMMA SyncFailsKept == ASSUME AddressingOK, NEW r \in Requests, SyncFails(r) PROVE AddressingOK'
<1>1. /\ At(r, "sync") /\ UNCHANGED <<subnet, ip>>
      /\ req' = [req EXCEPT ![r] = Syncing(r, Tail(req[r].todo))]
      /\ alone' = [alone EXCEPT ![r] = FALSE]
  BY DEF SyncFails, addressing
<1>2. req[r] \in SyncTask /\ req[r].todo # <<>> /\ req[r].pc \in IpSteps
  BY <1>1, IpShapes DEF AddressingOK, IpShape, At, IpSteps
<1>3. PICK order \in Seq(Subnets) : order = Tail(req[r].todo)
  BY <1>2, PendingTail DEF SyncTask
<1>4. ~alone'[r] /\ SubnetsTypeOK'
  BY <1>1 DEF AddressingOK, Doing, SubnetsTypeOK
<1> QED BY <1>1, <1>2, <1>3, <1>4, SyncGoesOn

\* A request that is refused is over, and one that is a single statement leaves none alone.
LEMMA IpOver ==
    ASSUME AddressingOK, SubnetsTypeOK', Instant \/ \E r \in Requests : ~At(r, "idle") /\ Finish(r)
    PROVE  AddressingOK'
<1>1. Doing(IpTasks) /\ Idle \in IpTasks
  BY DEF AddressingOK, IpTasks
<1>2. Doing(IpTasks)' /\ \A q \in Requests : ~alone'[q]
  BY <1>1, FinishDoing, InstantDoing
<1>3. \A q \in Requests : req'[q] \in {req[q], Idle}
  BY <1>1, FinishDoing DEF Instant
<1>4. \A q \in Requests : IpShape(q)'
  BY <1>3 DEF AddressingOK, IpShape, At, Idle
<1> QED BY <1>2, <1>4 DEF AddressingOK

\* A refusal and the rows of subnets themselves make no request's promise wrong.
LEMMA SubnetRowsKept ==
    ASSUME AddressingOK,
           \/ \E r \in Requests : RefuseIp(r)
           \/ \E s \in Subnets : DeleteSubnet(s) \/ \E n \in 0 .. 1 : CreateSubnet(s, n)
    PROVE  AddressingOK'
<1>0. subnet \in [Subnets -> SubnetRow] /\ ip \in [Ids -> IpRow]
  BY DEF AddressingOK, SubnetsTypeOK
<1>1. ASSUME NEW r \in Requests, RefuseIp(r) PROVE AddressingOK'
  <2>1. SubnetsTypeOK' /\ ~At(r, "idle") /\ Finish(r)
    BY <1>0, <1>1 DEF RefuseIp, addressing, SubnetsTypeOK, At, IpSteps
  <2> QED BY <2>1, IpOver
<1>2. ASSUME NEW s \in Subnets, DeleteSubnet(s) PROVE AddressingOK'
  <2>1. subnet' \in [Subnets -> SubnetRow]
    <3>1. PICK new : new = subnet' /\ new = [subnet EXCEPT ![s].life = "none", ![s].used = 0, ![s].reserved = 0]
      BY <1>2 DEF DeleteSubnet
    <3> QED BY <1>0, <3>1, RowCleared
  <2>2. \A x \in IpRow : [x EXCEPT !.subnet = NoSubnet] \in IpRow
    BY DEF IpRow
  <2>3. SubnetsTypeOK' /\ Instant
    BY <1>0, <1>2, <2>1, <2>2 DEF DeleteSubnet, SubnetsTypeOK
  <2> QED BY <2>3, IpOver
<1>3. ASSUME NEW s \in Subnets, NEW n \in 0 .. 1, CreateSubnet(s, n) PROVE AddressingOK'
  <2>1. [life |-> "up", used |-> 0, reserved |-> n] \in SubnetRow
    BY SubnetsAssumption DEF SubnetRow, Life
  <2>2. SubnetsTypeOK' /\ Instant
    BY <1>0, <1>3, <2>1 DEF CreateSubnet, SubnetsTypeOK
  <2> QED BY <2>2, IpOver
<1> QED BY <1>1, <1>2, <1>3

\* Every step of the addresses keeps the invariant.
LEMMA SubnetsStep == AddressingOK /\ SubnetsNext => AddressingOK'
<1> SUFFICES ASSUME AddressingOK, SubnetsNext PROVE AddressingOK'
  OBVIOUS
<1>1. ASSUME NEW r \in Requests, IpStatement(r) PROVE AddressingOK'
  BY <1>1, ReadSubnetKept, MatchKept, FindExistingKept, CreateIpKept, ReadIpKept, UpdateIpKept,
     DeleteIpKept, CountKept, WriteStatsKept, SyncFailsKept DEF IpStatement
<1> QED BY <1>1, IpBegins, SubnetRowsKept DEF SubnetsNext
-----------------------------------------------------------------------------
(* The network.                                                            *)

\* The parts together.
NetworkOK ==
    /\ area \in {"links", "racks", "addressing"}
    /\ area = "links" => LinksOK
    /\ area = "racks" => RacksOK
    /\ area = "addressing" => AddressingOK
    /\ TypeOK

\* It holds in every state.
LEMMA NetworkAlways == Spec => []NetworkOK
<1>1. Init => NetworkOK
  <2> SUFFICES ASSUME Init PROVE NetworkOK
    OBVIOUS
  <2>1. ASSUME NEW Tasks, Idle \in Tasks PROVE Doing(Tasks)
    BY <2>1 DEF Init, HandlersInit, Doing
  <2>2. Doing(LinkTasks) /\ Doing(MountTasks) /\ Doing(IpTasks)
    BY <2>1 DEF LinkTasks, MountTasks, IpTasks
  <2>3. \A r \in Requests : req[r] = Idle /\ ~alone[r] /\ req[r].pc = "idle"
    BY DEF Init, HandlersInit, Idle
  <2>4. DOMAIN Empty = {} /\ Empty = [o \in DOMAIN Empty |-> Empty[o]]
    BY DEF Empty
  <2>5. LinksTypeOK /\ MineOK
    <3>1. \A r \in Requests : mine[r] = Empty
      BY DEF Init, LinksInit
    <3>2. LinksTypeOK
      BY <2>4, <3>1 DEF Init, LinksInit, LinksTypeOK, NoRow, PortRow, Life
    <3>3. mine = [r \in Requests |-> mine[r]]
      BY DEF Init, LinksInit
    <3> QED BY <2>4, <3>1, <3>2, <3>3 DEF MineOK
  <2>6. TablesOK
    <3>1. \A r \in Requests, p \in Ports : Row(r, p) = NoRow
      BY <2>4 DEF Init, LinksInit, Row
    <3>2. Apart(port) /\ \A r \in Requests : Apart(View(r))
      BY <3>1, PortsAssumption DEF Init, LinksInit, Apart, View, NoRow
    <3> QED BY <2>5, <3>2 DEF TablesOK
  <2>7. LinksOK
    <3>1. \A r \in Requests : LinkShape(r)
      BY <2>3, <2>4 DEF Init, LinksInit, LinkShape
    <3> QED BY <2>2, <2>3, <2>6, <3>1 DEF LinksOK
  <2>8. RacksTypeOK
    <3>1. Nowhere \in Place
      BY RacksAssumption DEF Nowhere, Place
    <3> QED BY <3>1 DEF Init, RacksInit, RacksTypeOK, MountRow, Life
  <2>9. SubnetsTypeOK
    BY SubnetsAssumption DEF Init, SubnetsInit, SubnetsTypeOK, NoIp, SubnetRow, IpRow, Life, Status
  <2>10. RacksOK
    BY <2>2, <2>3, <2>8 DEF RacksOK
  <2>11. AddressingOK
    BY <2>2, <2>3, <2>9 DEF AddressingOK, IpShape, At
  <2> QED BY <2>5, <2>7, <2>8, <2>9, <2>10, <2>11, NetworkAssumption DEF Init, NetworkOK, TypeOK
<1>2. NetworkOK /\ [Next]_vars => NetworkOK'
  <2> SUFFICES ASSUME NetworkOK, [Next]_vars PROVE NetworkOK'
    OBVIOUS
  <2>1. ASSUME UNCHANGED links PROVE LinksTypeOK'
    BY <2>1 DEF NetworkOK, TypeOK, LinksTypeOK, links
  <2>2. ASSUME UNCHANGED racks PROVE RacksTypeOK'
    BY <2>2 DEF NetworkOK, TypeOK, RacksTypeOK, racks
  <2>3. ASSUME UNCHANGED addressing PROVE SubnetsTypeOK'
    BY <2>3 DEF NetworkOK, TypeOK, SubnetsTypeOK, addressing
  <2>4. CASE area = "links" /\ LinksNext /\ UNCHANGED <<racks, addressing, area>>
    <3>1. LinksOK'
      BY <2>4, LinksStep DEF NetworkOK
    <3> QED BY <2>2, <2>3, <2>4, <3>1 DEF NetworkOK, TypeOK, LinksOK, TablesOK
  <2>5. CASE area = "racks" /\ RacksNext /\ UNCHANGED <<links, addressing, area>>
    <3>1. RacksOK'
      BY <2>5, RacksStep DEF NetworkOK
    <3> QED BY <2>1, <2>3, <2>5, <3>1 DEF NetworkOK, TypeOK, RacksOK
  <2>6. CASE area = "addressing" /\ SubnetsNext /\ UNCHANGED <<links, racks, area>>
    <3>1. AddressingOK'
      BY <2>6, SubnetsStep DEF NetworkOK
    <3> QED BY <2>1, <2>2, <2>6, <3>1 DEF NetworkOK, TypeOK, AddressingOK
  <2>7. CASE UNCHANGED vars
    <3>1. UNCHANGED <<req, alone, switch, port, mine, rack, mount, subnet, ip, area>>
      BY <2>7 DEF vars, handlers, links, racks, addressing
    <3>2. LinksOK => LinksOK'
      <4>1. TablesOK => TablesOK'
        BY <3>1 DEF TablesOK, LinksTypeOK, MineOK, Apart, View, Row
      <4>2. \A r \in Requests : (LinkShape(r) => LinkShape(r)') /\ (LinkAlone(r) => LinkAlone(r)')
        BY <3>1 DEF LinkShape, LinkAlone, LetGo, Ends, Row, At
      <4> QED BY <3>1, <4>1, <4>2 DEF LinksOK, Doing, At
    <3>3. RacksOK => RacksOK'
      BY <3>1 DEF RacksOK, RacksTypeOK, MountAlone, Goal, InTheWay, Doing, At
    <3>4. AddressingOK => AddressingOK'
      <4>1. Wrong' = Wrong /\ \A s, st : Count(s, st)' = Count(s, st)
        BY <3>1 DEF Wrong, Count, Rows
      <4>2. \A r \in Requests : IpShape(r) => IpShape(r)'
        BY <3>1 DEF IpShape, At
      <4>3. \A r \in Requests : IpAlone(r) => IpAlone(r)'
        BY <3>1, <4>1 DEF IpAlone, At
      <4> QED BY <3>1, <4>2, <4>3 DEF AddressingOK, SubnetsTypeOK, Doing, At
    <3> QED BY <2>1, <2>2, <2>3, <3>1, <3>2, <3>3, <3>4
            DEF NetworkOK, TypeOK, links, racks, addressing
  <2> QED BY <2>4, <2>5, <2>6, <2>7 DEF Next
<1> QED BY <1>1, <1>2, PTL DEF Spec

\* The rows of the network are what they should be.
THEOREM TypesCorrect == Spec => []TypeOK
<1>1. NetworkOK => TypeOK
  BY DEF NetworkOK
<1> QED BY <1>1, NetworkAlways, PTL

\* The steps of a part are those of its requests.
LEMMA StepsOfParts ==
    ASSUME NetworkOK, NEW r \in Requests
    PROVE  /\ req[r].pc \in {"linkSource", "linkTarget", "last"} => area = "links"
           /\ At(r, "writeMount") => area = "racks"
           /\ req[r].pc \in {"createIp", "updateIp", "deleteIp", "sync"} => area = "addressing"
<1>1. CASE area = "links"
  <2>1. req[r] \in LinkTasks
    BY <1>1 DEF NetworkOK, LinksOK, Doing
  <2> QED BY <1>1, <2>1 DEF LinkTasks, LinkTask, Idle, At
<1>2. CASE area = "racks"
  <2>1. req[r] \in MountTasks
    BY <1>2 DEF NetworkOK, RacksOK, Doing
  <2> QED BY <1>2, <2>1 DEF MountTasks, CreateTask, UpdateTask, RackTask, Idle, At
<1>3. CASE area = "addressing"
  <2>1. req[r] \in IpTasks
    BY <1>3 DEF NetworkOK, AddressingOK, Doing
  <2> QED BY <1>3, <2>1 DEF IpTasks, AskTask, SyncTask, Before, IpSteps, Idle, At
<1> QED BY <1>1, <1>2, <1>3 DEF NetworkOK

\* A link that no other request overlapped is refused by no unique index: the evictions of
\* createTopologyLink clear all that the index would refuse.
THEOREM LinkNeverRefused == Spec => []AloneNeverRefused
<1>1. NetworkOK => AloneNeverRefused
  <2> SUFFICES ASSUME NetworkOK PROVE AloneNeverRefused
    OBVIOUS
  <2>1. CASE area = "links"
    BY <2>1, LinksNotRefused DEF NetworkOK
  <2>2. CASE area # "links"
    BY <2>2, StepsOfParts DEF AloneNeverRefused, At
  <2> QED BY <2>1, <2>2
<1> QED BY <1>1, NetworkAlways, PTL

\* A request that no other overlapped leaves no half cable that was not there
\* (createTopologyLink, deleteTopologyLink).
THEOREM LinksBothPorts == Spec => AloneLinksBothEnds
<1>1. ASSUME NetworkOK, NEW r \in Requests, alone[r], LinkTarget(r) \/ ConnectEndpoint(r)
      PROVE  Dangling' \subseteq Dangling
  <2>1. area = "links"
    BY <1>1, StepsOfParts DEF LinkTarget, ConnectEndpoint, At
  <2> QED BY <1>1, <2>1, LinksBothEnds DEF NetworkOK
<1>2. NetworkOK
      => [\A r \in Requests :
            alone[r] /\ (LinkTarget(r) \/ ConnectEndpoint(r))
            => Dangling' \subseteq Dangling]_<<links, handlers>>
  BY <1>1
<1> QED BY <1>2, NetworkAlways, PTL DEF AloneLinksBothEnds

\* A switch that is mounted by a request that no other overlapped collides with none and
\* fits its rack (createSwitch, updateSwitch, validateRackMount).
THEOREM MountsWithoutCollision == Spec => AloneMountsFree
<1>1. ASSUME NetworkOK, NEW r \in Requests, alone[r], WriteMount(r)
      PROVE  /\ Overlaps' \subseteq Overlaps
             /\ \A d \in {req[r].dev} : \A w \in {req[r].wish} :
                   (\E f \in DOMAIN w : w[f] # Keep) =>
                   \A u \in Units(d)' : u[2] \in 1 .. RackHeight
  <2>1. area = "racks"
    BY <1>1, StepsOfParts DEF WriteMount
  <2> QED BY <1>1, <2>1, MountsFree DEF NetworkOK
<1>2. NetworkOK
      => [\A r \in Requests : alone[r] /\ WriteMount(r)
            => /\ Overlaps' \subseteq Overlaps
               /\ \A d \in {req[r].dev} : \A w \in {req[r].wish} :
                     (\E f \in DOMAIN w : w[f] # Keep) =>
                     \A u \in Units(d)' : u[2] \in 1 .. RackHeight]_<<racks, handlers>>
  BY <1>1
<1> QED BY <1>2, NetworkAlways, PTL DEF AloneMountsFree

\* A request that no other overlapped and that did not fail leaves no counter of a subnet
\* wrong that was right (createIp, updateIp, deleteIp, syncSubnetStats).
THEOREM CountersSettle == Spec => AloneSyncs
<1>1. ASSUME NetworkOK, NEW r \in Requests, alone[r],
             WriteStats(r) \/ UpdateIp(r) \/ DeleteIp(r) \/ CreateIp(r), At(r, "idle")'
      PROVE  \A was \in {req[r].was} : Wrong' \subseteq was
  <2>1. area = "addressing"
    BY <1>1, StepsOfParts DEF WriteStats, UpdateIp, DeleteIp, CreateIp, At
  <2>2. AddressingOK
    BY <1>1, <2>1 DEF NetworkOK
  <2>3. Settled(r)
    BY <1>1, <2>2, WriteStatsKept, UpdateIpKept, DeleteIpKept, CreateIpKept
  <2> QED BY <1>1, <2>3 DEF Settled
<1>2. NetworkOK
      => [\A r \in Requests :
            /\ alone[r] /\ (WriteStats(r) \/ UpdateIp(r) \/ DeleteIp(r) \/ CreateIp(r))
            /\ At(r, "idle")'
            => \A was \in {req[r].was} : Wrong' \subseteq was]_<<addressing, handlers>>
  BY <1>1
<1> QED BY <1>2, NetworkAlways, PTL DEF AloneSyncs
===============================================================================
