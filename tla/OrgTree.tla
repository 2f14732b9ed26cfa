------------------------------- MODULE OrgTree --------------------------------
(***************************************************************************)
(* Organizations and their parents: OrganizationService.createOrganization, *)
(* updateOrganization, deleteOrganization and getHierarchyTree             *)
(* (apps/api/src/modules/organization/organization.service.ts).            *)
(*                                                                         *)
(* updateOrganization climbs from the new parent, one read at a time, and  *)
(* refuses to go on when it meets the organization itself; then it writes. *)
(***************************************************************************)
EXTENDS Handlers, FiniteSets, Naturals

CONSTANTS Orgs, NoOrg

ASSUME OrgTreeAssumption ==
    NoOrg \notin Orgs /\ IsFiniteSet(Orgs) /\ Cardinality(Orgs) <= 50

VARIABLE org    \* Organization rows: parentId

OrgRow == [life : Life, parent : Orgs \cup {NoOrg}]
NoOrgRow == [life |-> "none", parent |-> NoOrg]

\* current: the organization that is looked at next; visited: those that were.
MoveTask == [pc : {"read", "climb", "move"}, id : Orgs, parent : Orgs \cup {NoOrg},
             current : Orgs \cup {NoOrg}, visited : SUBSET Orgs]
DeleteOrgTask == [pc : {"delete"}, id : Orgs]
OrgTask == {Idle} \cup MoveTask \cup DeleteOrgTask

OrgTreeTypeOK ==
    /\ org \in [Orgs -> OrgRow]
    /\ \A o \in Orgs : org[o].parent # NoOrg => org[org[o].parent].life = "up"

OrgTreeInit == org = [o \in Orgs |-> NoOrgRow]

Existing == {o \in Orgs : org[o].life = "up"}
KnowsOrg(r, o) ==
    \/ req[r] \in MoveTask \cup DeleteOrgTask /\ o = req[r].id
    \/ req[r] \in MoveTask /\ o \in {req[r].parent, req[r].current} \cup req[r].visited

OrgAbort(r) ==
    /\ ~At(r, "idle")
    /\ Finish(r)
    /\ UNCHANGED org
-----------------------------------------------------------------------------
CreateOrg(o, p) ==
    /\ o \notin Existing /\ p \in Existing \cup {NoOrg}
    /\ \A r \in Requests : ~KnowsOrg(r, o)
    /\ org' = [org EXCEPT ![o] = [life |-> "up", parent |-> p]]
    /\ Instant

StartMove(r, o, p) ==
    /\ o # p
    /\ Begin(r, [pc |-> "read", id |-> o, parent |-> p, current |-> NoOrg, visited |-> {}])
    /\ UNCHANGED org

FindOrg(r) ==
    /\ At(r, "read") /\ req[r].id \in Existing
    /\ Continue(r, [req[r] EXCEPT !.pc = IF req[r].parent = NoOrg THEN "move" ELSE "climb",
                                  !.current = req[r].parent])
    /\ UNCHANGED org

\* Mutant of Climb: only the new parent is looked at.
ClimbOnce(r) ==
    /\ At(r, "climb")
    /\ req[r].current # req[r].id
    /\ Continue(r, [req[r] EXCEPT !.pc = "move", !.current = NoOrg, !.visited = {}])
    /\ UNCHANGED org

\* One turn of the loop.  It stops above the last ancestor, or where it has been.
Climb(r) ==
    /\ At(r, "climb")
    /\ LET t == req[r]
       IN  /\ t.current # t.id
           /\ IF t.current = NoOrg \/ t.current \in t.visited
              THEN Continue(r, [t EXCEPT !.pc = "move", !.current = NoOrg, !.visited = {}])
              ELSE Continue(r, [t EXCEPT !.current = org[t.current].parent,
                                         !.visited = @ \cup {t.current}])
    /\ UNCHANGED org

\* The foreign key accepts the parent.
Move(r) ==
    /\ At(r, "move")
    /\ req[r].id \in Existing /\ req[r].parent \in Existing \cup {NoOrg}
    /\ org' = [org EXCEPT ![req[r].id].parent = req[r].parent]
    /\ Finish(r)

StartDeleteOrg(r, o) ==
    /\ o \in Existing
    /\ Begin(r, [pc |-> "delete", id |-> o])
    /\ UNCHANGED org

\* Mutant of DeleteOrg: its children keep their parent.
DeleteOrgAlone(r) ==
    /\ At(r, "delete") /\ req[r].id \in Existing
    /\ org' = [org EXCEPT ![req[r].id] = NoOrgRow]
    /\ Finish(r)

\* Its children become roots (SetNull).
DeleteOrg(r) ==
    /\ At(r, "delete") /\ req[r].id \in Existing
    /\ org' = [o \in Orgs |-> IF o = req[r].id THEN NoOrgRow
                              ELSE IF org[o].parent = req[r].id
                              THEN [org[o] EXCEPT !.parent = NoOrg] ELSE org[o]]
    /\ Finish(r)

OrgTreeNext ==
    \/ \E o \in Orgs, p \in Orgs \cup {NoOrg} : CreateOrg(o, p)
    \/ \E r \in Requests :
          \/ \E o \in Orgs, p \in Orgs \cup {NoOrg} : StartMove(r, o, p)
          \/ \E o \in Orgs : StartDeleteOrg(r, o)
          \/ FindOrg(r) \/ Climb(r) \/ Move(r) \/ DeleteOrg(r) \/ OrgAbort(r)
-----------------------------------------------------------------------------
(* getHierarchyTree, of the rows as they are.  It reads 50 of them at     *)
(* most: Orgs are no more than that.                                      *)

Depth == 0 .. Cardinality(Orgs)

\* The organization n steps above o.
Above(o, n) ==
    LET up[k \in Depth] == IF k = 0 THEN o
                           ELSE LET below == up[k - 1]
                                IN  IF below = NoOrg THEN NoOrg ELSE org[below].parent
    IN  up[n]

\* Mutant of IsCyclic: only the parent is looked at.
IsCyclicParent(o) == Above(o, 2) = o

\* The walk up from o comes to an organization for the second time.
IsCyclic(o) == \A n \in Depth : Above(o, n) # NoOrg

\* The organization under which o is shown; NoOrg for one that is shown at the top.
ShownUnder(o) == IF org[o].parent = NoOrg \/ IsCyclic(o) THEN NoOrg ELSE org[o].parent

\* The organizations that the answer shows: those below the top ones.
ShownAt ==
    LET under == [o \in Existing |-> ShownUnder(o)]
        at[n \in Depth] == LET above == IF n = 0 THEN {NoOrg} ELSE at[n - 1]
                           IN  {o \in Existing : under[o] \in above}
    IN  at
-----------------------------------------------------------------------------
(* Properties.                                                             *)

\* The parents of an organization, its parents' and so on.
Ancestors(o) == {Above(o, n) : n \in Depth \ {0}} \ {NoOrg}
OnCycle == {o \in Existing : o \in Ancestors(o)}

\* Two moves that race can put two organizations below each other; one that no other
\* request overlapped makes no organization its own ancestor, whatever was wrong before.
AloneMakesNoCycle ==
    [][\A r \in Requests : alone[r] /\ Move(r) => OnCycle' \subseteq OnCycle]_<<org, handlers>>

\* The tree shows every organization, those on a cycle and below one too.
TreeShowsAll == Existing = UNION {ShownAt[n] : n \in Depth}
===============================================================================
