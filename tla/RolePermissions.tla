--------------------------- MODULE RolePermissions ---------------------------
(***************************************************************************)
(* Roles, what they permit and who has them: create, update, clone,        *)
(* syncPermissions and remove of RolesService                              *)
(* (apps/api/src/modules/roles/roles.service.ts) and the role that         *)
(* UsersService writes.  Permissions are replaced by a deleteMany and a    *)
(* createMany that no transaction holds together.  The names of roles, and *)
(* the roles that only their name protects, are left out.                  *)
(***************************************************************************)
EXTENDS Handlers

CONSTANTS Roles, Permissions, Users, NoRole

ASSUME RolesAssumption == NoRole \notin Roles

VARIABLES
    role,         \* Role rows
    permission,   \* RolePermission rows: what each role permits
    roleOf        \* AppUser.roleId

roles == <<role, permission, roleOf>>

\* asked: the permissions that the role is to have; source: the role it is cloned from.
CreateTask == [pc : {"create"}, asked : SUBSET Permissions, source : Roles \cup {NoRole}]
SaveTask == [pc : {"rename", "revoke", "grant"}, id : Roles, asked : SUBSET Permissions,
             source : Roles \cup {NoRole}]
RemoveTask == [pc : {"strip", "delete"}, id : Roles]
RoleTask == {Idle} \cup CreateTask \cup SaveTask \cup RemoveTask

LiveRoles == {k \in Roles : role[k] = "up"}

RolesTypeOK ==
    /\ role \in [Roles -> Life]
    /\ permission \in [Roles -> SUBSET Permissions]
    /\ \A k \in Roles \ LiveRoles : permission[k] = {}
    /\ roleOf \in [Users -> LiveRoles \cup {NoRole}]

RolesInit ==
    /\ role = [k \in Roles |-> "none"]
    /\ permission = [k \in Roles |-> {}]
    /\ roleOf = [u \in Users |-> NoRole]

KnowsRole(r, k) ==
    \/ req[r] \in SaveTask \cup RemoveTask /\ k = req[r].id
    \/ req[r] \in CreateTask \cup SaveTask /\ k = req[r].source

\* The call throws, at any of its statements, or a statement fails.
RoleAbort(r) ==
    /\ ~At(r, "idle")
    /\ Finish(r)
    /\ UNCHANGED roles
-----------------------------------------------------------------------------
(* create, clone: the row, then its permissions.                           *)

StartCreateRole(r, ps) ==
    /\ Begin(r, [pc |-> "create", asked |-> ps, source |-> NoRole])
    /\ UNCHANGED roles

StartClone(r, k) ==
    /\ k \in LiveRoles
    /\ Begin(r, [pc |-> "create", asked |-> permission[k], source |-> k])
    /\ UNCHANGED roles

CreateRole(r, k) ==
    /\ At(r, "create") /\ k \notin LiveRoles
    /\ \A q \in Requests : ~KnowsRole(q, k)
    /\ role' = [role EXCEPT ![k] = "up"]
    /\ UNCHANGED <<permission, roleOf>>
    /\ IF req[r].asked = {} THEN Finish(r)
       ELSE Continue(r, [pc |-> "grant", id |-> k, asked |-> req[r].asked,
                         source |-> req[r].source])
-----------------------------------------------------------------------------
(* update, syncPermissions.                                                *)

\* syncPermissions does not write the role itself.  An update without permissions
\* writes nothing but its name.
StartSave(r, k, ps, step) ==
    /\ k \in LiveRoles /\ step \in {"rename", "revoke"}
    /\ Begin(r, [pc |-> step, id |-> k, asked |-> ps, source |-> NoRole])
    /\ UNCHANGED roles

Rename(r) ==
    /\ At(r, "rename") /\ req[r].id \in LiveRoles
    /\ Goto(r, "revoke")
    /\ UNCHANGED roles

\* Mutant of Revoke: the permissions that are not asked for stay.
RevokeNothing(r) ==
    /\ At(r, "revoke")
    /\ UNCHANGED roles
    /\ IF req[r].asked = {} THEN Finish(r) ELSE Goto(r, "grant")

\* deleteMany: it minds no role that is gone.
Revoke(r) ==
    /\ At(r, "revoke")
    /\ permission' = [permission EXCEPT ![req[r].id] = {}]
    /\ UNCHANGED <<role, roleOf>>
    /\ IF req[r].asked = {} THEN Finish(r) ELSE Goto(r, "grant")

\* createMany with skipDuplicates; the foreign key wants the role.
Grant(r) ==
    /\ At(r, "grant") /\ req[r].id \in LiveRoles
    /\ permission' = [permission EXCEPT ![req[r].id] = @ \cup req[r].asked]
    /\ UNCHANGED <<role, roleOf>>
    /\ Finish(r)
-----------------------------------------------------------------------------
(* remove; and the role of a user (UsersService.create, update).           *)

StartRemoveRole(r, k) ==
    /\ k \in LiveRoles /\ \A u \in Users : roleOf[u] # k
    /\ Begin(r, [pc |-> "strip", id |-> k])
    /\ UNCHANGED roles

Strip(r) ==
    /\ At(r, "strip")
    /\ permission' = [permission EXCEPT ![req[r].id] = {}]
    /\ UNCHANGED <<role, roleOf>>
    /\ Goto(r, "delete")

\* Its permissions go with it (Cascade), and its users have none (SetNull).
DeleteRole(r) ==
    /\ At(r, "delete") /\ req[r].id \in LiveRoles
    /\ role' = [role EXCEPT ![req[r].id] = "none"]
    /\ permission' = [permission EXCEPT ![req[r].id] = {}]
    /\ roleOf' = [u \in Users |-> IF roleOf[u] = req[r].id THEN NoRole ELSE roleOf[u]]
    /\ Finish(r)

AssignRole(u, k) ==
    /\ k \in (LiveRoles \cup {NoRole}) \ {roleOf[u]}
    /\ roleOf' = [roleOf EXCEPT ![u] = k]
    /\ UNCHANGED <<role, permission>>
    /\ Instant

RolesNext ==
    \/ \E r \in Requests :
          \/ \E ps \in SUBSET Permissions : StartCreateRole(r, ps)
          \/ \E k \in Roles :
                \/ StartClone(r, k) \/ CreateRole(r, k) \/ StartRemoveRole(r, k)
                \/ \E ps \in SUBSET Permissions, step \in {"rename", "revoke"} :
                      StartSave(r, k, ps, step)
          \/ Rename(r) \/ Revoke(r) \/ Grant(r) \/ Strip(r) \/ DeleteRole(r) \/ RoleAbort(r)
    \/ \E u \in Users, k \in Roles \cup {NoRole} : AssignRole(u, k)
-----------------------------------------------------------------------------
(* Properties.                                                             *)

\* Two saves that race leave the union of what they were asked for, and one that fails
\* half-way leaves a role that permits nothing.  One that no other request overlapped
\* leaves exactly what was asked, whatever was there before; a clone, what its source has.
AloneRoleExact ==
    [][\A r \in Requests :
         (At(r, "revoke") \/ At(r, "grant")) /\ alone[r] /\ (Revoke(r) \/ Grant(r)) /\ req'[r] = Idle
         => LET t == req[r]
            IN  /\ permission'[t.id] = t.asked
                /\ t.source # NoRole => permission'[t.id] = permission'[t.source]
      ]_<<roles, handlers>>
===============================================================================
