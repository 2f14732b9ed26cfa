------------------------------- MODULE Console --------------------------------
(***************************************************************************)
(* What the administrators' pages work on besides hardware and licenses:   *)
(* settings, organizations, roles, notifications, scheduled alerts and the *)
(* stock.  They share the redis service, of which settings and alerts use  *)
(* keys of their own, and no row that both write.  A behaviour is about    *)
(* one of the parts.                                                       *)
(***************************************************************************)
EXTENDS SettingsCache, OrgTree, RolePermissions, Inbox, AlertScans, Stock

CONSTANT Areas    \* bound: the parts that are looked at

ASSUME ConsoleAssumption ==
    Areas \subseteq {"settings", "organizations", "roles", "inbox", "records", "licenses", "stock"}

ASSUME KeysAssumption == SettingKeys \cap Things = {}

VARIABLE area

vars == <<handlers, cache, settings, org, roles, inbox, scans, stock, area>>

\* What a handler of the part may be doing.
Task ==
    CASE area = "settings" -> SettingsTask
      [] area = "organizations" -> OrgTask
      [] area = "roles" -> RoleTask
      [] area = "inbox" -> InboxTask
      [] area \in {"records", "licenses"} -> ScansTask
      [] area = "stock" -> StockTask

TypeOK ==
    /\ \A r \in Requests : req[r] \in Task
    /\ SettingsTypeOK
    /\ OrgTreeTypeOK
    /\ RolesTypeOK
    /\ InboxTypeOK
    /\ ScansTypeOK
    /\ StockTypeOK

Init ==
    /\ area \in Areas
    /\ HandlersInit /\ CacheInit
    /\ SettingsInit /\ OrgTreeInit /\ RolesInit /\ InboxInit /\ ScansInit /\ StockInit
    /\ area # "settings" => setting = 0
    /\ area # "inbox" => unread = {} /\ ~superAdmin
    /\ area # "licenses" => expired = {}

Next ==
    /\ UNCHANGED area
    /\ \/ area = "settings" /\ SettingsNext /\ UNCHANGED <<org, roles, inbox, scans, stock>>
       \/ area = "organizations" /\ OrgTreeNext
          /\ UNCHANGED <<cache, settings, roles, inbox, scans, stock>>
       \/ area = "roles" /\ RolesNext /\ UNCHANGED <<cache, settings, org, inbox, scans, stock>>
       \/ area = "inbox" /\ InboxNext /\ UNCHANGED <<cache, settings, org, roles, scans, stock>>
       \/ /\ \/ area = "records" /\ ScansNext(Records)
             \/ area = "licenses" /\ ScansNext(Licenses)
          /\ UNCHANGED <<settings, org, roles, inbox, stock>>
       \/ area = "stock" /\ StockNext /\ UNCHANGED <<cache, settings, org, roles, inbox, scans>>

Spec == Init /\ [][Next]_vars
===============================================================================
