------------------------------- MODULE Network --------------------------------
(***************************************************************************)
(* NetworkService: the cables, the racks and the addresses together.  The  *)
(* three share no row but the switch, whose place and whose ports no       *)
(* endpoint but createSwitch and deleteSwitch writes together; each part   *)
(* models its half of those.  A behaviour is about one of the parts.       *)
(***************************************************************************)
EXTENDS PortLinks, RackMounts, SubnetStats

CONSTANT Areas    \* bound: the parts that are looked at

ASSUME NetworkAssumption == Areas \subseteq {"links", "racks", "addressing"}

VARIABLE area

vars == <<handlers, links, racks, addressing, area>>

TypeOK == LinksTypeOK /\ RacksTypeOK /\ SubnetsTypeOK

Init ==
    /\ area \in Areas
    /\ HandlersInit
    /\ LinksInit /\ RacksInit /\ SubnetsInit

Next ==
    \/ area = "links" /\ LinksNext /\ UNCHANGED <<racks, addressing, area>>
    \/ area = "racks" /\ RacksNext /\ UNCHANGED <<links, addressing, area>>
    \/ area = "addressing" /\ SubnetsNext /\ UNCHANGED <<links, racks, area>>

Spec == Init /\ [][Next]_vars
===============================================================================
