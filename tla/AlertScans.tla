------------------------------ MODULE AlertScans ------------------------------
(***************************************************************************)
(* The scheduled alerts of ScheduledAlertsWorker                           *)
(* (apps/api/src/modules/notifications/scheduled-alerts.worker.ts): each   *)
(* scan reads what is due and reminds the administrators of one thing      *)
(* after the other, unless a key in Redis says that they have been         *)
(* reminded lately.  Two of the scans are modelled, that of the pending    *)
(* handover records, which runs every hour and also every midnight with    *)
(* the others, and that of the licenses, which writes their status too.    *)
(* Several processes run them.                                             *)
(***************************************************************************)
EXTENDS Handlers, RedisCache, Naturals

CONSTANTS Records, Licenses

Things == Records \cup Licenses     \* each has a key of its own: alert:...:<id>

ASSUME ScansAssumption == Things \subseteq Keys /\ Records \cap Licenses = {}

VARIABLES
    due,        \* records with isPending, licenses whose expiryDate has passed
    expired,    \* licenses with status EXPIRED
    told,       \* history: reminders, since the thing is due and its key last expired
    unsure,     \* history: things whose key is not where it should be, with a reason
    overtaken,  \* history: licenses renewed after a scan read them that has not yet come to them
    deliberate  \* history: licenses not due that an operator last wrote and left or made EXPIRED

scans == <<due, expired, told, unsure, overtaken, deliberate>>

\* left: what the scan has read and not yet handled; unmarked: the licenses of those
\* whose status it read is not EXPIRED.
ScanTask == [pc : {"scan"}, process : Processes, left : SUBSET Things,
             unmarked : SUBSET Licenses]
ThingTask == [pc : {"check", "notify", "set"}, process : Processes, left : SUBSET Things,
              unmarked : SUBSET Licenses, thing : Things]
ClearTask == [pc : {"clear"}, process : Processes, thing : Records]
ScansTask == {Idle} \cup ScanTask \cup ThingTask \cup ClearTask

ScansTypeOK ==
    /\ due \subseteq Things /\ expired \subseteq Licenses
    /\ told \in [Things -> 0 .. 2]
    /\ unsure \subseteq Things /\ overtaken \subseteq Licenses /\ deliberate \subseteq Licenses

\* LicensesService.create takes any status, whatever the date.
ScansInit ==
    /\ due = {} /\ expired \in SUBSET Licenses
    /\ told = [x \in Things |-> 0]
    /\ unsure = {} /\ overtaken = {} /\ deliberate = expired

Keyed(x) == redis[x] # NoValue \/ \E p \in Processes : memory[p][x] # NoValue
Reads(r, x) ==
    \/ req[r] \in ScanTask \cup ThingTask /\ x \in req[r].left
    \/ req[r] \in ThingTask \cup ClearTask /\ x = req[r].thing
\* r is a scan that will make x EXPIRED, by what it has read of it.
Condemns(r, x) == req[r] \in ScanTask \cup ThingTask /\ x \in req[r].unmarked
\* A scan that is about to set the key has or will.
Underway(k) == \E r \in Requests : (At(r, "notify") \/ At(r, "set")) /\ req[r].thing = k
-----------------------------------------------------------------------------
(* What the scans look at.                                                 *)

\* A handover record is written, with an id of its own; the expiry date of a license comes.
FallDue(x) ==
    /\ x \notin due
    /\ due' = due \cup {x}
    /\ x \in Records => ~Keyed(x) /\ \A r \in Requests : ~Reads(r, x)
    /\ UNCHANGED <<handlers, expired, told, unsure, overtaken, deliberate, cache>>

\* There is nothing left to be reminded of.
Settled(x) ==
    /\ due' = due \ {x}
    /\ told' = [told EXCEPT ![x] = 0]
    /\ unsure' = IF Underway(x) THEN unsure ELSE unsure \ {x}

\* resolveRecord: the record has its document (Custody has the rest); the key is next.
Resolve(r, p, x) ==
    /\ At(r, "idle") /\ x \in due \cap Records
    /\ Continue(r, [pc |-> "clear", process |-> p, thing |-> x])
    /\ Settled(x)
    /\ UNCHANGED <<expired, overtaken, deliberate, cache>>

\* clearHandoverDocumentAlert.
ClearAlert(r) ==
    /\ At(r, "clear")
    /\ Del(req[r].process, req[r].thing)
    /\ Finish(r)
    /\ UNCHANGED scans

\* LicensesService.update writes a date and a status if it is given them, each alone or both,
\* and looks at neither: a new date may have passed, it may leave the license EXPIRED, and any
\* license may be made EXPIRED or not.  isDue and isExpired: what it is afterwards.  The tiers of
\* the scan for licenses that are not due yet write EXPIRING_SOON: here, one that is not EXPIRED.
UpdateLicense(x, isDue, isExpired) ==
    /\ x \in Licenses /\ <<isDue, isExpired>> # <<x \in due, x \in expired>>
    /\ \/ isDue /\ due' = due \cup {x} /\ UNCHANGED <<told, unsure>>
       \/ ~isDue /\ Settled(x)
    /\ expired' = (expired \ {x}) \cup {y \in {x} : isExpired}
    /\ overtaken' = (overtaken \ {x}) \cup {y \in {x} : ~isDue /\ \E r \in Requests : Condemns(r, y)}
    /\ deliberate' = (deliberate \ {x}) \cup {y \in {x} : ~isDue /\ isExpired}
    /\ UNCHANGED <<handlers, cache>>

\* The cooldown is over, of the key in Redis or of that in the memory of a process.
Cooldown(x) ==
    /\ Expire(x) \/ \E p \in Processes : ExpireMemory(p, x)
    /\ told' = [told EXCEPT ![x] = 0]
    /\ unsure' = IF Underway(x) THEN unsure ELSE unsure \ {x}
    /\ UNCHANGED <<handlers, due, expired, overtaken, deliberate>>
-----------------------------------------------------------------------------
(* The scans.                                                              *)

\* Mutant of StartScan: licenses are read by their status, not by their date.
StartScanActive(r, p, kind) ==
    /\ At(r, "idle")
    /\ Continue(r, [pc |-> "scan", process |-> p,
                    left |-> IF kind = Records THEN due \cap kind ELSE kind \ expired,
                    unmarked |-> kind \cap (Licenses \ expired)])
    /\ UNCHANGED <<scans, cache>>

\* One batch: at most 100 rows are read at a time.  kind: the table that is read.
StartScan(r, p, kind) ==
    /\ At(r, "idle") /\ due \cap kind # {}
    /\ Continue(r, [pc |-> "scan", process |-> p, left |-> due \cap kind,
                    unmarked |-> (due \cap kind \cap Licenses) \ expired])
    /\ UNCHANGED <<scans, cache>>

\* The next row; the status of a license is written first, when what was read is another.
NextThing(r, x) ==
    /\ At(r, "scan") /\ x \in req[r].left
    /\ expired' = expired \cup ({x} \cap req[r].unmarked)
    /\ Continue(r, [pc |-> "check", process |-> req[r].process, left |-> req[r].left \ {x},
                    unmarked |-> req[r].unmarked \ {x}, thing |-> x])
    /\ UNCHANGED <<due, told, unsure, overtaken, deliberate, cache>>

\* Done with the row.
Proceed(r) ==
    IF req[r].left = {} THEN Finish(r)
    ELSE Continue(r, [pc |-> "scan", process |-> req[r].process, left |-> req[r].left,
                      unmarked |-> req[r].unmarked])

CheckKey(r) ==
    /\ At(r, "check")
    /\ \E k \in {req[r].thing}, v \in Get(req[r].process, req[r].thing) :
          IF v # NoValue THEN Proceed(r) /\ UNCHANGED unsure
          ELSE /\ Goto(r, "notify")
               /\ unsure' = IF redis[k] # NoValue \/ Underway(k) THEN unsure \cup {k} ELSE unsure
    /\ UNCHANGED <<due, expired, told, overtaken, deliberate, cache>>

\* notifyAdmins swallows its failures, so that the reminder counts as given.
NotifyAdmins(r) ==
    /\ At(r, "notify")
    /\ \E k \in {req[r].thing} :
          /\ told' \in {told} \cup {[told EXCEPT ![c] = IF @ = 2 THEN 2 ELSE @ + 1] : c \in due \cap {k}}
    /\ Goto(r, "set")
    /\ UNCHANGED <<due, expired, unsure, overtaken, deliberate, cache>>

\* Mutant of SetKey: nothing is written.
SetKeyNot(r) ==
    /\ At(r, "set")
    /\ Proceed(r)
    /\ UNCHANGED <<scans, cache>>

SetKey(r) ==
    /\ At(r, "set")
    /\ Set(req[r].process, req[r].thing, TRUE)
    /\ unsure' = unsure \cup {k \in {req[r].thing} : redis'[k] = NoValue}
    /\ Proceed(r)
    /\ UNCHANGED <<due, expired, told, overtaken, deliberate>>

\* The process dies, or a statement fails.
ScanAbort(r) ==
    /\ ~At(r, "idle")
    /\ unsure' = IF At(r, "set") THEN unsure \cup {req[r].thing} ELSE unsure
    /\ Finish(r)
    /\ UNCHANGED <<due, expired, told, overtaken, deliberate, cache>>

\* The two scans share no row and no key.
ScansNext(kind) ==
    \/ \E x \in kind :
          \/ FallDue(x) \/ Cooldown(x)
          \/ \E isDue, isExpired \in BOOLEAN : UpdateLicense(x, isDue, isExpired)
    \/ \E r \in Requests :
          \/ \E p \in Processes : StartScan(r, p, kind) \/ \E x \in kind : Resolve(r, p, x)
          \/ \E x \in kind : NextThing(r, x)
          \/ CheckKey(r) \/ NotifyAdmins(r) \/ SetKey(r) \/ ClearAlert(r) \/ ScanAbort(r)
-----------------------------------------------------------------------------
(* Properties.                                                             *)

\* When the administrators are reminded twice of one thing before its key has expired
\* ("24-hour cooldown between recurring reminders"), there is a reason: two scans that looked
\* for the key before either had set it, a key that did not reach Redis or was not found
\* there, or a scan that died before it set the key.  No order of anything else does it.
TwiceExcused == \A x \in Things : told[x] = 2 => x \in unsure

\* A license that is not due is EXPIRED only because an operator made or left it so, or because
\* it was renewed while a scan had read it and not yet come to it: a scan expires nothing else.
\* The next update that gives the license another status puts both right.
ExpiredExcused == expired \ due \subseteq overtaken \cup deliberate
===============================================================================
