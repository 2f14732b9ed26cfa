---------------------------- MODULE SettingsCache ----------------------------
(***************************************************************************)
(* Settings and their copies: SettingsService.getAllSettings, getSetting   *)
(* and updateSetting (apps/api/src/modules/settings/settings.service.ts)   *)
(* over RedisCache.  One setting; its value is the number of times it has  *)
(* been written, and the list of all settings shows it too.                *)
(***************************************************************************)
EXTENDS Handlers, RedisCache, Naturals

CONSTANT MaxUpdates     \* bound: updates of the setting

\* The keys of the list and of the one setting.
SettingKeys == {"all", "group"}

ASSUME SettingsAssumption ==
    MaxUpdates \in Nat \ {0} /\ SettingKeys \subseteq Keys /\ NoValue \notin Nat

VARIABLES
    setting,    \* Setting.value; 0 is no row
    excused     \* history: the copies that a race or a failure may have made stale

settings == <<setting, excused>>

Values == 0 .. MaxUpdates

\* A copy is in Redis or in the memory of a process.
Places == {"redis"} \cup Processes
Copies == Places \X SettingKeys
CopyAt(where, k) == IF where = "redis" THEN redis[k] ELSE memory[where][k]
Stale(c) == CopyAt(c[1], c[2]) \notin {NoValue, setting}

\* raced: the setting was written since it was read (history).
ReadTask == [pc : {"get", "query"}, process : Processes, key : SettingKeys]
FillTask == [pc : {"fill"}, process : Processes, key : SettingKeys, value : Values,
             raced : BOOLEAN]
UpdateTask == [pc : {"upsert", "invalidate"}, process : Processes, keys : SUBSET SettingKeys]
SettingsTask == {Idle} \cup ReadTask \cup FillTask \cup UpdateTask

SettingsTypeOK ==
    /\ setting \in Values
    /\ \A c \in Copies : CopyAt(c[1], c[2]) \in Values \cup {NoValue}
    /\ CopyAt("redis", "group") # 0
    /\ excused \subseteq {c \in Copies : Stale(c)}

SettingsInit == setting \in {0, 1} /\ excused = {}

-----------------------------------------------------------------------------
(* getAllSettings, getSetting.                                             *)

StartRead(r, p, k) ==
    /\ At(r, "idle")
    /\ Continue(r, [pc |-> "get", process |-> p, key |-> k])
    /\ UNCHANGED <<settings, cache>>

ReadCache(r) ==
    /\ At(r, "get")
    /\ \E v \in Get(req[r].process, req[r].key) :
          IF v = NoValue THEN Goto(r, "query") ELSE Finish(r)
    /\ UNCHANGED <<settings, cache>>

\* getSetting does not keep that there is no row.
QuerySetting(r) ==
    /\ At(r, "query")
    /\ IF req[r].key = "group" /\ setting = 0 THEN Finish(r)
       ELSE Continue(r, [pc |-> "fill", process |-> req[r].process, key |-> req[r].key,
                         value |-> setting, raced |-> FALSE])
    /\ UNCHANGED <<settings, cache>>

\* The copies of k that say v after the step.
Saying(k, v) == {c \in Copies : c[2] = k /\ CopyAt(c[1], k)' = v}

Fill(r) ==
    /\ At(r, "fill") /\ UNCHANGED setting
    /\ \E k \in {req[r].key}, v \in {req[r].value} :
          /\ Set(req[r].process, k, v)
          /\ excused' = {c \in Copies : /\ Stale(c)'
                                        /\ \/ c \in excused
                                           \/ c \in Saying(k, v) /\ req[r].raced}
    /\ Finish(r)
-----------------------------------------------------------------------------
(* updateSetting.                                                          *)

\* Mutant of StartUpdate: the list of all settings is not invalidated.
StartUpdateOne(r, p) ==
    /\ At(r, "idle")
    /\ Continue(r, [pc |-> "upsert", process |-> p, keys |-> {"group"}])
    /\ UNCHANGED <<settings, cache>>

StartUpdate(r, p) ==
    /\ At(r, "idle")
    /\ Continue(r, [pc |-> "upsert", process |-> p, keys |-> SettingKeys])
    /\ UNCHANGED <<settings, cache>>

\* Readers that hold the value before are overtaken.
Upsert(r) ==
    /\ At(r, "upsert") /\ setting < MaxUpdates
    /\ setting' = setting + 1
    /\ req' = [q \in Requests |->
                 IF q = r THEN [req[r] EXCEPT !.pc = "invalidate"]
                 ELSE IF At(q, "fill") THEN [req[q] EXCEPT !.raced = TRUE] ELSE req[q]]
    /\ UNCHANGED <<alone, excused, cache>>

\* The two calls run side by side; the audit entry that follows changes nothing here.
Invalidate(r, k) ==
    /\ At(r, "invalidate") /\ k \in req[r].keys /\ UNCHANGED setting
    /\ Del(req[r].process, k)
    /\ excused' = {c \in Copies : Stale(c)' /\ (c \in excused \/ c[2] = k)}
    /\ IF req[r].keys = {k} THEN Finish(r)
       ELSE Continue(r, [req[r] EXCEPT !.keys = @ \ {k}])

\* A statement fails, or the process dies: what was to be invalidated is not.
SettingsAbort(r) ==
    /\ ~At(r, "idle")
    /\ excused' = {c \in Copies : /\ Stale(c)
                                  /\ \/ c \in excused
                                     \/ At(r, "invalidate") /\ c[2] \in req[r].keys}
    /\ Finish(r)
    /\ UNCHANGED <<setting, cache>>
-----------------------------------------------------------------------------
CacheEvent ==
    /\ \E k \in SettingKeys : Expire(k) \/ \E p \in Processes : ExpireMemory(p, k)
    /\ UNCHANGED <<handlers, setting>>
    /\ excused' = {c \in excused : Stale(c)'}

SettingsNext ==
    \/ \E r \in Requests :
          \/ \E p \in Processes : StartUpdate(r, p) \/ \E k \in SettingKeys : StartRead(r, p, k)
          \/ ReadCache(r) \/ QuerySetting(r) \/ Fill(r)
          \/ Upsert(r)
          \/ \E k \in SettingKeys : Invalidate(r, k)
          \/ SettingsAbort(r)
    \/ CacheEvent
-----------------------------------------------------------------------------
(* Properties.                                                             *)

\* A copy that is not the setting is about to be deleted by the update that made it old,
\* or there is a reason: a reader that had the old value when it was written, a del
\* that did not reach the copy (no connection, or the memory of another process), or
\* an update that died before it.  No order of anything else leaves a stale copy.
StaleExcused ==
    \A c \in Copies :
        Stale(c)
        => \/ c \in excused
           \/ \E r \in Requests : At(r, "invalidate") /\ c[2] \in req[r].keys
===============================================================================
