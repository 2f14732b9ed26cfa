-------------------------------- MODULE Inbox ---------------------------------
(***************************************************************************)
(* The notifications of one user and the badge of an open tab:             *)
(* NotificationsService.create, markAsRead, markAllAsRead, remove,         *)
(* clearAll, pruneOldNotifications and pruneAllOldNotifications            *)
(* (apps/api/src/modules/notifications/notifications.service.ts), the      *)
(* events they push through the gateway, and what                          *)
(* apps/web/src/hooks/useRealtimeNotifications.ts does with them and with  *)
(* the pages of notifications it loads.                                    *)
(*                                                                         *)
(* The operations are those of others and of the user's other tabs: what   *)
(* a tab adds to its badge for an operation of its own is left out.  A     *)
(* Super Admin, the user himself or another, reads, marks and clears the   *)
(* notifications of everybody.                                             *)
(***************************************************************************)
EXTENDS Handlers, FiniteSets, Integers, Sequences

CONSTANTS
    Cap,        \* MAX_NOTIFICATIONS_PER_USER
    Page,       \* rows of a page of findAll, when the tab asks for no other number
    MaxNotes,   \* bound: notifications
    MaxWire     \* bound: events under way when an operation begins

ASSUME InboxAssumption ==
    /\ Cap \in Nat \ {0} /\ Page \in Nat \ {0}
    /\ MaxNotes \in Nat /\ Cap <= MaxNotes /\ MaxWire \in Nat

VARIABLES
    created,    \* notifications ever created; they are numbered as they come
    notes,      \* Notification rows
    unread,     \* those with isRead false
    wire,       \* events under way to the tab, in the order of the socket
    superAdmin, \* the user of the tab is one, by its token
    pages,      \* what was unread of the page that the tab is loading
    badge,      \* unreadCount of the tab
    settled     \* history: the last thing that happened to rows or tab is an operation that
                \* was alone and sent its count

tab == <<superAdmin, pages, badge>>
inbox == <<created, notes, unread, wire, tab, settled>>

Notes == 1 .. MaxNotes
Counts == 0 .. MaxNotes
Event == [type : {"new", "read", "cleared"}] \cup [type : {"count"}, unreadCount : Counts]

\* cron: pruneAllOldNotifications, which goes through all users and pushes nothing.
PruneTask == [pc : {"count", "oldest"}, cron : BOOLEAN, excess : Counts]
VictimsTask == [pc : {"prune"}, cron : BOOLEAN, victims : SUBSET Notes]
NoteTask == [pc : {"delete"}, id : Notes]
StepTask == [pc : {"insert", "unread"}]
ClearedTask == [pc : {"cleared"}, everybody : BOOLEAN]
PushTask == [pc : {"push"}, unreadCount : Counts]
InboxTask ==
    {Idle} \cup PruneTask \cup VictimsTask \cup NoteTask \cup StepTask \cup ClearedTask \cup PushTask

InboxTypeOK ==
    /\ created \in Counts
    /\ notes \subseteq 1 .. created /\ unread \subseteq notes
    /\ wire \in Seq(Event)
    /\ superAdmin \in BOOLEAN /\ pages \subseteq 0 .. Page /\ badge \in Nat
    /\ settled \in BOOLEAN

\* The tab has yet to load them.
InboxInit ==
    /\ created = Cap /\ notes = 1 .. Cap
    /\ unread \in SUBSET notes
    /\ superAdmin \in BOOLEAN
    /\ pages = {} /\ badge = 0
    /\ wire = <<>> /\ settled = FALSE

Send(event) == wire' = Append(wire, event)

StartOp(r, task) ==
    /\ Len(wire) <= MaxWire
    /\ Begin(r, task)
    /\ settled' = FALSE
    /\ UNCHANGED <<created, notes, unread, wire, tab>>

\* The process dies, or a statement fails outside the pruning.
InboxAbort(r) ==
    /\ ~At(r, "idle")
    /\ Finish(r)
    /\ UNCHANGED inbox
-----------------------------------------------------------------------------
(* getUnreadCount, then sendCountToUser: the last steps of most operations.*)

\* Mutant of CountUnread: all rows are counted.
CountRead(r) ==
    /\ At(r, "unread")
    /\ Continue(r, [pc |-> "push", unreadCount |-> Cardinality(notes)])
    /\ UNCHANGED inbox

CountUnread(r) ==
    /\ At(r, "unread")
    /\ Continue(r, [pc |-> "push", unreadCount |-> Cardinality(unread)])
    /\ UNCHANGED inbox

PushCount(r) ==
    /\ At(r, "push")
    /\ Send([type |-> "count", unreadCount |-> req[r].unreadCount])
    /\ settled' = alone[r]
    /\ Finish(r)
    /\ UNCHANGED <<created, notes, unread, tab>>
-----------------------------------------------------------------------------
(* create.                                                                 *)

InsertNote(r) ==
    /\ At(r, "insert") /\ created < MaxNotes
    /\ created' = created + 1
    /\ notes' = notes \cup {created'} /\ unread' = unread \cup {created'}
    /\ Continue(r, [pc |-> "count", cron |-> FALSE, excess |-> 0])
    /\ UNCHANGED <<wire, tab, settled>>

\* Pruning is over, or failed: create goes on with its events, the cron is done.
AfterPrune(r) ==
    IF req[r].cron THEN Finish(r) /\ UNCHANGED wire
    ELSE /\ Send([type |-> "new"])
         /\ Continue(r, [pc |-> "unread"])

CountNotes(r) ==
    /\ At(r, "count")
    /\ UNCHANGED <<created, notes, unread, tab, settled>>
    /\ LET excess == Cardinality(notes) - Cap
       IN  IF excess <= 0 THEN AfterPrune(r)
           ELSE /\ Continue(r, [req[r] EXCEPT !.pc = "oldest", !.excess = excess])
                /\ UNCHANGED wire

\* The n oldest, or all there are.
Oldest(n) == {i \in notes : Cardinality({j \in notes : j < i}) < n}

FindOldest(r) ==
    /\ At(r, "oldest")
    /\ Continue(r, [pc |-> "prune", cron |-> req[r].cron, victims |-> Oldest(req[r].excess)])
    /\ UNCHANGED inbox

Prune(r) ==
    /\ At(r, "prune")
    /\ notes' = notes \ req[r].victims /\ unread' = unread \ req[r].victims
    /\ AfterPrune(r)
    /\ UNCHANGED <<created, tab, settled>>

\* pruneOldNotifications and pruneAllOldNotifications catch their errors.
PruneFails(r) ==
    /\ At(r, "count") \/ At(r, "oldest") \/ At(r, "prune")
    /\ AfterPrune(r)
    /\ UNCHANGED <<created, notes, unread, tab, settled>>
-----------------------------------------------------------------------------
(* markAsRead, markAllAsRead, remove, clearAll: one statement, which is the*)
(* first thing they do but in remove, then their events.                   *)

MarkAsRead(r, i) ==
    /\ i \in notes /\ Len(wire) <= MaxWire
    /\ Begin(r, [pc |-> "unread"])
    /\ unread' = unread \ {i}
    /\ Send([type |-> "read"])
    /\ settled' = FALSE
    /\ UNCHANGED <<created, notes, tab>>

\* The user's own: the controller passes no userId for a Super Admin.
MarkAllAsRead(r) ==
    /\ ~superAdmin /\ Len(wire) <= MaxWire
    /\ Begin(r, [pc |-> "push", unreadCount |-> 0])
    /\ unread' = {}
    /\ settled' = FALSE
    /\ UNCHANGED <<created, notes, wire, tab>>

\* Without a userId: the rows of everybody, and no count is pushed to anybody.
MarkEverybodysAsRead ==
    /\ Instant
    /\ unread' = {}
    /\ settled' = FALSE
    /\ UNCHANGED <<created, notes, wire, tab>>

\* A notification that is gone when it is to be deleted makes remove throw.
DeleteNote(r) ==
    /\ At(r, "delete") /\ req[r].id \in notes
    /\ notes' = notes \ {req[r].id} /\ unread' = unread \ {req[r].id}
    /\ Continue(r, [pc |-> "unread"])
    /\ UNCHANGED <<created, wire, tab, settled>>

\* everybody: without a userId, the rows of everybody.
ClearAll(r, everybody) ==
    /\ superAdmin => everybody
    /\ Len(wire) <= MaxWire
    /\ Begin(r, [pc |-> "cleared", everybody |-> everybody])
    /\ notes' = {} /\ unread' = {}
    /\ settled' = FALSE
    /\ UNCHANGED <<created, wire, tab>>

\* To the tabs of the user, with a count after it, or to those of everybody, with none.
PushCleared(r) ==
    /\ At(r, "cleared")
    /\ Send([type |-> "cleared"])
    /\ IF req[r].everybody THEN settled' = alone[r] /\ Finish(r)
       ELSE UNCHANGED settled /\ Continue(r, [pc |-> "push", unreadCount |-> 0])
    /\ UNCHANGED <<created, notes, unread, tab>>
-----------------------------------------------------------------------------
(* The tab.                                                                *)

\* The n newest, or all there are.
Newest(n) == {i \in notes : Cardinality({j \in notes : i < j}) < n}

\* refreshNotifications, when the tab opens and whenever its token changes: it counts what is
\* unread of the first page, which for a Super Admin has rows of everybody.
LoadPage ==
    /\ pages = {}
    /\ \E n \in 0 .. Page :
          /\ superAdmin \/ n = Cardinality(unread \cap Newest(Page))
          /\ pages' = {n}
    /\ UNCHANGED <<handlers, created, notes, unread, wire, superAdmin, badge, settled>>

\* The answer comes, whatever events have come meanwhile.
ShowPage ==
    /\ badge' \in pages
    /\ pages' = {}
    /\ settled' = FALSE
    /\ UNCHANGED <<handlers, created, notes, unread, wire, superAdmin>>

\* What an event makes of the badge.
Shown(event) ==
    CASE event.type = "new" -> badge + 1
      [] event.type = "read" -> IF badge = 0 THEN 0 ELSE badge - 1
      [] event.type = "cleared" -> 0
      [] event.type = "count" -> event.unreadCount

Deliver ==
    /\ wire # <<>>
    /\ badge' = Shown(Head(wire))
    /\ wire' = Tail(wire)
    /\ UNCHANGED <<handlers, created, notes, unread, superAdmin, pages, settled>>

\* The socket is disconnected: what was under way is gone, and the tab, connected again,
\* loads nothing.
Disconnect ==
    /\ wire # <<>>
    /\ wire' = <<>> /\ settled' = FALSE
    /\ UNCHANGED <<handlers, created, notes, unread, tab>>

InboxNext ==
    \/ \E r \in Requests :
          \/ StartOp(r, [pc |-> "insert"])
          \/ StartOp(r, [pc |-> "count", cron |-> TRUE, excess |-> 0])
          \/ \E i \in notes : MarkAsRead(r, i) \/ StartOp(r, [pc |-> "delete", id |-> i])
          \/ MarkAllAsRead(r) \/ \E everybody \in BOOLEAN : ClearAll(r, everybody)
          \/ InsertNote(r) \/ CountNotes(r) \/ FindOldest(r) \/ Prune(r) \/ PruneFails(r)
          \/ DeleteNote(r) \/ CountUnread(r) \/ PushCount(r) \/ PushCleared(r) \/ InboxAbort(r)
    \/ MarkEverybodysAsRead
    \/ LoadPage \/ ShowPage
    \/ Deliver
    \/ Disconnect
-----------------------------------------------------------------------------
(* Properties.                                                             *)

\* Counts that are pushed by operations that race may come in the wrong order, and then
\* the last one stays; a page that is loaded, or a Super Admin who marks everybody's as read,
\* leaves a badge that is not the number of unread notifications either.  But the next
\* operation elsewhere but such a one, that no other overlapped, puts it right: when it is over
\* and its events have come, the badge is the number, whatever it was.
BadgeSettles == settled /\ wire = <<>> => badge = Cardinality(unread)
===============================================================================
