------------------------------ MODULE Handlers -------------------------------
(***************************************************************************)
(* Request handlers of the API.  A handler runs from one await to the next *)
(* and others run in between (Node interleaves them, and several API       *)
(* processes may share the database), so a request is a process with a     *)
(* program counter, and a step is one call to the database.  What it is    *)
(* asked and what it has read is the rest of its record.                   *)
(***************************************************************************)
CONSTANT Requests

VARIABLES
    req,    \* the handlers
    alone   \* history: no other request has run since it began

handlers == <<req, alone>>

\* A row is in its table or not.  One that was deleted makes room for another when
\* no handler remembers it: identifiers are never used again.
Life == {"none", "up"}

Idle == [pc |-> "idle"]

HandlersInit ==
    /\ req = [r \in Requests |-> Idle]
    /\ alone = [r \in Requests |-> FALSE]

At(r, step) == req[r].pc = step

Begin(r, task) ==
    /\ At(r, "idle")
    /\ req' = [req EXCEPT ![r] = task]
    /\ alone' = [q \in Requests |->
                   q = r /\ \A p \in Requests \ {r} : At(p, "idle")]

\* The handler goes on with what it now knows.
Continue(r, task) ==
    /\ req' = [req EXCEPT ![r] = task]
    /\ UNCHANGED alone

Goto(r, step) == Continue(r, [req[r] EXCEPT !.pc = step])

\* It answers, or throws.
Finish(r) ==
    /\ req' = [req EXCEPT ![r] = Idle]
    /\ alone' = [alone EXCEPT ![r] = FALSE]

\* A request that is a single statement: no handler is alone with it.
Instant ==
    /\ UNCHANGED req
    /\ alone' = [r \in Requests |-> FALSE]
=============================================================================
