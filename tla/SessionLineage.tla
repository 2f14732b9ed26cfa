--------------------------- MODULE SessionLineage ---------------------------
(***************************************************************************)
(* What token rotation promises, with no requests, table or clock: a login *)
(* has at most one token that works; a token that stops working never      *)
(* works again; and a new one appears in a login only while it has none.   *)
(***************************************************************************)
CONSTANTS
    Token,    \* refresh tokens; a login is named by the first one it issues
    NoToken

VARIABLES
    current,  \* the token of a login that works now
    used      \* every token that has ever worked

Init ==
    /\ current = [f \in Token |-> NoToken]
    /\ used = {}

\* A login issues its first token.
Open(f) ==
    /\ f \notin used
    /\ current' = [current EXCEPT ![f] = f]
    /\ used' = used \cup {f}

\* A login that has no working token gets one never used before.
Renew(f, t) ==
    /\ f \in used /\ current[f] = NoToken
    /\ t \notin used
    /\ current' = [current EXCEPT ![f] = t]
    /\ used' = used \cup {t}

\* The tokens of some logins stop working: consumed, revoked or deleted.
Retire(F) ==
    /\ current' = [f \in Token |-> IF f \in F THEN NoToken ELSE current[f]]
    /\ UNCHANGED used

Next ==
    \/ \E F \in SUBSET Token : Retire(F)
    \/ \E f \in Token : Open(f)
    \/ \E f, t \in Token : Renew(f, t)

Spec == Init /\ [][Next]_<<current, used>>
=============================================================================
