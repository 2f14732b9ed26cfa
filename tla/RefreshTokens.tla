--------------------------- MODULE RefreshTokens ---------------------------
(***************************************************************************)
(* Refresh tokens of the UIMS API: AuthService.login, refresh and logout   *)
(* (apps/api/src/modules/auth/auth.service.ts), the guard in front of      *)
(* refresh, and the account operations of UsersService they depend on.     *)
(*                                                                         *)
(* A request is a handler that runs one database or Redis call per step;   *)
(* every await of the code is a point where any other request may run, in  *)
(* this process or in another replica.  No handler opens a transaction, so *)
(* each call is atomic by itself and nothing more is.                      *)
(*                                                                         *)
(* A refresh token is a JWT signed over the user and the second it was     *)
(* issued in, with no random part (no jti): signing twice for one user in  *)
(* one second gives the same string.  Its row is found by a hash of it     *)
(* under a unique index, so rows are indexed by the token itself.          *)
(***************************************************************************)
EXTENDS Naturals

CONSTANTS
    Users,       \* application accounts
    Requests,    \* handlers that can be in flight at the same time
    MaxClock,    \* bound: the last second the clock reaches
    TTL,         \* life of a refresh token in seconds (7 days in the code)
    Faults,      \* which faults happen: "dbWrite", "crash", "response"
    NoUser,      \* no account
    NoToken      \* no token

Times == 0 .. MaxClock
Token == [user : Users, iat : Times]

ASSUME ConstantsAssumption ==
    /\ MaxClock \in Nat
    /\ TTL \in Nat
    /\ NoUser \notin Users
    /\ NoToken \notin Token

VARIABLES
    clock,      \* seconds
    account,    \* AppUser: may it authenticate, or is its row deleted
    rows,       \* RefreshToken table, by token
    session,    \* Redis key uims:session:<user>
    delivered,  \* tokens a response has carried to some client
    pc,         \* what each request does next
    op,         \* login, refresh or logout
    who,        \* the account the request acts for
    token,      \* the refresh token presented, of a refresh
    fresh,      \* the refresh token signed by this request
    family,     \* history: the login a persisted token descends from
    ended       \* history: families a logout or a reuse alarm has revoked

vars == <<clock, account, rows, session, delivered, pc, op, who, token, fresh,
          family, ended>>
locals == <<op, who, token>>
history == <<family, ended>>

Ops == {"none", "login", "refresh", "logout"}
Steps == {"idle", "readUser", "findToken", "consume", "sign", "create",
          "setSession", "respond", "revokeAll", "delSession"}

TypeOK ==
    /\ clock \in Times
    /\ account \in [Users -> {"active", "blocked", "deleted"}]
    /\ rows \in [Token -> {"absent", "live", "revoked"}]
    /\ session \in [Users -> Token \cup {NoToken}]
    /\ delivered \subseteq Token
    /\ pc \in [Requests -> Steps]
    /\ op \in [Requests -> Ops]
    /\ who \in [Requests -> Users \cup {NoUser}]
    /\ token \in [Requests -> Token \cup {NoToken}]
    /\ fresh \in [Requests -> Token \cup {NoToken}]
    /\ family \in [Token -> Token \cup {NoToken}]
    /\ ended \subseteq Token

Init ==
    /\ clock = 0
    /\ account = [u \in Users |-> "active"]
    /\ rows = [t \in Token |-> "absent"]
    /\ session = [u \in Users |-> NoToken]
    /\ delivered = {}
    /\ pc = [r \in Requests |-> "idle"]
    /\ op = [r \in Requests |-> "none"]
    /\ who = [r \in Requests |-> NoUser]
    /\ token = [r \in Requests |-> NoToken]
    /\ fresh = [r \in Requests |-> NoToken]
    /\ family = [t \in Token |-> NoToken]
    /\ ended = {}

LiveTokensOf(u) == {t \in Token : t.user = u /\ rows[t] = "live"}

Goto(r, step) == pc' = [pc EXCEPT ![r] = step]

\* The handler returns or throws: its local variables are gone.
Finish(r) ==
    /\ pc' = [pc EXCEPT ![r] = "idle"]
    /\ op' = [op EXCEPT ![r] = "none"]
    /\ who' = [who EXCEPT ![r] = NoUser]
    /\ token' = [token EXCEPT ![r] = NoToken]
    /\ fresh' = [fresh EXCEPT ![r] = NoToken]

Begin(r, kind, u, t, step) ==
    /\ pc[r] = "idle"
    /\ pc' = [pc EXCEPT ![r] = step]
    /\ op' = [op EXCEPT ![r] = kind]
    /\ who' = [who EXCEPT ![r] = u]
    /\ token' = [token EXCEPT ![r] = t]
    /\ UNCHANGED <<clock, account, rows, session, delivered, fresh, history>>

-----------------------------------------------------------------------------
(* Requests arrive.                                                        *)

\* POST /auth/login with the right password; a blocked account is refused.
StartLogin(r, u) ==
    /\ account[u] = "active"
    /\ Begin(r, "login", u, NoToken, "sign")

\* POST /auth/refresh with any token a client was ever given, spent ones too;
\* the guard verifies the signature and refuses an expired token.
StartRefresh(r, t) ==
    /\ t \in delivered
    /\ clock < t.iat + TTL
    /\ Begin(r, "refresh", t.user, t, "readUser")

\* POST /auth/logout: an access token is enough, the account is not read.
StartLogout(r, u) ==
    /\ \E t \in delivered : t.user = u
    /\ Begin(r, "logout", u, NoToken, "revokeAll")

-----------------------------------------------------------------------------
(* The steps of a handler.                                                 *)

\* refresh reads the account first and refuses one that is not active.
ReadUser(r) ==
    /\ pc[r] = "readUser"
    /\ \/ /\ account[who[r]] = "active"
          /\ Goto(r, "findToken")
          /\ UNCHANGED <<locals, fresh>>
       \/ /\ account[who[r]] # "active"
          /\ Finish(r)
    /\ UNCHANGED <<clock, account, rows, session, delivered, history>>

\* Mutant of FindToken: a revoked token is refused without raising the alarm.
FindTokenNoAlarm(r) ==
    /\ pc[r] = "findToken"
    /\ IF rows[token[r]] = "live" /\ clock <= token[r].iat + TTL
       THEN Goto(r, "consume") /\ UNCHANGED <<locals, fresh>>
       ELSE Finish(r)
    /\ UNCHANGED <<clock, account, rows, session, delivered, history>>

\* refreshToken.findUnique: unknown and expired tokens are refused, a revoked
\* one raises the reuse alarm.
FindToken(r) ==
    /\ pc[r] = "findToken"
    /\ \/ /\ rows[token[r]] = "live" /\ clock <= token[r].iat + TTL
          /\ Goto(r, "consume")
          /\ UNCHANGED <<locals, fresh>>
       \/ /\ rows[token[r]] = "revoked"
          /\ Goto(r, "revokeAll")
          /\ UNCHANGED <<locals, fresh>>
       \/ /\ \/ rows[token[r]] = "absent"
             \/ rows[token[r]] = "live" /\ clock > token[r].iat + TTL
          /\ Finish(r)
    /\ UNCHANGED <<clock, account, rows, session, delivered, history>>

\* Mutant of Consume: update by id alone, so every holder of the token rotates it.
ConsumeById(r) ==
    /\ pc[r] = "consume"
    /\ rows' = [rows EXCEPT ![token[r]] = "revoked"]
    /\ Goto(r, "sign")
    /\ UNCHANGED <<clock, account, session, delivered, locals, fresh, history>>

\* Mutant of Consume: a spent token is deleted, which forgets it was ever used.
ConsumeByDelete(r) ==
    /\ pc[r] = "consume"
    /\ IF rows[token[r]] = "live"
       THEN rows' = [rows EXCEPT ![token[r]] = "absent"] /\ Goto(r, "sign")
       ELSE UNCHANGED rows /\ Goto(r, "revokeAll")
    /\ UNCHANGED <<clock, account, session, delivered, locals, fresh, history>>

\* updateMany where id and isRevoked = false: the one write that decides which
\* of several requests holding the same token rotates it.
Consume(r) ==
    /\ pc[r] = "consume"
    /\ \/ /\ rows[token[r]] = "live"
          /\ rows' = [rows EXCEPT ![token[r]] = "revoked"]
          /\ Goto(r, "sign")
       \/ /\ rows[token[r]] # "live"
          /\ Goto(r, "revokeAll")
          /\ UNCHANGED rows
    /\ UNCHANGED <<clock, account, session, delivered, locals, fresh, history>>

\* Mutant of SignedNow: iat rounded up to the next second.
SignedNextSecond(u) == [user |-> u, iat |-> clock + 1]

\* jwtService.sign: the token is the user and the current second.
SignedNow(u) == [user |-> u, iat |-> clock]

Sign(r) ==
    /\ pc[r] = "sign"
    /\ fresh' = [fresh EXCEPT ![r] = SignedNow(who[r])]
    /\ Goto(r, "create")
    /\ UNCHANGED <<clock, account, rows, session, delivered, locals, history>>

\* The login a token persisted by request r descends from.
RootOf(r) == IF op[r] = "refresh" THEN family[token[r]] ELSE fresh[r]

\* Mutant of Create: an upsert, which makes a revoked row live again.
CreateByUpsert(r) ==
    /\ pc[r] = "create"
    /\ IF account[who[r]] # "deleted"
       THEN /\ rows' = [rows EXCEPT ![fresh[r]] = "live"]
            /\ family' = [family EXCEPT ![fresh[r]] = RootOf(r)]
       ELSE UNCHANGED <<rows, family>>
    /\ Goto(r, "setSession")
    /\ UNCHANGED <<clock, account, session, delivered, locals, fresh, ended>>

\* refreshToken.create; a unique or foreign key violation, or a database
\* error, is logged and the handler goes on as if the row were there.
Create(r) ==
    /\ pc[r] = "create"
    /\ \/ /\ rows[fresh[r]] = "absent" /\ account[who[r]] # "deleted"
          /\ rows' = [rows EXCEPT ![fresh[r]] = "live"]
          /\ family' = [family EXCEPT ![fresh[r]] = RootOf(r)]
       \/ /\ \/ rows[fresh[r]] # "absent"
             \/ account[who[r]] = "deleted"
             \/ "dbWrite" \in Faults
          /\ UNCHANGED <<rows, family>>
    /\ Goto(r, "setSession")
    /\ UNCHANGED <<clock, account, session, delivered, locals, fresh, ended>>

\* redis.set of the session key.
SetSession(r) ==
    /\ pc[r] = "setSession"
    /\ session' = [session EXCEPT ![who[r]] = fresh[r]]
    /\ Goto(r, "respond")
    /\ UNCHANGED <<clock, account, rows, delivered, locals, fresh, history>>

\* The tokens reach the client, or the response is lost (a missing role, a
\* failed permission lookup, a broken connection).
Respond(r) ==
    /\ pc[r] = "respond"
    /\ \/ delivered' = delivered \cup {fresh[r]}
       \/ "response" \in Faults /\ UNCHANGED delivered
    /\ Finish(r)
    /\ UNCHANGED <<clock, account, rows, session, history>>

\* updateMany of every live row of the account: the reuse alarm, and logout.
\* A database error is logged and swallowed.
RevokeAll(r) ==
    /\ pc[r] = "revokeAll"
    /\ \/ /\ rows' = [t \in Token |-> IF t \in LiveTokensOf(who[r])
                                      THEN "revoked" ELSE rows[t]]
          /\ ended' = ended \cup {f \in Token : f.user = who[r] /\ family[f] = f}
       \/ "dbWrite" \in Faults /\ UNCHANGED <<rows, ended>>
    /\ Goto(r, "delSession")
    /\ UNCHANGED <<clock, account, session, delivered, locals, fresh, family>>

DelSession(r) ==
    /\ pc[r] = "delSession"
    /\ session' = [session EXCEPT ![who[r]] = NoToken]
    /\ Finish(r)
    /\ UNCHANGED <<clock, account, rows, delivered, history>>

\* The process running the handler dies between two calls.
Crash(r) ==
    /\ "crash" \in Faults
    /\ pc[r] # "idle"
    /\ Finish(r)
    /\ UNCHANGED <<clock, account, rows, session, delivered, history>>

-----------------------------------------------------------------------------
(* The environment: time, and the administrators of accounts.              *)

Tick ==
    /\ clock < MaxClock
    /\ clock' = clock + 1
    /\ UNCHANGED <<account, rows, session, delivered, pc, locals, fresh, history>>

\* Mutant of SetAccount: a status change re-creates an account that is gone.
SetAnyAccount(u) ==
    /\ \E s \in {"active", "blocked"} \ {account[u]} :
          account' = [account EXCEPT ![u] = s]
    /\ UNCHANGED <<clock, rows, session, delivered, pc, locals, fresh, history>>

\* UsersService.toggleStatus and update: status and lock change, no token does.
SetAccount(u) ==
    /\ account[u] # "deleted"
    /\ \E s \in {"active", "blocked"} \ {account[u]} :
          account' = [account EXCEPT ![u] = s]
    /\ UNCHANGED <<clock, rows, session, delivered, pc, locals, fresh, history>>

\* UsersService.remove: the rows go with the account (onDelete: Cascade).
DeleteAccount(u) ==
    /\ account[u] # "deleted"
    /\ account' = [account EXCEPT ![u] = "deleted"]
    /\ rows' = [t \in Token |-> IF t.user = u THEN "absent" ELSE rows[t]]
    /\ UNCHANGED <<clock, session, delivered, pc, locals, fresh, history>>

Handler(r) ==
    \/ ReadUser(r)
    \/ FindToken(r)
    \/ Consume(r)
    \/ Sign(r)
    \/ Create(r)
    \/ SetSession(r)
    \/ Respond(r)
    \/ RevokeAll(r)
    \/ DelSession(r)

Arrive(r) ==
    \/ \E u \in Users : StartLogin(r, u) \/ StartLogout(r, u)
    \/ \E t \in Token : StartRefresh(r, t)

Next ==
    \/ \E r \in Requests : Arrive(r) \/ Handler(r) \/ Crash(r)
    \/ \E u \in Users : SetAccount(u) \/ DeleteAccount(u)
    \/ Tick

Spec == Init /\ [][Next]_vars

\* A handler that has begun keeps running: Node resolves every pending call.
FairSpec == Spec /\ \A r \in Requests : WF_vars(Handler(r))
-----------------------------------------------------------------------------
(* Properties.                                                             *)

\* Request r has burned the token it was given and may still persist another.
Rotating(r) == op[r] = "refresh" /\ pc[r] \in {"sign", "create"}

\* However requests interleave, crash or repeat a spent token, one login has at
\* most one token that still works: the conditional update of Consume lets a
\* single request rotate it, and no other write brings a token back.
OneLivePerLogin ==
    \A t1, t2 \in Token :
        /\ rows[t1] = "live" /\ rows[t2] = "live"
        /\ family[t1] = family[t2]
        => t1 = t2

\* What makes the above inductive: per login, the live token and the requests
\* between Consume and Create are together at most one.
OneHolder ==
    /\ OneLivePerLogin
    /\ \A r \in Requests, t \in Token :
          Rotating(r) /\ rows[t] = "live" => family[t] # family[token[r]]
    /\ \A r1, r2 \in Requests :
          /\ Rotating(r1) /\ Rotating(r2)
          /\ family[token[r1]] = family[token[r2]]
          => r1 = r2

\* What a handler holds at each step: the account of the token it was given, a
\* signed token of that account once it has passed Sign, and from Consume on a
\* token that had been persisted.
RequestOK(r) ==
    /\ pc[r] # "idle" => who[r] \in Users
    /\ pc[r] \in {"readUser", "findToken", "consume"} => op[r] = "refresh"
    /\ op[r] = "refresh" => token[r] \in Token /\ who[r] = token[r].user
    /\ pc[r] \in {"create", "setSession", "respond"} =>
          fresh[r] \in Token /\ fresh[r].user = who[r]
    /\ pc[r] = "consume" \/ Rotating(r) => family[token[r]] # NoToken

RequestsOK == \A r \in Requests : RequestOK(r)

\* Every row descends from one login of its own account, and a token string is
\* persisted at most once: a row is missing again only with its account.
Lineage ==
    \A t \in Token :
        /\ rows[t] # "absent" => family[t] # NoToken
        /\ family[t] # NoToken =>
              /\ family[t].user = t.user
              /\ family[family[t]] = family[t]
              /\ rows[t] # "absent" \/ account[t.user] = "deleted"

\* Presenting a spent token ends, in the end, every session that worked at that
\* moment, whatever else is in flight for the account.
ReplayEndsSessions ==
    \A r \in Requests, t \in Token :
        (/\ pc[r] = "findToken" /\ rows[token[r]] = "revoked"
         /\ rows[t] = "live" /\ t.user = who[r])
        ~> (rows[t] # "live")

\* "Immediate revocation on logout": no token of a login ended by a logout or a
\* reuse alarm works afterwards.  A refresh between Consume and Create escapes.
EndedStaysEnded ==
    \A t \in Token : rows[t] = "live" => family[t] \notin ended

\* The promise of the component, see SessionLineage.
CurrentOf(f) ==
    IF \E t \in Token : rows[t] = "live" /\ family[t] = f
    THEN CHOOSE t \in Token : rows[t] = "live" /\ family[t] = f
    ELSE NoToken

SL == INSTANCE SessionLineage WITH
        current <- [f \in Token |-> CurrentOf(f)],
        used <- {t \in Token : family[t] # NoToken}

\* The handlers implement SessionLineage: one current token per login, burned for
\* good when it is replaced, revoked or consumed.
ImplementsSessionLineage == SL!Spec
=============================================================================
