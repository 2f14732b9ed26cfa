------------------------- MODULE RefreshTokensProof -------------------------
(***************************************************************************)
(* Proofs about RefreshTokens, for every set of accounts and requests,     *)
(* every clock bound, token life and combination of faults.                *)
(***************************************************************************)
EXTENDS RefreshTokens, TLAPS

\* The types of the tables and of the local variables, apart.
DataOK ==
    /\ clock \in Times
    /\ account \in [Users -> {"active", "blocked", "deleted"}]
    /\ rows \in [Token -> {"absent", "live", "revoked"}]
    /\ session \in [Users -> Token \cup {NoToken}]
    /\ delivered \subseteq Token
    /\ family \in [Token -> Token \cup {NoToken}]
    /\ ended \subseteq Token

LocalsOK ==
    /\ pc \in [Requests -> Steps]
    /\ op \in [Requests -> Ops]
    /\ who \in [Requests -> Users \cup {NoUser}]
    /\ token \in [Requests -> Token \cup {NoToken}]
    /\ fresh \in [Requests -> Token \cup {NoToken}]

\* The type invariant is the types of the tables and of the local variables.
LEMMA TypeParts == TypeOK <=> DataOK /\ LocalsOK
  BY DEF TypeOK, DataOK, LocalsOK

\* Moving on keeps the types of the local variables.
LEMMA GotoOK ==
    ASSUME LocalsOK, NEW r \in Requests, NEW s \in Steps, Goto(r, s),
           UNCHANGED <<locals, fresh>>
    PROVE  LocalsOK'
  BY DEF LocalsOK, Goto, locals

\* So does returning.
LEMMA FinishOK ==
    ASSUME LocalsOK, NEW r \in Requests, Finish(r)
    PROVE  LocalsOK'
  BY DEF LocalsOK, Finish, Steps, Ops

\* And so does the arrival of a request.
LEMMA BeginOK ==
    ASSUME LocalsOK, NEW r \in Requests, NEW k \in Ops, NEW u \in Users,
           NEW t \in Token \cup {NoToken}, NEW s \in Steps, Begin(r, k, u, t, s)
    PROVE  LocalsOK'
  BY DEF LocalsOK, Begin

\* A token is signed for the account of the request, at the current second.
LEMMA SignedOK ==
    ASSUME DataOK, NEW u \in Users
    PROVE  SignedNow(u) \in Token /\ SignedNow(u).user = u
  BY DEF DataOK, SignedNow, Token

\* What a step of a handler does to its control, for every step.
LEMMA ControlStep ==
    ASSUME LocalsOK, NEW r \in Requests,
           ReadUser(r) \/ FindToken(r) \/ Consume(r) \/ SetSession(r)
             \/ RevokeAll(r) \/ Create(r)
    PROVE  \/ Finish(r)
           \/ \E s \in Steps : Goto(r, s) /\ UNCHANGED <<locals, fresh>>
<1>1. CASE ReadUser(r)
  BY <1>1 DEF ReadUser, Steps
<1>2. CASE FindToken(r)
  BY <1>2 DEF FindToken, Steps
<1>3. CASE Consume(r)
  BY <1>3 DEF Consume, Steps
<1>4. CASE SetSession(r)
  BY <1>4 DEF SetSession, Steps
<1>5. CASE RevokeAll(r)
  BY <1>5 DEF RevokeAll, Steps
<1>6. CASE Create(r)
  BY <1>6 DEF Create, Steps
<1> QED BY <1>1, <1>2, <1>3, <1>4, <1>5, <1>6
-----------------------------------------------------------------------------
(* The type invariant.                                                     *)

\* The initial state is well typed.
LEMMA TypeInit == Init => TypeOK
  BY ConstantsAssumption
  DEF Init, TypeOK, Times, Steps, Ops

\* Every step of a handler, an arrival, a crash or the environment keeps the
\* types, provided each request acts for the account of its token.
LEMMA TypeStep == TypeOK /\ RequestsOK /\ [Next]_vars => TypeOK'
<1> SUFFICES ASSUME TypeOK, RequestsOK, [Next]_vars PROVE TypeOK'
  OBVIOUS
<1>0. DataOK /\ LocalsOK
  BY TypeParts
<1> SUFFICES DataOK' /\ LocalsOK'
  BY DEF TypeOK, DataOK, LocalsOK
<1>1. ASSUME NEW r \in Requests, Arrive(r)
      PROVE  DataOK' /\ LocalsOK'
  <2>1. PICK k \in Ops, u \in Users, t \in Token \cup {NoToken}, s \in Steps :
           Begin(r, k, u, t, s)
    <3>1. ASSUME NEW u \in Users, StartLogin(r, u) \/ StartLogout(r, u)
          PROVE  \E k \in Ops, t \in Token \cup {NoToken}, s \in Steps :
                    Begin(r, k, u, t, s)
      BY <3>1 DEF StartLogin, StartLogout, Ops, Steps
    <3>2. ASSUME NEW t \in Token, StartRefresh(r, t)
          PROVE  t.user \in Users /\ Begin(r, "refresh", t.user, t, "readUser")
      BY <3>2 DEF StartRefresh, Token
    <3>3. "refresh" \in Ops /\ "readUser" \in Steps
      BY DEF Ops, Steps
    <3> QED BY <1>1, <3>1, <3>2, <3>3 DEF Arrive
  <2>2. LocalsOK'
    BY <1>0, <2>1, BeginOK
  <2>3. DataOK'
    BY <1>0, <2>1 DEF Begin, DataOK, history
  <2> QED BY <2>2, <2>3
<1>2. ASSUME NEW r \in Requests,
             ReadUser(r) \/ FindToken(r) \/ Consume(r) \/ SetSession(r)
               \/ RevokeAll(r) \/ Create(r)
      PROVE  DataOK' /\ LocalsOK'
  <2>1. LocalsOK'
    BY <1>0, <1>2, ControlStep, GotoOK, FinishOK
  <2>2. RequestOK(r)
    BY DEF RequestsOK
  <2>3. DataOK'
    <3>1. CASE ReadUser(r)
      BY <1>0, <3>1 DEF ReadUser, DataOK, history
    <3>2. CASE FindToken(r)
      BY <1>0, <3>2 DEF FindToken, DataOK, history
    <3>3. CASE Consume(r)
      BY <1>0, <3>3 DEF Consume, DataOK, history
    <3>4. CASE SetSession(r)
      BY <1>0, <2>2, <3>4 DEF SetSession, DataOK, history, RequestOK
    <3>5. CASE RevokeAll(r)
      BY <1>0, <3>5 DEF RevokeAll, DataOK
    <3>6. CASE Create(r)
      <4>1. fresh[r] \in Token /\ RootOf(r) \in Token
        BY <1>0, <2>2, <3>6
        DEF Create, RequestOK, RootOf, Rotating, DataOK, LocalsOK
      <4> QED BY <1>0, <3>6, <4>1 DEF Create, DataOK
    <3> QED BY <1>2, <3>1, <3>2, <3>3, <3>4, <3>5, <3>6
  <2> QED BY <2>1, <2>3
<1>3. ASSUME NEW r \in Requests, Sign(r)
      PROVE  DataOK' /\ LocalsOK'
  <2>1. who[r] \in Users
    BY <1>3 DEF Sign, RequestsOK, RequestOK
  <2>2. SignedNow(who[r]) \in Token
    BY <1>0, <2>1, SignedOK
  <2>3. LocalsOK'
    BY <1>0, <1>3, <2>2 DEF Sign, Goto, LocalsOK, locals, Steps
  <2>4. DataOK'
    BY <1>0, <1>3 DEF Sign, DataOK, history
  <2> QED BY <2>3, <2>4
<1>4. ASSUME NEW r \in Requests, Respond(r) \/ DelSession(r) \/ Crash(r)
      PROVE  DataOK' /\ LocalsOK'
  <2>1. Finish(r)
    BY <1>4 DEF Respond, DelSession, Crash
  <2>2. LocalsOK'
    BY <1>0, <2>1, FinishOK
  <2>3. RequestOK(r)
    BY DEF RequestsOK
  <2>4. DataOK'
    <3>1. CASE Respond(r)
      <4>1. fresh[r] \in Token
        BY <2>3, <3>1 DEF Respond, RequestOK
      <4> QED BY <1>0, <3>1, <4>1 DEF Respond, DataOK, history
    <3>2. CASE DelSession(r)
      BY <1>0, <3>2 DEF DelSession, DataOK, history
    <3>3. CASE Crash(r)
      BY <1>0, <3>3 DEF Crash, DataOK, history
    <3> QED BY <1>4, <3>1, <3>2, <3>3
  <2> QED BY <2>2, <2>4
<1>5. ASSUME NEW u \in Users, SetAccount(u) \/ DeleteAccount(u)
      PROVE  DataOK' /\ LocalsOK'
  <2>1. DataOK'
    <3>1. CASE SetAccount(u)
      BY <1>0, <3>1 DEF SetAccount, DataOK, history
    <3>2. CASE DeleteAccount(u)
      BY <1>0, <3>2 DEF DeleteAccount, DataOK, history
    <3> QED BY <1>5, <3>1, <3>2
  <2>2. LocalsOK'
    BY <1>0, <1>5 DEF SetAccount, DeleteAccount, LocalsOK, locals
  <2> QED BY <2>1, <2>2
<1>6. ASSUME Tick
      PROVE  DataOK' /\ LocalsOK'
  BY <1>0, <1>6, ConstantsAssumption
  DEF Tick, DataOK, LocalsOK, locals, history, Times
<1>7. CASE UNCHANGED vars
  BY <1>0, <1>7 DEF vars, DataOK, LocalsOK
<1> QED
  BY <1>1, <1>2, <1>3, <1>4, <1>5, <1>6, <1>7 DEF Next, Handler
-----------------------------------------------------------------------------
(* Requests and lineage.                                                   *)

\* The families on record only grow, and a token enters one when its row is made.
LEMMA FamilyGrows ==
    ASSUME TypeOK, RequestsOK, Lineage, [Next]_vars
    PROVE  \A t \in Token : family[t] # NoToken => family'[t] = family[t]
<1> SUFFICES ASSUME NEW x \in Token, family[x] # NoToken
             PROVE  family'[x] = family[x]
  OBVIOUS
<1>1. ASSUME NEW r \in Requests, Create(r)
      PROVE  family'[x] = family[x]
  <2>1. fresh[r] \in Token /\ fresh[r].user = who[r]
    BY <1>1 DEF Create, RequestsOK, RequestOK
  <2>2. rows[fresh[r]] = "absent" /\ account[who[r]] # "deleted"
          => family[fresh[r]] = NoToken
    BY <2>1 DEF Lineage
  <2> QED BY <1>1, <2>1, <2>2 DEF Create, TypeOK
<1>2. ASSUME NEW r \in Requests, Arrive(r) \/ Crash(r)
      PROVE  family' = family
  BY <1>2 DEF Arrive, StartLogin, StartRefresh, StartLogout, Begin, Crash, history
<1>3. ASSUME NEW r \in Requests,
             ReadUser(r) \/ FindToken(r) \/ Consume(r) \/ Sign(r)
               \/ SetSession(r) \/ Respond(r) \/ RevokeAll(r) \/ DelSession(r)
      PROVE  family' = family
  BY <1>3 DEF ReadUser, FindToken, Consume, Sign, SetSession, Respond,
              RevokeAll, DelSession, history
<1>4. ASSUME NEW u \in Users, SetAccount(u) \/ DeleteAccount(u)
      PROVE  family' = family
  BY <1>4 DEF SetAccount, DeleteAccount, history
<1>5. Tick => family' = family
  BY DEF Tick, history
<1>6. UNCHANGED vars => family' = family
  BY DEF vars
<1> QED
  BY <1>1, <1>2, <1>3, <1>4, <1>5, <1>6 DEF Next, Handler

\* A request stays well formed when a step leaves its own variables alone.
LEMMA OtherRequest ==
    ASSUME TypeOK, NEW x \in Requests, RequestOK(x),
           \A t \in Token : family[t] # NoToken => family'[t] = family[t],
           pc'[x] = pc[x], op'[x] = op[x], who'[x] = who[x],
           token'[x] = token[x], fresh'[x] = fresh[x]
    PROVE  RequestOK(x)'
<1>1. Rotating(x)' <=> Rotating(x)
  BY DEF Rotating
<1>2. pc[x] = "consume" \/ Rotating(x) => token[x] \in Token
  BY DEF RequestOK, Rotating
<1>3. pc[x] = "consume" \/ Rotating(x) => family'[token'[x]] # NoToken
  BY <1>2 DEF RequestOK
<1> QED BY <1>1, <1>3 DEF RequestOK

\* A step of request r leaves the local variables of every other request alone.
LEMMA OneRequestMoves ==
    ASSUME TypeOK, NEW r \in Requests, Arrive(r) \/ Handler(r) \/ Crash(r)
    PROVE  \A x \in Requests \ {r} :
              /\ pc'[x] = pc[x] /\ op'[x] = op[x] /\ who'[x] = who[x]
              /\ token'[x] = token[x] /\ fresh'[x] = fresh[x]
<1>1. CASE Arrive(r)
  BY <1>1 DEF Arrive, StartLogin, StartRefresh, StartLogout, Begin, TypeOK
<1>2. CASE ReadUser(r) \/ FindToken(r) \/ Consume(r) \/ SetSession(r)
             \/ RevokeAll(r) \/ Create(r)
  <2>1. LocalsOK
    BY TypeParts
  <2>2. \/ Finish(r)
        \/ \E s \in Steps : Goto(r, s) /\ UNCHANGED <<locals, fresh>>
    BY <1>2, <2>1, ControlStep
  <2> QED BY <2>1, <2>2 DEF Finish, Goto, locals, LocalsOK
<1>3. CASE Sign(r)
  BY <1>3 DEF Sign, Goto, locals, TypeOK
<1>4. CASE Respond(r) \/ DelSession(r) \/ Crash(r)
  <2>1. Finish(r)
    BY <1>4 DEF Respond, DelSession, Crash
  <2> QED BY <2>1 DEF Finish, TypeOK
<1> QED BY <1>1, <1>2, <1>3, <1>4 DEF Handler

\* A request that has returned is well formed.
LEMMA FinishedOK ==
    ASSUME TypeOK, NEW r \in Requests, Finish(r)
    PROVE  RequestOK(r)'
  BY DEF Finish, RequestOK, Rotating, TypeOK

\* Every step keeps what is known of each request: another request cannot change
\* its local variables, and the family of a persisted token is never forgotten.
LEMMA RequestsStep ==
    TypeOK /\ RequestsOK /\ Lineage /\ [Next]_vars => RequestsOK'
<1> SUFFICES ASSUME TypeOK, RequestsOK, Lineage, [Next]_vars,
                    NEW x \in Requests
             PROVE  RequestOK(x)'
  BY DEF RequestsOK
<1>0. \A t \in Token : family[t] # NoToken => family'[t] = family[t]
  BY FamilyGrows
<1>1. RequestOK(x)
  BY DEF RequestsOK
<1>2. ASSUME NEW r \in Requests, Arrive(r) \/ Handler(r) \/ Crash(r), r # x
      PROVE  RequestOK(x)'
  BY <1>0, <1>1, <1>2, OneRequestMoves, OtherRequest
<1>3. CASE Arrive(x)
  <2>1. CASE \E u \in Users : StartLogin(x, u) \/ StartLogout(x, u)
    BY <2>1 DEF StartLogin, StartLogout, Begin, RequestOK, Rotating, TypeOK
  <2>2. ASSUME NEW t \in Token, StartRefresh(x, t)
        PROVE  RequestOK(x)'
    <3>1. t.user \in Users
      BY DEF Token
    <3> QED BY <2>2, <3>1 DEF StartRefresh, Begin, RequestOK, Rotating, TypeOK
  <2> QED BY <1>3, <2>1, <2>2 DEF Arrive
<1>4. CASE ReadUser(x)
  <2>1. CASE Finish(x)
    BY <2>1, FinishedOK
  <2>2. CASE ~Finish(x)
    BY <1>1, <1>4, <2>2
    DEF ReadUser, Goto, RequestOK, Rotating, TypeOK, locals, history
  <2> QED BY <2>1, <2>2
<1>5. CASE FindToken(x)
  <2>1. CASE Finish(x)
    BY <2>1, FinishedOK
  <2>2. CASE ~Finish(x)
    <3>1. token[x] \in Token /\ who[x] \in Users /\ op[x] = "refresh"
             /\ who[x] = token[x].user
      BY <1>1, <1>5 DEF FindToken, RequestOK
    <3>2. rows[token[x]] = "live" => family[token[x]] # NoToken
      BY <3>1 DEF Lineage
    <3>3. UNCHANGED <<op, who, token, fresh, family>>
      BY <1>5, <2>2 DEF FindToken, locals, history
    <3>4. \/ pc'[x] = "consume" /\ rows[token[x]] = "live"
          \/ pc'[x] = "revokeAll"
      BY <1>5, <2>2 DEF FindToken, Goto, TypeOK
    <3> QED BY <3>1, <3>2, <3>3, <3>4 DEF RequestOK, Rotating
  <2> QED BY <2>1, <2>2
<1>6. CASE Consume(x)
  BY <1>1, <1>6 DEF Consume, Goto, RequestOK, Rotating, TypeOK, locals, history
<1>7. CASE Sign(x)
  <2>1. who[x] \in Users
    BY <1>1, <1>7 DEF Sign, RequestOK
  <2>2. SignedNow(who[x]) \in Token /\ SignedNow(who[x]).user = who[x]
    BY <2>1, SignedOK, TypeParts
  <2> QED BY <1>1, <1>7, <2>1, <2>2
          DEF Sign, Goto, RequestOK, Rotating, TypeOK, locals, history
<1>8. CASE Create(x)
  <2>1. pc'[x] = "setSession" /\ UNCHANGED <<op, who, token, fresh>>
    BY <1>8 DEF Create, Goto, TypeOK, locals
  <2>2. pc[x] = "create"
    BY <1>8 DEF Create
  <2> QED BY <1>1, <2>1, <2>2 DEF RequestOK, Rotating
<1>9. CASE SetSession(x) \/ RevokeAll(x)
  BY <1>1, <1>9
  DEF SetSession, RevokeAll, Goto, RequestOK, Rotating, TypeOK, locals
<1>10. CASE Respond(x) \/ DelSession(x) \/ Crash(x)
  BY <1>10, FinishedOK DEF Respond, DelSession, Crash
<1>11. CASE \/ \E u \in Users : SetAccount(u) \/ DeleteAccount(u)
            \/ Tick \/ UNCHANGED vars
  <2>1. UNCHANGED <<pc, op, who, token, fresh>>
    BY <1>11 DEF SetAccount, DeleteAccount, Tick, vars, locals
  <2> QED BY <1>0, <1>1, <2>1, OtherRequest
<1> QED
  BY <1>2, <1>3, <1>4, <1>5, <1>6, <1>7, <1>8, <1>9, <1>10, <1>11
  DEF Next, Handler
\* What each step may do to the tables, seen from the rows: make one token live
\* that never was (Create), burn one (Consume), or remove some.
LEMMA RowsStep ==
    ASSUME TypeOK, RequestsOK, Lineage, [Next]_vars
    PROVE  \/ \E r \in Requests :
                /\ Create(r)
                /\ fresh[r] \in Token /\ RootOf(r) \in Token
                /\ rows[fresh[r]] = "absent" /\ account[fresh[r].user] # "deleted"
                /\ rows' = [rows EXCEPT ![fresh[r]] = "live"]
                /\ family' = [family EXCEPT ![fresh[r]] = RootOf(r)]
                /\ UNCHANGED account
           \/ /\ family' = family
              /\ \A t \in Token : rows'[t] = "live" => rows[t] = "live"
              /\ \A t \in Token : rows'[t] # "absent" => rows[t] # "absent"
              /\ \A t \in Token : rows[t] # "absent" /\ rows'[t] = "absent"
                                   => account'[t.user] = "deleted"
              /\ \A u \in Users :
                    account[u] = "deleted" => account'[u] = "deleted"
<1> DEFINE Made(r) ==
               /\ fresh[r] \in Token /\ RootOf(r) \in Token
               /\ rows[fresh[r]] = "absent" /\ account[fresh[r].user] # "deleted"
               /\ rows' = [rows EXCEPT ![fresh[r]] = "live"]
               /\ family' = [family EXCEPT ![fresh[r]] = RootOf(r)]
               /\ UNCHANGED account
           Same == UNCHANGED <<family, rows, account>>
<1>1. ASSUME NEW r \in Requests, Create(r)
      PROVE  Made(r) \/ Same
  <2>1. RequestOK(r) /\ pc[r] = "create"
    BY <1>1 DEF Create, RequestsOK
  <2>2. fresh[r] \in Token /\ fresh[r].user = who[r]
    BY <2>1 DEF RequestOK
  <2>3. RootOf(r) \in Token
    BY <2>1, <2>2 DEF RequestOK, RootOf, Rotating, TypeOK
  <2> QED BY <1>1, <2>2, <2>3 DEF Create
<1>2. ASSUME NEW r \in Requests, Arrive(r) \/ Crash(r)
      PROVE  Same
  BY <1>2 DEF Arrive, StartLogin, StartRefresh, StartLogout, Begin, Crash, history
<1>3. ASSUME NEW r \in Requests,
             ReadUser(r) \/ FindToken(r) \/ Sign(r) \/ SetSession(r)
               \/ Respond(r) \/ DelSession(r)
      PROVE  Same
  BY <1>3 DEF ReadUser, FindToken, Sign, SetSession, Respond, DelSession, history
<1>4. ASSUME NEW r \in Requests, Consume(r) \/ RevokeAll(r)
      PROVE  /\ UNCHANGED <<family, account>>
             /\ \A t \in Token : \/ rows'[t] = rows[t]
                                 \/ rows[t] = "live" /\ rows'[t] = "revoked"
  <2>1. CASE Consume(r)
    <3>1. token[r] \in Token
      BY <2>1 DEF Consume, RequestsOK, RequestOK
    <3> QED BY <2>1, <3>1 DEF Consume, TypeOK, history
  <2>2. CASE RevokeAll(r)
    <3>1. \/ UNCHANGED rows
          \/ rows' = [t \in Token |-> IF t \in LiveTokensOf(who[r])
                                      THEN "revoked" ELSE rows[t]]
      BY <2>2 DEF RevokeAll
    <3>2. \A t \in Token : \/ rows'[t] = rows[t]
                           \/ rows[t] = "live" /\ rows'[t] = "revoked"
      BY <3>1 DEF LiveTokensOf
    <3>3. UNCHANGED <<family, account>>
      BY <2>2 DEF RevokeAll
    <3> QED BY <3>2, <3>3
  <2> QED BY <1>4, <2>1, <2>2
<1>5. ASSUME NEW u \in Users, DeleteAccount(u)
      PROVE  /\ UNCHANGED family
             /\ account'[u] = "deleted"
             /\ \A v \in Users : v # u => account'[v] = account[v]
             /\ \A t \in Token : \/ rows'[t] = rows[t]
                                 \/ t.user = u /\ rows'[t] = "absent"
  <2>1. rows' = [t \in Token |-> IF t.user = u THEN "absent" ELSE rows[t]]
    BY <1>5 DEF DeleteAccount
  <2>2. \A t \in Token : \/ rows'[t] = rows[t]
                         \/ t.user = u /\ rows'[t] = "absent"
    BY <2>1
  <2>3. account' = [account EXCEPT ![u] = "deleted"] /\ UNCHANGED family
    BY <1>5 DEF DeleteAccount, history
  <2>4. account \in [Users -> {"active", "blocked", "deleted"}]
    BY DEF TypeOK
  <2> QED BY <2>2, <2>3, <2>4
<1>6. ASSUME NEW u \in Users, SetAccount(u)
      PROVE  /\ UNCHANGED <<family, rows>>
             /\ \A v \in Users : account[v] = "deleted" => account'[v] = "deleted"
  BY <1>6 DEF SetAccount, TypeOK, history
<1>7. Tick \/ UNCHANGED vars => Same
  BY DEF Tick, vars, history
<1>8. \A t \in Token : t.user \in Users
  BY DEF Token
<1>9. CASE \E r \in Requests : Create(r) /\ Made(r)
  BY <1>9
<1>10. CASE \/ Same
            \/ \E r \in Requests : Consume(r) \/ RevokeAll(r)
            \/ \E u \in Users : DeleteAccount(u) \/ SetAccount(u)
  BY <1>4, <1>5, <1>6, <1>8, <1>10
<1> QED
  BY <1>1, <1>2, <1>3, <1>7, <1>9, <1>10 DEF Next, Handler

\* A token no row was ever made for names no family.
LEMMA UnusedRoot ==
    ASSUME TypeOK, Lineage, NEW f \in Token, family[f] = NoToken
    PROVE  \A t \in Token : family[t] # f
<1> SUFFICES ASSUME NEW t \in Token, family[t] = f PROVE FALSE
  OBVIOUS
<1>1. family[t] # NoToken
  BY ConstantsAssumption
<1>2. family[family[t]] = family[t]
  BY <1>1 DEF Lineage
<1> QED BY <1>1, <1>2

\* Every step keeps the lineage: only Create persists a token, and its row descends
\* from the row the request has consumed, or from itself at a login.
LEMMA LineageStep ==
    TypeOK /\ RequestsOK /\ Lineage /\ [Next]_vars => Lineage'
<1> SUFFICES ASSUME TypeOK, RequestsOK, Lineage, [Next]_vars, NEW t \in Token
             PROVE  /\ rows'[t] # "absent" => family'[t] # NoToken
                    /\ family'[t] # NoToken =>
                          /\ family'[t].user = t.user
                          /\ family'[family'[t]] = family'[t]
                          /\ rows'[t] # "absent" \/ account'[t.user] = "deleted"
  BY DEF Lineage
<1>0. t.user \in Users
  BY DEF Token
<1>1. ASSUME NEW r \in Requests, Create(r),
             fresh[r] \in Token, RootOf(r) \in Token,
             rows[fresh[r]] = "absent", account[fresh[r].user] # "deleted",
             rows' = [rows EXCEPT ![fresh[r]] = "live"],
             family' = [family EXCEPT ![fresh[r]] = RootOf(r)],
             UNCHANGED account
      PROVE  /\ rows'[t] # "absent" => family'[t] # NoToken
             /\ family'[t] # NoToken =>
                   /\ family'[t].user = t.user
                   /\ family'[family'[t]] = family'[t]
                   /\ rows'[t] # "absent" \/ account'[t.user] = "deleted"
  <2>1. family[fresh[r]] = NoToken
    BY <1>1 DEF Lineage
  <2>2. RequestOK(r) /\ pc[r] = "create"
    BY <1>1 DEF Create, RequestsOK
  <2>3. RootOf(r).user = fresh[r].user
    <3>1. CASE op[r] = "refresh"
      BY <2>2, <3>1 DEF RootOf, RequestOK, Rotating, Lineage
    <3>2. CASE op[r] # "refresh"
      BY <3>2 DEF RootOf
    <3> QED BY <3>1, <3>2
  <2>4. \/ RootOf(r) = fresh[r]
        \/ family[RootOf(r)] = RootOf(r) /\ RootOf(r) # fresh[r]
    <3>1. CASE op[r] = "refresh"
      <4>1. token[r] \in Token /\ family[token[r]] # NoToken
        BY <2>2, <3>1 DEF RequestOK, Rotating
      <4>2. family[RootOf(r)] = RootOf(r)
        BY <3>1, <4>1 DEF RootOf, Lineage
      <4>3. RootOf(r) # NoToken
        BY <1>1, ConstantsAssumption
      <4> QED BY <2>1, <4>2, <4>3
    <3>2. CASE op[r] # "refresh"
      BY <3>2 DEF RootOf
    <3> QED BY <3>1, <3>2
  <2>5. CASE t = fresh[r]
    <3>1. family'[t] = RootOf(r) /\ rows'[t] = "live"
      BY <1>1, <2>5 DEF TypeOK
    <3>2. family'[RootOf(r)] = RootOf(r)
      BY <1>1, <2>4 DEF TypeOK
    <3> QED BY <1>1, <2>3, <2>5, <3>1, <3>2, ConstantsAssumption
  <2>6. CASE t # fresh[r]
    <3>1. family'[t] = family[t] /\ rows'[t] = rows[t]
      BY <1>1, <2>6 DEF TypeOK
    <3>2. family[t] # NoToken => family[t] \in Token /\ family[t] # fresh[r]
      BY <1>1, <2>1, UnusedRoot DEF TypeOK
    <3>3. family[t] # NoToken => family'[family[t]] = family[family[t]]
      BY <1>1, <3>2 DEF TypeOK
    <3> QED BY <1>1, <3>1, <3>3 DEF Lineage
  <2> QED BY <2>5, <2>6
<1>2. CASE /\ family' = family
           /\ \A x \in Token : rows'[x] # "absent" => rows[x] # "absent"
           /\ \A x \in Token : rows[x] # "absent" /\ rows'[x] = "absent"
                                => account'[x.user] = "deleted"
           /\ \A u \in Users :
                 account[u] = "deleted" => account'[u] = "deleted"
  BY <1>0, <1>2 DEF Lineage
<1> QED BY <1>1, <1>2, RowsStep
-----------------------------------------------------------------------------
(* One holder per login.                                                   *)

Wins(r) == Consume(r) /\ rows[token[r]] = "live"

\* A request becomes the holder of a login only by winning the conditional update.
LEMMA RotatingStep ==
    ASSUME TypeOK, RequestsOK, [Next]_vars, NEW x \in Requests, Rotating(x)'
    PROVE  token'[x] = token[x] /\ (Rotating(x) \/ Wins(x))
<1> DEFINE Goal == token'[x] = token[x] /\ (Rotating(x) \/ Wins(x))
<1>0. pc'[x] \in {"sign", "create"} /\ op'[x] = "refresh"
  BY DEF Rotating
<1>1. ASSUME NEW r \in Requests, Arrive(r) \/ Handler(r) \/ Crash(r), r # x
      PROVE  Goal
  BY <1>0, <1>1, OneRequestMoves DEF Rotating
<1>2. CASE Arrive(x)
  BY <1>0, <1>2 DEF Arrive, StartLogin, StartRefresh, StartLogout, Begin, TypeOK
<1>3. CASE Finish(x)
  BY <1>0, <1>3 DEF Finish, TypeOK
<1>4. CASE ReadUser(x) \/ FindToken(x) \/ SetSession(x) \/ RevokeAll(x) \/ Create(x)
  <2>1. CASE ReadUser(x)
    BY <1>0, <1>3, <2>1 DEF ReadUser, Goto, TypeOK
  <2>2. CASE FindToken(x)
    BY <1>0, <1>3, <2>2 DEF FindToken, Goto, TypeOK
  <2>3. CASE SetSession(x) \/ RevokeAll(x) \/ Create(x)
    BY <1>0, <2>3 DEF SetSession, RevokeAll, Create, Goto, TypeOK
  <2> QED BY <1>4, <2>1, <2>2, <2>3
<1>5. CASE Consume(x)
  BY <1>0, <1>5 DEF Consume, Goto, TypeOK, locals, Wins
<1>6. CASE Sign(x)
  BY <1>0, <1>6 DEF Sign, Goto, TypeOK, locals, Rotating
<1>7. CASE Respond(x) \/ DelSession(x) \/ Crash(x)
  BY <1>3, <1>7 DEF Respond, DelSession, Crash
<1>8. CASE \/ \E u \in Users : SetAccount(u) \/ DeleteAccount(u)
           \/ Tick \/ UNCHANGED vars
  <2>1. UNCHANGED <<pc, op, token>>
    BY <1>8 DEF SetAccount, DeleteAccount, Tick, vars, locals
  <2> QED BY <1>0, <2>1 DEF Rotating
<1> QED
  BY <1>1, <1>2, <1>4, <1>5, <1>6, <1>7, <1>8 DEF Next, Handler

\* Every step keeps one holder per login: Consume takes the working token away from
\* the table and gives it to one request, Create gives it back.
LEMMA OneHolderStep ==
    TypeOK /\ RequestsOK /\ Lineage /\ OneHolder /\ [Next]_vars => OneHolder'
<1> SUFFICES ASSUME TypeOK, RequestsOK, Lineage, OneHolder, [Next]_vars
             PROVE  OneHolder'
  OBVIOUS
<1>0. \A x \in Requests : Rotating(x) => token[x] \in Token
                                       /\ family[token[x]] \in Token
  BY ConstantsAssumption DEF RequestsOK, RequestOK, Rotating, TypeOK
<1>1. ASSUME NEW r \in Requests, Wins(r)
      PROVE  OneHolder'
  <2>1. token[r] \in Token /\ family[token[r]] # NoToken
    BY <1>1 DEF Wins, Consume, RequestsOK, RequestOK
  <2>2. family' = family /\ rows' = [rows EXCEPT ![token[r]] = "revoked"]
    BY <1>1 DEF Wins, Consume, history
  <2>3. \A t \in Token : rows'[t] = "live" => rows[t] = "live" /\ t # token[r]
    BY <2>1, <2>2 DEF TypeOK
  <2>4. \A x \in Requests : Rotating(x)' =>
            token'[x] = token[x] /\ (Rotating(x) \/ x = r)
    <3>1. \A x \in Requests : Rotating(x)' => token'[x] = token[x]
      BY RotatingStep
    <3>2. \A x \in Requests : x # r /\ Rotating(x)' => Rotating(x)
      <4>1. Handler(r)
        BY <1>1 DEF Wins, Handler
      <4> QED BY <4>1, OneRequestMoves DEF Rotating
    <3> QED BY <3>1, <3>2
  <2>5. rows[token[r]] = "live"
    BY <1>1 DEF Wins
  <2>6. OneLivePerLogin'
    BY <2>2, <2>3 DEF OneHolder, OneLivePerLogin
  <2>7. ASSUME NEW x \in Requests, NEW t \in Token, Rotating(x)', rows'[t] = "live"
        PROVE  family'[t] # family'[token'[x]]
    BY <2>1, <2>2, <2>3, <2>4, <2>5, <2>7 DEF OneHolder, OneLivePerLogin
  <2>8. ASSUME NEW x \in Requests, NEW y \in Requests,
               Rotating(x)', Rotating(y)',
               family'[token'[x]] = family'[token'[y]]
        PROVE  x = y
    BY <2>1, <2>2, <2>4, <2>5, <2>8 DEF OneHolder
  <2> QED BY <2>6, <2>7, <2>8 DEF OneHolder
<1>2. ASSUME NEW r \in Requests, Create(r),
             fresh[r] \in Token, RootOf(r) \in Token,
             rows[fresh[r]] = "absent", account[fresh[r].user] # "deleted",
             rows' = [rows EXCEPT ![fresh[r]] = "live"],
             family' = [family EXCEPT ![fresh[r]] = RootOf(r)]
      PROVE  OneHolder'
  <2>1. family[fresh[r]] = NoToken
    BY <1>2 DEF Lineage
  <2>2. \A t \in Token : rows'[t] = "live" => rows[t] = "live" \/ t = fresh[r]
    BY <1>2 DEF TypeOK
  <2>3. \A t \in Token : t # fresh[r] => family'[t] = family[t]
    BY <1>2 DEF TypeOK
  <2>4. family'[fresh[r]] = RootOf(r)
    BY <1>2 DEF TypeOK
  <2>5. pc[r] = "create" /\ pc'[r] = "setSession"
    BY <1>2 DEF Create, Goto, TypeOK
  <2>6. \A x \in Requests : ~ Wins(x)
    <3>1. ASSUME NEW x \in Requests, Wins(x) PROVE FALSE
      BY <3>1, <1>2, <2>5 DEF Wins, Consume, Goto, TypeOK
    <3> QED BY <3>1
  <2>7. \A x \in Requests : Rotating(x)' =>
            /\ x # r /\ Rotating(x) /\ token'[x] = token[x]
            /\ token[x] # fresh[r]
            /\ family'[token'[x]] = family[token[x]]
    <3>1. \A x \in Requests : Rotating(x)' =>
              x # r /\ Rotating(x) /\ token'[x] = token[x]
      BY <2>5, <2>6, RotatingStep DEF Rotating
    <3> QED BY <1>0, <2>1, <2>3, <3>1, ConstantsAssumption
  <2>8. \A t \in Token : rows[t] = "live" => family[t] # RootOf(r)
    <3>1. CASE op[r] = "refresh"
      BY <2>5, <3>1 DEF RootOf, Rotating, OneHolder
    <3>2. CASE op[r] # "refresh"
      BY <1>2, <2>1, <3>2, UnusedRoot DEF RootOf
    <3> QED BY <3>1, <3>2
  <2>9. \A x \in Requests \ {r} : Rotating(x) => family[token[x]] # RootOf(r)
    <3>1. CASE op[r] = "refresh"
      BY <2>5, <3>1 DEF RootOf, Rotating, OneHolder
    <3>2. CASE op[r] # "refresh"
      BY <1>0, <1>2, <2>1, <3>2, UnusedRoot DEF RootOf
    <3> QED BY <3>1, <3>2
  <2>10. rows[fresh[r]] # "live"
    BY <1>2
  <2>11. OneLivePerLogin'
    BY <2>2, <2>3, <2>4, <2>8, <2>10 DEF OneHolder, OneLivePerLogin
  <2>12. ASSUME NEW x \in Requests, NEW t \in Token, Rotating(x)', rows'[t] = "live"
         PROVE  family'[t] # family'[token'[x]]
    BY <2>2, <2>3, <2>4, <2>7, <2>9, <2>12 DEF OneHolder
  <2>13. ASSUME NEW x \in Requests, NEW y \in Requests,
                Rotating(x)', Rotating(y)',
                family'[token'[x]] = family'[token'[y]]
         PROVE  x = y
    BY <2>7, <2>13 DEF OneHolder
  <2> QED BY <2>11, <2>12, <2>13 DEF OneHolder
<1>3. CASE /\ family' = family
           /\ \A t \in Token : rows'[t] = "live" => rows[t] = "live"
           /\ \A r \in Requests : ~ Wins(r)
  <2>1. \A x \in Requests : Rotating(x)' => Rotating(x) /\ token'[x] = token[x]
    BY <1>3, RotatingStep
  <2> QED BY <1>3, <2>1 DEF OneHolder, OneLivePerLogin
<1> QED BY <1>1, <1>2, <1>3, RowsStep

-----------------------------------------------------------------------------
(* The theorems.                                                           *)

IInv == TypeOK /\ RequestsOK /\ Lineage /\ OneHolder

\* The inductive invariant holds initially.
LEMMA InitIInv == Init => IInv
<1> SUFFICES ASSUME Init PROVE IInv
  OBVIOUS
<1>1. TypeOK
  BY TypeInit
<1>2. \A t \in Token : rows[t] = "absent" /\ family[t] = NoToken
  BY DEF Init
<1>3. \A r \in Requests : pc[r] = "idle" /\ op[r] = "none"
  BY DEF Init
<1>4. RequestsOK
  BY <1>3 DEF RequestsOK, RequestOK, Rotating
<1>5. Lineage
  BY <1>2 DEF Lineage
<1>6. OneHolder
  BY <1>2, <1>3 DEF OneHolder, OneLivePerLogin, Rotating
<1> QED BY <1>1, <1>4, <1>5, <1>6 DEF IInv

\* And every step keeps it.
LEMMA StepIInv == IInv /\ [Next]_vars => IInv'
  BY TypeStep, RequestsStep, LineageStep, OneHolderStep DEF IInv

\* So it holds in every reachable state.
LEMMA Invariance == Spec => []IInv
  BY InitIInv, StepIInv, PTL DEF Spec

\* The tables and the handlers' variables keep their types in every execution.
THEOREM TypeCorrect == Spec => []TypeOK
<1>1. IInv => TypeOK
  BY DEF IInv
<1> QED BY Invariance, <1>1, PTL

\* Every row of the RefreshToken table descends from one login of its account.
THEOREM LineageCorrect == Spec => []Lineage
<1>1. IInv => Lineage
  BY DEF IInv
<1> QED BY Invariance, <1>1, PTL

\* However requests of any number interleave, crash, replay spent tokens or lose
\* responses, a login never has two refresh tokens that work (refresh, Consume).
THEOREM RotationIsExclusive == Spec => []OneLivePerLogin
<1>1. IInv => OneLivePerLogin
  BY DEF IInv, OneHolder
<1> QED BY Invariance, <1>1, PTL

\* Counting the requests that have consumed a token and not yet created its
\* successor, a login still has one holder at most.
THEOREM HolderIsExclusive == Spec => []OneHolder
<1>1. IInv => OneHolder
  BY DEF IInv
<1> QED BY Invariance, <1>1, PTL
-----------------------------------------------------------------------------
(* Refinement.                                                             *)

\* CurrentOf over explicit tables, so that one lemma serves both ends of a step.
LiveIn(R, F, f, t) == t \in Token /\ R[t] = "live" /\ F[t] = f
Cur(R, F, f) == IF \E t \in Token : R[t] = "live" /\ F[t] = f
                THEN CHOOSE t \in Token : R[t] = "live" /\ F[t] = f
                ELSE NoToken

\* With at most one live token per login, CurrentOf is that token.
LEMMA CurrentIs ==
    ASSUME NEW R, NEW F, NEW f, NEW t, LiveIn(R, F, f, t),
           \A t1, t2 \in Token :
               R[t1] = "live" /\ R[t2] = "live" /\ F[t1] = F[t2] => t1 = t2
    PROVE  Cur(R, F, f) = t
<1> DEFINE P(x) == R[x] = "live" /\ F[x] = f
<1>1. t \in Token /\ P(t)
  BY DEF LiveIn
<1>2. Cur(R, F, f) = CHOOSE x \in Token : P(x)
  BY <1>1 DEF Cur
<1>3. (CHOOSE x \in Token : P(x)) \in Token /\ P(CHOOSE x \in Token : P(x))
  BY <1>1
<1> QED BY <1>1, <1>2, <1>3

\* A login with no live row has no current token.
LEMMA CurrentIsNone ==
    ASSUME NEW R, NEW F, NEW f, \A t \in Token : ~ LiveIn(R, F, f, t)
    PROVE  Cur(R, F, f) = NoToken
  BY DEF Cur, LiveIn

\* When no token of f starts or stops working, its current token is the same.
LEMMA CurrentSame ==
    ASSUME NEW R, NEW F, NEW S, NEW G, NEW f,
           \A t1, t2 \in Token :
               R[t1] = "live" /\ R[t2] = "live" /\ F[t1] = F[t2] => t1 = t2,
           \A t1, t2 \in Token :
               S[t1] = "live" /\ S[t2] = "live" /\ G[t1] = G[t2] => t1 = t2,
           \A t \in Token : LiveIn(R, F, f, t) <=> LiveIn(S, G, f, t)
    PROVE  Cur(R, F, f) = Cur(S, G, f)
<1>1. CASE \E t \in Token : LiveIn(R, F, f, t)
  <2>1. PICK t \in Token : LiveIn(R, F, f, t)
    BY <1>1
  <2>2. Cur(R, F, f) = t
    BY <2>1, CurrentIs
  <2>3. LiveIn(S, G, f, t)
    BY <2>1
  <2>4. Cur(S, G, f) = t
    BY <2>3, CurrentIs
  <2> QED BY <2>2, <2>4
<1>2. CASE ~ \E t \in Token : LiveIn(R, F, f, t)
  BY <1>2, CurrentIsNone
<1> QED BY <1>1, <1>2

Current == [f \in Token |-> CurrentOf(f)]
Used == {t \in Token : family[t] # NoToken}

\* The initial states are those of SessionLineage.
LEMMA RefinesInit == Init => SL!Init
<1> SUFFICES ASSUME Init PROVE SL!Init
  OBVIOUS
<1>1. \A t \in Token : rows[t] = "absent" /\ family[t] = NoToken
  BY DEF Init
<1>2. \A f \in Token : CurrentOf(f) = NoToken
  BY <1>1 DEF CurrentOf
<1> QED BY <1>1, <1>2 DEF SL!Init

\* Every step is a step of SessionLineage, or changes nothing that it sees.
LEMMA RefinesStep ==
    IInv /\ IInv' /\ [Next]_vars
      => SL!Next \/ UNCHANGED <<Current, Used>>
<1> SUFFICES ASSUME IInv, IInv', [Next]_vars
             PROVE  SL!Next \/ UNCHANGED <<Current, Used>>
  OBVIOUS
<1>0. /\ TypeOK /\ RequestsOK /\ Lineage /\ OneHolder
      /\ OneLivePerLogin /\ OneLivePerLogin'
  BY DEF IInv, OneHolder
<1>1. \A f \in Token : /\ CurrentOf(f) = Cur(rows, family, f)
                       /\ CurrentOf(f)' = Cur(rows', family', f)
  BY DEF CurrentOf, Cur
<1>2. /\ \A t1, t2 \in Token :
            rows[t1] = "live" /\ rows[t2] = "live" /\ family[t1] = family[t2]
              => t1 = t2
      /\ \A t1, t2 \in Token :
            rows'[t1] = "live" /\ rows'[t2] = "live" /\ family'[t1] = family'[t2]
              => t1 = t2
  BY <1>0 DEF OneLivePerLogin
<1>3. ASSUME NEW r \in Requests, Create(r),
             fresh[r] \in Token, RootOf(r) \in Token,
             rows[fresh[r]] = "absent", account[fresh[r].user] # "deleted",
             rows' = [rows EXCEPT ![fresh[r]] = "live"],
             family' = [family EXCEPT ![fresh[r]] = RootOf(r)]
      PROVE  SL!Next
  <2>0. PICK n \in Token, g \in Token : n = fresh[r] /\ g = RootOf(r)
    BY <1>3
  <2>1. family[n] = NoToken /\ n \notin Used
    BY <2>0, <1>0, <1>3 DEF Lineage, Used
  <2>2. /\ rows'[n] = "live" /\ family'[n] = g
        /\ \A t \in Token : t # n => rows'[t] = rows[t] /\ family'[t] = family[t]
    BY <2>0, <1>0, <1>3 DEF TypeOK
  <2>3. CurrentOf(g)' = n
    <3>1. LiveIn(rows', family', g, n)
      BY <2>2 DEF LiveIn
    <3>2. Cur(rows', family', g) = n
      BY <1>2, <3>1, CurrentIs
    <3> QED BY <1>1, <3>2
  <2>4. \A f \in Token : f # g => CurrentOf(f)' = CurrentOf(f)
    <3>1. ASSUME NEW f \in Token, f # g
          PROVE  \A t \in Token :
                    LiveIn(rows, family, f, t) <=> LiveIn(rows', family', f, t)
      BY <2>0, <1>3, <2>2, <3>1 DEF LiveIn
    <3> QED BY <1>1, <1>2, <3>1, CurrentSame
  <2>5. Current' = [Current EXCEPT ![g] = n]
    BY <2>0, <1>3, <2>3, <2>4 DEF Current
  <2>6. Used' = Used \cup {n}
    BY <2>0, <1>3, <2>2, ConstantsAssumption DEF Used
  <2>7. CASE op[r] = "refresh"
    <3>1. RequestOK(r) /\ pc[r] = "create"
      BY <2>0, <1>0, <1>3 DEF Create, RequestsOK
    <3>2. family[token[r]] # NoToken /\ token[r] \in Token
             /\ family[token[r]] = g
      BY <2>0, <2>7, <3>1 DEF RequestOK, Rotating, RootOf
    <3>3. g \in Used
      BY <2>0, <1>0, <1>3, <3>2, ConstantsAssumption DEF Lineage, Used
    <3>4. \A t \in Token : ~ LiveIn(rows, family, g, t)
      BY <1>0, <2>7, <3>1, <3>2 DEF OneHolder, Rotating, LiveIn
    <3>5. Current[g] = NoToken
      BY <2>0, <1>1, <1>3, <3>4, CurrentIsNone DEF Current
    <3>6. SL!Renew(g, n)
      BY <2>1, <2>5, <2>6, <3>3, <3>5 DEF SL!Renew, Current, Used
    <3> QED BY <2>0, <1>3, <3>6 DEF SL!Next
  <2>8. CASE op[r] # "refresh"
    <3>1. g = n
      BY <2>0, <2>8 DEF RootOf
    <3>2. SL!Open(n)
      BY <2>1, <2>5, <2>6, <3>1 DEF SL!Open, Current, Used
    <3> QED BY <2>0, <1>3, <3>2 DEF SL!Next
  <2> QED BY <2>7, <2>8
<1>4. CASE /\ family' = family
           /\ \A t \in Token : rows'[t] = "live" => rows[t] = "live"
  <2> DEFINE Gone == {f \in Token : \A t \in Token : ~ LiveIn(rows', family', f, t)}
  <2>1. \A f \in Gone : CurrentOf(f)' = NoToken
    BY <1>1, CurrentIsNone
  <2>2. \A f \in Token \ Gone : CurrentOf(f)' = CurrentOf(f)
    <3>1. ASSUME NEW f \in Token, f \notin Gone
          PROVE  CurrentOf(f)' = CurrentOf(f)
      <4>1. PICK t \in Token : LiveIn(rows', family', f, t)
        BY <3>1
      <4>2. LiveIn(rows, family, f, t)
        BY <1>4, <4>1 DEF LiveIn
      <4>3. Cur(rows', family', f) = t
        BY <1>2, <4>1, CurrentIs
      <4>4. Cur(rows, family, f) = t
        BY <1>2, <4>2, CurrentIs
      <4> QED BY <1>1, <4>3, <4>4
    <3> QED BY <3>1
  <2>3. Current' = [f \in Token |-> IF f \in Gone THEN NoToken ELSE Current[f]]
    BY <2>1, <2>2 DEF Current
  <2>4. Used' = Used
    BY <1>4 DEF Used
  <2>5. SL!Retire(Gone)
    BY <2>3, <2>4 DEF SL!Retire, Current, Used
  <2>6. Gone \in SUBSET Token
    OBVIOUS
  <2> QED BY <2>5, <2>6 DEF SL!Next
<1>5. \/ \E r \in Requests :
            /\ Create(r)
            /\ fresh[r] \in Token /\ RootOf(r) \in Token
            /\ rows[fresh[r]] = "absent" /\ account[fresh[r].user] # "deleted"
            /\ rows' = [rows EXCEPT ![fresh[r]] = "live"]
            /\ family' = [family EXCEPT ![fresh[r]] = RootOf(r)]
      \/ /\ family' = family
         /\ \A t \in Token : rows'[t] = "live" => rows[t] = "live"
  BY <1>0, RowsStep
<1> QED BY <1>3, <1>4, <1>5

\* The handlers of login, refresh and logout implement SessionLineage: a token of a
\* login works until it is consumed, revoked or deleted, once, and is succeeded by
\* one token only.
THEOREM ImplementsLineage == Spec => ImplementsSessionLineage
<1>1. Init => SL!Init
  BY RefinesInit
<1>2. IInv /\ IInv' /\ [Next]_vars => [SL!Next]_<<Current, Used>>
  BY RefinesStep
<1> QED BY <1>1, <1>2, Invariance, PTL DEF Spec, SL!Spec, ImplementsSessionLineage, Current, Used
=============================================================================
