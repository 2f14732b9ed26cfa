----------------------------- MODULE WebSession -------------------------------
(***************************************************************************)
(* The web client's session: the response interceptor of                   *)
(* apps/web/src/services/api.ts (handleUnauthorized, queueFailedRequest,   *)
(* refreshAuthToken, processQueue), the stored tokens of auth.store.ts and *)
(* the refresh of useRealtimeNotifications.ts, against a server that       *)
(* rotates refresh tokens and answers the reuse of one by ending every     *)
(* session (RefreshTokens has its inside).                                 *)
(*                                                                         *)
(* JavaScript runs an event and all the promise continuations it settles   *)
(* before the next event: a step is one event.  Token n stands for the     *)
(* n-th pair of an access and a refresh token; calls use the access token, *)
(* whose age is left out.                                                  *)
(***************************************************************************)
EXTENDS Naturals, FiniteSets

CONSTANTS
    Tabs, Calls,
    TabOf,        \* the tab that makes each call
    MaxTokens,    \* bound: token pairs ever issued; a refresh beyond fails
    Faults,       \* "lost": a refresh may fail or its answer be lost
                  \* "socket": a socket may refresh the token
    NoCall

ASSUME WebAssumption ==
    /\ TabOf \in [Calls -> Tabs] /\ NoCall \notin Calls
    /\ MaxTokens \in Nat
    /\ Faults \subseteq {"lost", "socket"}

Tokens == 1 .. MaxTokens
Stored == 0 .. MaxTokens      \* 0: null

VARIABLES
    issued,    \* server: how many pairs
    live,      \* server: the refresh tokens that work
    disk,      \* localStorage, which the tabs share and read when they load
    store,     \* useAuthStore of each tab
    post,      \* refreshPromise of each tab and its POST /auth/refresh
    adrift,    \* the tokens of the POSTs whose page has gone
    leader,    \* the call of each tab that has set isRefreshing
    call,      \* API calls; the queued ones are failedQueue
    excused    \* history: spent tokens that a second holder was left with

server == <<issued, live>>
vars == <<server, disk, store, post, adrift, leader, call, excused>>

NoPost == [pc |-> "none"]
Post == {NoPost} \cup
        [pc : {"sent", "denied", "failed"}, token : Stored] \cup
        [pc : {"renewed"}, token : Stored, new : Tokens]

\* led: it was queued behind a leader.
Settled == [pc |-> "settled"]
Call == {Settled} \cup
        [pc : {"sent", "unauthorized", "leading", "queued"},
         retried : BOOLEAN, led : BOOLEAN]

TypeOK ==
    /\ issued \in Stored
    /\ live \subseteq 1 .. issued /\ excused \subseteq 1 .. issued
    /\ disk \in 0 .. issued /\ store \in [Tabs -> 0 .. issued]
    /\ post \in [Tabs -> Post] /\ adrift \subseteq Tokens
    /\ leader \in [Tabs -> Calls \cup {NoCall}]
    /\ call \in [Calls -> Call]
    /\ \A c \in Calls : call[c].pc = "leading" <=> leader[TabOf[c]] = c

Init ==
    /\ issued = 0 /\ live = {}
    /\ disk = 0 /\ store = [t \in Tabs |-> 0]
    /\ post = [t \in Tabs |-> NoPost] /\ adrift = {}
    /\ leader = [t \in Tabs |-> NoCall]
    /\ call = [c \in Calls |-> Settled]
    /\ excused = {}

\* login, setTokens and logout of the store; persist writes it through.
SetTokens(t, n) == store' = [store EXCEPT ![t] = n] /\ disk' = n

Posting(t, n) == post[t] # NoPost /\ post[t].token = n
Holds(t, n) == store[t] = n \/ Posting(t, n)

-----------------------------------------------------------------------------
(* The user and the browser.                                               *)

Login(t) ==
    /\ store[t] = 0 /\ issued < MaxTokens
    /\ issued' = issued + 1
    /\ live' = live \cup {issued'}
    /\ SetTokens(t, issued')
    /\ UNCHANGED <<post, adrift, leader, call, excused>>

\* "Sign Out": the store alone.
SignOut(t) ==
    /\ store[t] # 0
    /\ SetTokens(t, 0)
    /\ UNCHANGED <<server, post, adrift, leader, call, excused>>

\* A page is loaded, by the user or by the redirect to /login: what was in flight is
\* forgotten here, and a POST goes on its way.
Load(t) ==
    /\ store' = [store EXCEPT ![t] = disk]
    /\ post' = [post EXCEPT ![t] = NoPost]
    /\ adrift' = adrift \cup {n \in Tokens : Posting(t, n) /\ post[t].pc = "sent"}
    /\ leader' = [leader EXCEPT ![t] = NoCall]
    /\ call' = [c \in Calls |-> IF TabOf[c] = t THEN Settled ELSE call[c]]
    /\ excused' = excused \cup {n \in {disk} \ {0} :
                                 n \in adrift \/ \E u \in Tabs : Posting(u, n)}
    /\ UNCHANGED <<server, disk>>

\* useRealtimeNotifications: connect_error.  It shares a refresh that is in flight.
SocketRefresh(t) ==
    /\ "socket" \in Faults
    /\ store[t] # 0 /\ post[t] = NoPost
    /\ post' = [post EXCEPT ![t] = [pc |-> "sent", token |-> store[t]]]
    /\ UNCHANGED <<server, disk, store, adrift, leader, call, excused>>

\* The signal of a queued call; of another it is a failure of the call.
Abort(c) ==
    /\ call[c].pc = "queued"
    /\ call' = [call EXCEPT ![c] = Settled]
    /\ UNCHANGED <<server, disk, store, post, adrift, leader, excused>>
-----------------------------------------------------------------------------
(* The server.                                                             *)

\* A working token is replaced, and a spent one ends every session.
Rotate(n) ==
    /\ n \in live /\ issued < MaxTokens
    /\ issued' = issued + 1
    /\ live' = (live \ {n}) \cup {issued'}

Alarm(n) ==
    /\ n \notin live \cup {0}
    /\ live' = {}
    /\ excused' = excused \cup live
    /\ UNCHANGED issued

ServeRefresh(t) ==
    /\ post[t].pc = "sent"
    /\ LET n == post[t].token
       IN  \/ /\ Rotate(n)
              /\ excused' = excused \cup {k \in {n} : \E u \in Tabs \ {t} : Holds(u, k)}
              /\ post' = [post EXCEPT ![t] = [pc |-> "renewed", token |-> n, new |-> issued']]
           \/ /\ \/ Alarm(n)
                 \/ n = 0 /\ UNCHANGED <<server, excused>>
              /\ post' = [post EXCEPT ![t].pc = "denied"]
           \/ /\ n \in live /\ issued = MaxTokens
              /\ post' = [post EXCEPT ![t].pc = "failed"]
              /\ UNCHANGED <<server, excused>>
    /\ UNCHANGED <<disk, store, adrift, leader, call>>

ServeAdrift(n) ==
    /\ n \in adrift
    /\ adrift' = adrift \ {n}
    /\ \/ Rotate(n) /\ excused' = excused \cup {n}
       \/ Alarm(n)
       \/ UNCHANGED <<server, excused>>
    /\ UNCHANGED <<disk, store, post, leader, call>>

\* The request or its answer is lost, or it fails with another status than 401.
LoseRefresh(t) ==
    /\ "lost" \in Faults
    /\ post[t].pc \in {"sent", "renewed"}
    /\ post' = [post EXCEPT ![t] = [pc |-> "failed", token |-> post[t].token]]
    /\ UNCHANGED <<server, disk, store, adrift, leader, call, excused>>

\* An access token may have expired, or its account be suspended, whenever it is
\* checked.  A call that fails in another way is settled like one that succeeds.
ServeCall(c) ==
    /\ call[c].pc = "sent"
    /\ \/ call' = [call EXCEPT ![c] = Settled]
       \/ call' = [call EXCEPT ![c].pc = "unauthorized"]
    /\ UNCHANGED <<server, disk, store, post, adrift, leader, excused>>
-----------------------------------------------------------------------------
(* The interceptors.                                                       *)

Sent(again) == [pc |-> "sent", retried |-> again, led |-> FALSE]

Send(c) ==
    /\ call[c] = Settled
    /\ call' = [call EXCEPT ![c] = Sent(FALSE)]
    /\ UNCHANGED <<server, disk, store, post, adrift, leader, excused>>

\* handleUnauthorized of a call that was tried again: handleAuthRedirect.
GiveUp(c) ==
    /\ call[c].pc = "unauthorized" /\ call[c].retried
    /\ SetTokens(TabOf[c], 0)
    /\ call' = [call EXCEPT ![c] = Settled]
    /\ UNCHANGED <<server, post, adrift, leader, excused>>

Refreshing(t) == leader[t] # NoCall \/ post[t] # NoPost

\* queueFailedRequest.
Enqueue(c) ==
    /\ call[c].pc = "unauthorized" /\ ~call[c].retried /\ Refreshing(TabOf[c])
    /\ call' = [call EXCEPT ![c].pc = "queued", ![c].retried = TRUE,
                            ![c].led = leader[TabOf[c]] # NoCall]
    /\ UNCHANGED <<server, disk, store, post, adrift, leader, excused>>

Lead(c) ==
    LET t == TabOf[c]
    IN  /\ call[c].pc = "unauthorized" /\ ~call[c].retried /\ ~Refreshing(t)
        /\ leader' = [leader EXCEPT ![t] = c]
        /\ post' = [post EXCEPT ![t] = [pc |-> "sent", token |-> store[t]]]
        /\ call' = [call EXCEPT ![c].pc = "leading", ![c].retried = TRUE]
        /\ UNCHANGED <<server, disk, store, adrift, excused>>

\* The calls that go on when a refresh of t ends: with a leader, itself and the queue
\* (processQueue).  Without one, nobody.
Waiting(t) == {c \in Calls : /\ TabOf[c] = t /\ leader[t] # NoCall
                             /\ call[c].pc \in {"leading", "queued"}}

\* Mutant of EndRefresh: isRefreshing stays set.
EndRefreshLeading(t) ==
    /\ post' = [post EXCEPT ![t] = NoPost]
    /\ UNCHANGED <<server, adrift, leader>>

EndRefresh(t) ==
    /\ post' = [post EXCEPT ![t] = NoPost]
    /\ leader' = [leader EXCEPT ![t] = NoCall]
    /\ UNCHANGED <<server, adrift>>

\* Mutant of Renewed: the new refresh token is not stored.
RenewedAccessOnly(t) ==
    /\ post[t].pc = "renewed"
    /\ call' = [c \in Calls |-> IF c \in Waiting(t) THEN Sent(TRUE) ELSE call[c]]
    /\ EndRefresh(t)
    /\ UNCHANGED <<store, disk, excused>>

Renewed(t) ==
    /\ post[t].pc = "renewed"
    /\ SetTokens(t, post[t].new)
    /\ call' = [c \in Calls |->
                  IF c \in Waiting(t) THEN Sent(TRUE) ELSE call[c]]
    /\ EndRefresh(t)
    /\ UNCHANGED excused

\* Mutant of Rejected: a failure is not passed on to the queue.
RejectedLeader(t) == [c \in Calls |-> IF c = leader[t] THEN Settled ELSE call[c]]

Rejected(t) == [c \in Calls |-> IF c \in Waiting(t) THEN Settled ELSE call[c]]

\* 401: handleAuthRedirect, whoever asked.
Denied(t) ==
    /\ post[t].pc = "denied"
    /\ SetTokens(t, 0)
    /\ call' = Rejected(t)
    /\ EndRefresh(t)
    /\ UNCHANGED excused

\* Any other failure: the leader alone redirects.  A socket keeps the token, spent or not.
Failed(t) ==
    /\ post[t].pc = "failed"
    /\ IF leader[t] # NoCall THEN SetTokens(t, 0) ELSE UNCHANGED <<store, disk>>
    /\ excused' = excused \cup {n \in {post[t].token} \ {0} : leader[t] = NoCall}
    /\ call' = Rejected(t)
    /\ EndRefresh(t)
-----------------------------------------------------------------------------
Next ==
    \/ \E t \in Tabs :
          \/ Login(t) \/ SignOut(t) \/ Load(t) \/ SocketRefresh(t)
          \/ ServeRefresh(t) \/ LoseRefresh(t)
          \/ Renewed(t) \/ Denied(t) \/ Failed(t)
    \/ \E n \in Tokens : ServeAdrift(n)
    \/ \E c \in Calls :
          \/ Send(c) \/ Abort(c) \/ ServeCall(c)
          \/ GiveUp(c) \/ Enqueue(c) \/ Lead(c)

Spec == Init /\ [][Next]_vars

\* The server answers or the connection breaks, and the browser delivers that.
Fairness ==
    /\ \A t \in Tabs :
          /\ WF_vars(ServeRefresh(t))
          /\ WF_vars(Renewed(t) \/ Denied(t) \/ Failed(t))
    /\ \A c \in Calls :
          WF_vars(ServeCall(c)) /\ WF_vars(GiveUp(c) \/ Enqueue(c) \/ Lead(c))

FairSpec == Spec /\ Fairness
-----------------------------------------------------------------------------
(* Properties.                                                             *)

\* The server takes the reuse of a refresh token for theft.  A tab never presents a
\* spent one, whatever calls fail together, answers get lost and users sign in and out
\* meanwhile, but for what excuses it: a second tab had the token, the page was
\* reloaded during a refresh, a socket's refresh got lost, or the session was ended.
NoFalseAlarm ==
    \A t \in Tabs : post[t].pc = "sent" => post[t].token \in live \cup excused \cup {0}

\* A call that joins the queue of a refresh that only a socket asked for.
Stranded(c) == call[c].pc = "queued" /\ ~call[c].led

\* Every call is settled: none is left in the queue, or tried again and again.  A call
\* that is stranded waits for the next leader.
CallsSettle == \A c \in Calls : call[c] # Settled ~> (call[c] = Settled \/ Stranded(c))

===============================================================================
