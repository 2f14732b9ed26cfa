--------------------------- MODULE WebSessionProof ---------------------------
(***************************************************************************)
(* Proofs about WebSession, for every set of tabs and calls and every      *)
(* number of tokens.                                                       *)
(*                                                                         *)
(* TokensOK says of every place a refresh token is kept in (the store of a *)
(* tab, localStorage, a POST, an answer on its way) that the token still   *)
(* works, is excused, or is about to be forgotten by that place.           *)
(***************************************************************************)
EXTENDS WebSession, TLAPS

\* A token that raises no alarm, or one that is excused.
Good == live \cup excused \cup {0}

\* The POST of t has spent n, or may have: its end makes t forget n.
Spending(t, n) == post[t].pc \in {"renewed", "failed"} /\ post[t].token = n

\* The tokens that are kept anywhere have been issued.
HeldIssued ==
    /\ issued \in Stored
    /\ live \subseteq 1 .. issued /\ excused \subseteq 1 .. issued
    /\ disk \in 0 .. issued /\ store \in [Tabs -> 0 .. issued]
    /\ post \in [Tabs -> Post]
    /\ adrift \subseteq 1 .. issued
    /\ \A t \in Tabs :
          /\ post[t] # NoPost => post[t].token \in 0 .. issued
          /\ post[t].pc = "renewed" => post[t].new \in 1 .. issued

\* An answer on its way carries a token that nobody else has.
NewOK(t) ==
    LET n == post[t].new
    IN  /\ n \in Good /\ n \notin adrift /\ n # disk
        /\ \A u \in Tabs :
              /\ store[u] # n
              /\ post[u] # NoPost => post[u].token # n
              /\ post[u].pc = "renewed" /\ u # t => post[u].new # n

TokensOK ==
    /\ \A t \in Tabs : store[t] \in Good \/ Spending(t, store[t])
    /\ disk \in Good \/ \E u \in Tabs : Spending(u, disk)
    /\ \A t \in Tabs : post[t].pc = "sent" => post[t].token \in Good
    /\ \A t \in Tabs : post[t].pc = "renewed" => NewOK(t)

HeldOK == TypeOK /\ HeldIssued /\ TokensOK
-----------------------------------------------------------------------------
(* Types.                                                                  *)

\* In the beginning there are no tokens.
LEMMA HeldInit == Init => HeldOK
<1> SUFFICES ASSUME Init PROVE HeldOK
  OBVIOUS
<1>1. TypeOK
  BY WebAssumption DEF Init, TypeOK, Stored, Tokens, NoPost, Post, Settled, Call
<1>2. \A t \in Tabs : post[t] = NoPost
  BY DEF Init
<1>3. HeldIssued
  BY <1>1, <1>2 DEF Init, TypeOK, HeldIssued, NoPost
<1> QED BY <1>1, <1>2, <1>3 DEF Init, HeldOK, TokensOK, Good, NoPost

\* The shapes of a POST.
LEMMA PostShapes ==
    /\ NoPost.pc = "none" /\ NoPost \in Post
    /\ \A p \in Post :
          /\ p.pc \in {"none", "sent", "denied", "failed", "renewed"}
          /\ p.pc = "none" <=> p = NoPost
          /\ p # NoPost => p.token \in Stored
          /\ p.pc = "renewed" => p.new \in Tokens
          /\ p.pc = "sent" => \A step \in {"denied", "failed"} :
                /\ [p EXCEPT !.pc = step] \in Post
                /\ [p EXCEPT !.pc = step].pc = step /\ [p EXCEPT !.pc = step].token = p.token
    /\ \A n \in Stored : [pc |-> "sent", token |-> n] \in Post
    /\ \A n \in Stored : [pc |-> "failed", token |-> n] \in Post
    /\ \A n \in Stored, m \in Tokens : [pc |-> "renewed", token |-> n, new |-> m] \in Post
  BY DEF NoPost, Post

\* The shapes of a call.
LEMMA CallShapes ==
    /\ Settled \in Call /\ Settled.pc = "settled"
    /\ \A again \in BOOLEAN : Sent(again) \in Call /\ Sent(again).pc = "sent"
    /\ \A c \in Call : c.pc = "sent" =>
          [c EXCEPT !.pc = "unauthorized"] \in Call /\ [c EXCEPT !.pc = "unauthorized"].pc # "leading"
    /\ \A c \in Call : c.pc = "unauthorized" =>
          /\ [c EXCEPT !.pc = "leading", !.retried = TRUE] \in Call
          /\ [c EXCEPT !.pc = "leading", !.retried = TRUE].pc = "leading"
          /\ \A led \in BOOLEAN :
                /\ [c EXCEPT !.pc = "queued", !.retried = TRUE, !.led = led] \in Call
                /\ [c EXCEPT !.pc = "queued", !.retried = TRUE, !.led = led].pc = "queued"
<1>1. Settled \in Call /\ Settled.pc = "settled"
  BY DEF Settled, Call
<1>2. \A again \in BOOLEAN : Sent(again) \in Call /\ Sent(again).pc = "sent"
  BY DEF Call, Sent
<1>3. ASSUME NEW c \in Call, c.pc \in {"sent", "unauthorized"}
      PROVE  c \in [pc : {"sent", "unauthorized", "leading", "queued"},
                    retried : BOOLEAN, led : BOOLEAN]
  BY <1>3 DEF Call, Settled
<1>4. \A c \in Call : c.pc = "sent" =>
         [c EXCEPT !.pc = "unauthorized"] \in Call /\ [c EXCEPT !.pc = "unauthorized"].pc # "leading"
  BY <1>3 DEF Call
<1>5. \A c \in Call : c.pc = "unauthorized" =>
         /\ [c EXCEPT !.pc = "leading", !.retried = TRUE] \in Call
         /\ [c EXCEPT !.pc = "leading", !.retried = TRUE].pc = "leading"
  BY <1>3 DEF Call
<1>6. ASSUME NEW c \in Call, c.pc = "unauthorized", NEW led \in BOOLEAN
      PROVE  /\ [c EXCEPT !.pc = "queued", !.retried = TRUE, !.led = led] \in Call
             /\ [c EXCEPT !.pc = "queued", !.retried = TRUE, !.led = led].pc = "queued"
  BY <1>3, <1>6 DEF Call
<1> QED BY <1>1, <1>2, <1>4, <1>5, <1>6

\* The calls and who leads them.
CallsOK ==
    /\ leader \in [Tabs -> Calls \cup {NoCall}]
    /\ call \in [Calls -> Call]
    /\ \A c \in Calls : call[c].pc = "leading" <=> leader[TabOf[c]] = c

\* A call that does not lead, and will not, changes its state.
LEMMA OneCall ==
    ASSUME CallsOK, NEW c \in Calls, call[c].pc # "leading", NEW new \in Call,
           new.pc # "leading", call' = [call EXCEPT ![c] = new], UNCHANGED leader
    PROVE  CallsOK'
  BY DEF CallsOK

\* The refresh of a tab ends, and with it its leader and queue.
LEMMA EndCalls ==
    ASSUME CallsOK, NEW t \in Tabs, EndRefresh(t), NEW new \in Call, new.pc # "leading",
           call' = [c \in Calls |-> IF c \in Waiting(t) THEN new ELSE call[c]]
    PROVE  CallsOK'
<1>1. leader' = [leader EXCEPT ![t] = NoCall]
  BY DEF EndRefresh
<1>2. \A c \in Calls : TabOf[c] \in Tabs /\ c # NoCall
  BY WebAssumption
<1>3. leader' \in [Tabs -> Calls \cup {NoCall}] /\ call' \in [Calls -> Call]
  BY <1>1 DEF CallsOK
<1>4. ASSUME NEW c \in Calls PROVE call'[c].pc = "leading" <=> leader'[TabOf[c]] = c
  <2>1. CASE TabOf[c] = t
    <3>1. call'[c].pc # "leading"
      BY <2>1, <1>2 DEF Waiting, CallsOK
    <3> QED BY <1>1, <1>2, <2>1, <3>1 DEF CallsOK
  <2>2. CASE TabOf[c] # t
    <3>1. call'[c] = call[c]
      BY <2>2 DEF Waiting
    <3> QED BY <1>1, <1>2, <2>2, <3>1 DEF CallsOK
  <2> QED BY <2>1, <2>2
<1> QED BY <1>3, <1>4 DEF CallsOK

\* Every step keeps the calls in order.
LEMMA CallsStep == CallsOK /\ [Next]_vars => CallsOK'
<1> SUFFICES ASSUME CallsOK, [Next]_vars PROVE CallsOK'
  OBVIOUS
<1>1. UNCHANGED <<call, leader>> => CallsOK'
  BY DEF CallsOK
<1>2. ASSUME NEW t \in Tabs, Load(t) PROVE CallsOK'
  <2>1. /\ leader' = [leader EXCEPT ![t] = NoCall]
        /\ call' = [c \in Calls |-> IF TabOf[c] = t THEN Settled ELSE call[c]]
    BY <1>2 DEF Load
  <2> QED BY <2>1, CallShapes, WebAssumption DEF CallsOK
<1>3. ASSUME NEW t \in Tabs, Renewed(t) PROVE CallsOK'
  BY <1>3, EndCalls, CallShapes DEF Renewed
<1>4. ASSUME NEW t \in Tabs, Denied(t) \/ Failed(t) PROVE CallsOK'
  BY <1>4, EndCalls, CallShapes DEF Denied, Failed, Rejected
<1>5. ASSUME NEW c \in Calls, Send(c) PROVE CallsOK'
  BY <1>5, OneCall, CallShapes DEF Send
<1>6. ASSUME NEW c \in Calls, Abort(c) \/ GiveUp(c) PROVE CallsOK'
  BY <1>6, OneCall, CallShapes DEF Abort, GiveUp
<1>7. ASSUME NEW c \in Calls, ServeCall(c) PROVE CallsOK'
  <2>1. call[c] \in Call /\ call[c].pc = "sent" /\ UNCHANGED leader
    BY <1>7 DEF ServeCall, CallsOK
  <2>2. PICK new \in Call : new.pc # "leading" /\ call' = [call EXCEPT ![c] = new]
    BY <1>7, <2>1, CallShapes DEF ServeCall
  <2> QED BY <2>1, <2>2, OneCall
<1>8. ASSUME NEW c \in Calls, Enqueue(c) PROVE CallsOK'
  <2>1. call[c] \in Call /\ call[c].pc = "unauthorized" /\ UNCHANGED leader
    BY <1>8 DEF Enqueue, CallsOK
  <2>2. PICK led \in BOOLEAN : led = (leader[TabOf[c]] # NoCall)
    OBVIOUS
  <2>3. PICK new : new = [call[c] EXCEPT !.pc = "queued", !.retried = TRUE, !.led = led]
    OBVIOUS
  <2>4. new \in Call /\ new.pc # "leading"
    BY <2>1, <2>3, CallShapes
  <2>5. call' = [call EXCEPT ![c] = new]
    BY <1>8, <2>2, <2>3 DEF Enqueue, CallsOK
  <2> QED BY <2>1, <2>4, <2>5, OneCall
<1>9. ASSUME NEW c \in Calls, Lead(c) PROVE CallsOK'
  <2>1. call[c] \in Call /\ call[c].pc = "unauthorized" /\ TabOf[c] \in Tabs
    BY <1>9, WebAssumption DEF Lead, CallsOK
  <2>2. PICK new : new = [call[c] EXCEPT !.pc = "leading", !.retried = TRUE]
    OBVIOUS
  <2>3. new \in Call /\ new.pc = "leading"
    BY <2>1, <2>2, CallShapes
  <2>4. /\ call' = [call EXCEPT ![c] = new] /\ leader' = [leader EXCEPT ![TabOf[c]] = c]
        /\ leader[TabOf[c]] = NoCall
    BY <1>9, <2>2 DEF Lead, Refreshing, CallsOK
  <2> QED BY <2>1, <2>3, <2>4, WebAssumption DEF CallsOK
<1> QED BY <1>1, <1>2, <1>3, <1>4, <1>5, <1>6, <1>7, <1>8, <1>9
        DEF Next, vars, Login, SignOut, SocketRefresh, ServeRefresh, LoseRefresh, ServeAdrift
-----------------------------------------------------------------------------
(* Tokens.                                                                 *)

\* Nothing is done to the tokens.
LEMMA SameTokens ==
    ASSUME HeldIssued, TokensOK, UNCHANGED <<server, disk, store, post, adrift, excused>>
    PROVE  HeldIssued' /\ TokensOK'
  BY DEF HeldIssued, TokensOK, Good, Spending, NewOK, server

\* Somebody signs out of a tab.
LEMMA SignsOut ==
    ASSUME HeldIssued, TokensOK, NEW t \in Tabs, SetTokens(t, 0),
           UNCHANGED <<server, post, adrift, excused>>
    PROVE  HeldIssued' /\ TokensOK'
<1>1. \A u \in Tabs : store'[u] = IF u = t THEN 0 ELSE store[u]
  BY DEF SetTokens, HeldIssued
<1>2. disk' = 0 /\ issued \in Nat /\ issued' = issued
  BY WebAssumption DEF SetTokens, HeldIssued, Stored, server
<1>3. HeldIssued'
  BY <1>2 DEF SetTokens, HeldIssued, server
<1>4. \A u \in Tabs : (post[u].pc = "renewed" => NewOK(u))'
  BY <1>1, <1>2 DEF TokensOK, HeldIssued, NewOK, Good, server
<1> QED BY <1>1, <1>2, <1>3, <1>4 DEF TokensOK, Good, Spending, server

\* A tab with no POST sends one with the token it holds.
LEMMA Posts ==
    ASSUME HeldIssued, TokensOK, NEW t \in Tabs, post[t] = NoPost,
           post' = [post EXCEPT ![t] = [pc |-> "sent", token |-> store[t]]],
           UNCHANGED <<server, disk, store, adrift, excused>>
    PROVE  HeldIssued' /\ TokensOK'
<1>1. store[t] \in 0 .. issued /\ store[t] \in Stored /\ issued \in Stored
  BY WebAssumption DEF HeldIssued, Stored
<1>2. PICK p : p = [pc |-> "sent", token |-> store[t]]
  OBVIOUS
<1>3. p \in Post /\ p.pc = "sent" /\ p.token = store[t] /\ p # NoPost
  BY <1>1, <1>2, PostShapes
<1>4. \A u \in Tabs : post'[u] = IF u = t THEN p ELSE post[u]
  BY <1>2 DEF HeldIssued
<1>5. \A u \in Tabs : \A n : Spending(u, n) => Spending(u, n)'
  BY <1>4, PostShapes DEF Spending
<1>6. store[t] \in Good
  BY PostShapes DEF TokensOK, Spending
<1>7. HeldIssued'
  BY <1>1, <1>3, <1>4, WebAssumption DEF HeldIssued, server
<1>8. \A u \in Tabs : (post[u].pc = "renewed" => NewOK(u))'
  BY <1>3, <1>4 DEF TokensOK, NewOK, Good, server
<1>9. \A u \in Tabs : (post[u].pc = "sent" => post[u].token \in Good)'
  BY <1>3, <1>4, <1>6 DEF TokensOK, Good, server
<1> QED BY <1>5, <1>7, <1>8, <1>9 DEF TokensOK, Good, server

\* A login holds a token that was never issued before.
LEMMA LoginTokens ==
    ASSUME HeldIssued, TokensOK, NEW t \in Tabs, Login(t)
    PROVE  HeldIssued' /\ TokensOK'
<1>1. /\ issued' = issued + 1 /\ live' = live \cup {issued'} /\ issued \in Nat /\ issued < MaxTokens
      /\ MaxTokens \in Nat /\ UNCHANGED <<post, adrift, excused>> /\ disk' = issued'
  BY WebAssumption DEF Login, SetTokens, HeldIssued, Stored
<1>2. \A u \in Tabs : store'[u] = IF u = t THEN issued' ELSE store[u]
  BY DEF Login, SetTokens, HeldIssued
<1>3. HeldIssued'
  <2>1. issued' \in Stored /\ store' \in [Tabs -> 0 .. issued'] /\ disk' \in 0 .. issued'
    BY <1>1, <1>2 DEF HeldIssued, Stored, Login, SetTokens
  <2>2. live' \subseteq 1 .. issued' /\ excused' \subseteq 1 .. issued' /\ adrift' \subseteq 1 .. issued'
    BY <1>1 DEF HeldIssued
  <2>3. \A n \in 0 .. issued : n \in 0 .. issued'
    BY <1>1
  <2>4. \A n \in 1 .. issued : n \in 1 .. issued'
    BY <1>1
  <2> QED BY <1>1, <2>1, <2>2, <2>3, <2>4 DEF HeldIssued
<1>4. issued' \notin 0 .. issued /\ issued' \notin 1 .. issued
  BY <1>1
<1>5. Good \subseteq Good' /\ issued' \in Good'
  BY <1>1 DEF Good
<1>6. \A u \in Tabs : (post[u].pc = "renewed" => NewOK(u))'
  BY <1>1, <1>2, <1>4, <1>5 DEF TokensOK, HeldIssued, NewOK
<1> QED BY <1>1, <1>2, <1>3, <1>5, <1>6 DEF TokensOK, Spending

\* A page that loads takes the token of localStorage, and leaves its POST behind.
LEMMA LoadTokens ==
    ASSUME HeldIssued, TokensOK, NEW t \in Tabs, Load(t)
    PROVE  HeldIssued' /\ TokensOK'
<1> DEFINE left == {n \in Tokens : Posting(t, n) /\ post[t].pc = "sent"}
           both == {n \in {disk} \ {0} : n \in adrift \/ \E u \in Tabs : Posting(u, n)}
<1>1. /\ UNCHANGED <<issued, live, disk>>
      /\ adrift' = adrift \cup left /\ excused' = excused \cup both
      /\ \A u \in Tabs : store'[u] = IF u = t THEN disk ELSE store[u]
      /\ \A u \in Tabs : post'[u] = IF u = t THEN NoPost ELSE post[u]
      /\ store' = [store EXCEPT ![t] = disk] /\ post' = [post EXCEPT ![t] = NoPost]
  BY DEF Load, HeldIssued, server
<1>2. \A n \in left : post[t] # NoPost /\ post[t].token = n /\ n \in Tokens
  BY DEF Posting
<1>3. both \subseteq {disk} \ {0}
  OBVIOUS
<1>4. \A u \in Tabs : Spending(u, disk) => disk \in both \cup {0}
  BY PostShapes DEF Spending, Posting
<1> HIDE DEF left, both
<1>5. issued \in Nat
  BY WebAssumption DEF HeldIssued, Stored
<1>6. left \subseteq 1 .. issued /\ both \subseteq 1 .. issued
  BY <1>2, <1>3, <1>5 DEF HeldIssued, Tokens
<1>7. HeldIssued'
  BY <1>1, <1>6, PostShapes DEF HeldIssued
<1>8. Good \subseteq Good'
  BY <1>1 DEF Good
<1>9. disk \in Good'
  BY <1>1, <1>4, <1>8 DEF TokensOK, Good
<1>10. \A u \in Tabs \ {t} : \A n : Spending(u, n) => Spending(u, n)'
  BY <1>1 DEF Spending
<1>11. \A u \in Tabs : (post[u].pc = "renewed" => NewOK(u))'
  <2> SUFFICES ASSUME NEW u \in Tabs \ {t}, post[u].pc = "renewed" PROVE NewOK(u)'
    BY <1>1, PostShapes
  <2>1. NewOK(u)
    BY DEF TokensOK
  <2>2. post[u].new \notin adrift'
    BY <1>1, <1>2, <2>1 DEF NewOK
  <2> QED BY <1>1, <1>8, <2>1, <2>2, PostShapes DEF NewOK
<1> QED BY <1>1, <1>7, <1>8, <1>9, <1>10, <1>11, PostShapes DEF TokensOK

\* A refresh ends, and its tab has the token that it was given, or signs out, or keeps
\* one that raises no alarm.
LEMMA RefreshEnds ==
    ASSUME HeldIssued, TokensOK, NEW t \in Tabs, post' = [post EXCEPT ![t] = NoPost],
           UNCHANGED <<server, adrift>>, excused \subseteq excused',
           excused' \subseteq 1 .. issued,
           \/ /\ UNCHANGED <<store, disk>>
              /\ \A n : Spending(t, n) => n \in Good'
           \/ SetTokens(t, 0)
           \/ post[t].pc = "renewed" /\ SetTokens(t, post[t].new)
    PROVE  HeldIssued' /\ TokensOK'
<1>1. /\ \A u \in Tabs : post'[u] = IF u = t THEN NoPost ELSE post[u]
      /\ UNCHANGED <<issued, live>> /\ Good \subseteq Good' /\ issued \in Nat
  BY WebAssumption DEF HeldIssued, server, Good, Stored
<1>2. \A u \in Tabs \ {t} : \A n : Spending(u, n) => Spending(u, n)'
  BY <1>1 DEF Spending
<1>3. CASE UNCHANGED <<store, disk>> /\ \A n : Spending(t, n) => n \in Good'
  <2>1. HeldIssued'
    BY <1>1, <1>3, PostShapes DEF HeldIssued
  <2>2. \A u \in Tabs : (post[u].pc = "renewed" => NewOK(u))'
    BY <1>1, <1>3, PostShapes DEF TokensOK, NewOK
  <2> QED BY <1>1, <1>2, <1>3, <2>1, <2>2, PostShapes DEF TokensOK
<1>4. ASSUME NEW n \in Good', SetTokens(t, n), n \in 0 .. issued,
             \A u \in Tabs \ {t} : post[u].pc = "renewed" => post[u].new # n
      PROVE  HeldIssued' /\ TokensOK'
  <2>1. disk' = n /\ \A u \in Tabs : store'[u] = IF u = t THEN n ELSE store[u]
    BY <1>4 DEF SetTokens, HeldIssued
  <2>2. HeldIssued'
    BY <1>1, <1>4, PostShapes DEF HeldIssued, SetTokens
  <2>3. \A u \in Tabs : (post[u].pc = "renewed" => NewOK(u))'
    BY <1>1, <1>4, <2>1, PostShapes DEF TokensOK, NewOK
  <2> QED BY <1>1, <1>2, <1>4, <2>1, <2>2, <2>3, PostShapes DEF TokensOK
<1>5. 0 \in Good' /\ 0 \in 0 .. issued
  BY <1>1 DEF Good
<1>6. \A u \in Tabs : post[u].pc = "renewed" => post[u].new # 0
  BY <1>1 DEF HeldIssued
<1>7. CASE post[t].pc = "renewed" /\ SetTokens(t, post[t].new)
  <2>1. post[t].new \in Good' /\ post[t].new \in 0 .. issued
    BY <1>1, <1>7 DEF TokensOK, NewOK, HeldIssued
  <2>2. \A u \in Tabs \ {t} : post[u].pc = "renewed" => post[u].new # post[t].new
    BY <1>7 DEF TokensOK, NewOK
  <2> QED BY <1>4, <1>7, <2>1, <2>2
<1> QED BY <1>3, <1>4, <1>5, <1>6, <1>7

\* However the answer of a refresh is taken, the tabs hold tokens that were issued.
LEMMA RefreshEndsTokens ==
    ASSUME HeldIssued, TokensOK, NEW t \in Tabs, Renewed(t) \/ Denied(t) \/ Failed(t)
    PROVE  HeldIssued' /\ TokensOK'
<1>1. post' = [post EXCEPT ![t] = NoPost] /\ UNCHANGED <<server, adrift>>
  BY DEF Renewed, Denied, Failed, EndRefresh
<1>2. CASE Renewed(t)
  BY <1>1, <1>2, RefreshEnds DEF Renewed, HeldIssued
<1>3. CASE Denied(t)
  BY <1>1, <1>3, RefreshEnds DEF Denied, HeldIssued
<1>4. CASE Failed(t)
  <2> DEFINE kept == {n \in {post[t].token} \ {0} : leader[t] = NoCall}
  <2>1. /\ excused' = excused \cup kept /\ post[t].pc = "failed"
        /\ IF leader[t] # NoCall THEN SetTokens(t, 0) ELSE UNCHANGED <<store, disk>>
    BY <1>4 DEF Failed
  <2>2. post[t].token \in 0 .. issued /\ issued \in Nat
    BY <2>1, PostShapes, WebAssumption DEF HeldIssued, Stored
  <2>3. kept \subseteq 1 .. issued
    BY <2>2
  <2>4. leader[t] = NoCall => \A n : Spending(t, n) => n \in kept \cup {0}
    BY DEF Spending
  <2> HIDE DEF kept
  <2>5. excused \subseteq excused' /\ excused' \subseteq 1 .. issued
    BY <2>1, <2>3 DEF HeldIssued
  <2>6. \/ UNCHANGED <<store, disk>> /\ (\A n : Spending(t, n) => n \in Good')
        \/ SetTokens(t, 0)
    BY <2>1, <2>4 DEF Good
  <2> QED BY <1>1, <2>5, <2>6, RefreshEnds
<1> QED BY <1>2, <1>3, <1>4

\* The answer to a POST is that it failed, and no token loses its excuse.
LEMMA PostFails ==
    ASSUME HeldIssued, TokensOK, NEW t \in Tabs, NEW p \in Post,
           post' = [post EXCEPT ![t] = p], p.token = post[t].token,
           \/ post[t].pc = "sent" /\ p.pc \in {"denied", "failed"}
           \/ post[t].pc = "renewed" /\ p.pc = "failed",
           UNCHANGED <<issued, disk, store, adrift>>,
           live' \subseteq live, excused \subseteq excused', excused' \subseteq 1 .. issued,
           Good \subseteq Good'
    PROVE  HeldIssued' /\ TokensOK'
<1>1. \A u \in Tabs : post'[u] = IF u = t THEN p ELSE post[u]
  BY DEF HeldIssued
<1>2. \A u \in Tabs : \A n : Spending(u, n) => Spending(u, n)'
  BY <1>1 DEF Spending
<1>3. HeldIssued'
  BY <1>1, PostShapes DEF HeldIssued
<1>4. \A u \in Tabs : (post[u].pc = "renewed" => NewOK(u))'
  <2> SUFFICES ASSUME NEW u \in Tabs, post'[u].pc = "renewed" PROVE NewOK(u)'
    OBVIOUS
  <2>1. post'[u] = post[u] /\ NewOK(u) /\ u # t
    BY <1>1 DEF TokensOK
  <2>2. post[t] # NoPost
    BY PostShapes
  <2> QED BY <1>1, <2>1, <2>2 DEF NewOK
<1> QED BY <1>1, <1>2, <1>3, <1>4 DEF TokensOK

\* A lost answer changes no token.
LEMMA LoseTokens ==
    ASSUME HeldIssued, TokensOK, NEW t \in Tabs, LoseRefresh(t)
    PROVE  HeldIssued' /\ TokensOK'
<1>1. /\ post[t].pc \in {"sent", "renewed"}
      /\ post' = [post EXCEPT ![t] = [pc |-> "failed", token |-> post[t].token]]
      /\ UNCHANGED <<server, disk, store, adrift, excused>>
  BY DEF LoseRefresh
<1>2. PICK p : p = [pc |-> "failed", token |-> post[t].token]
  OBVIOUS
<1>3. post[t].token \in Stored
  <2>1. post[t] \in Post /\ post[t].pc # "none"
    BY <1>1 DEF HeldIssued
  <2>2. \A q \in Post : q.pc # "none" => q.token \in Stored
    BY PostShapes
  <2> QED BY <2>1, <2>2
<1>4. p \in Post /\ p.pc = "failed" /\ p.token = post[t].token
  BY <1>2, <1>3, PostShapes
<1>5. Good' = Good
  BY <1>1 DEF Good, server
<1> QED BY <1>1, <1>2, <1>4, <1>5, PostFails DEF server, HeldIssued

\* The alarm excuses what it ends.
LEMMA AlarmFacts ==
    ASSUME HeldIssued, NEW n, Alarm(n)
    PROVE  /\ UNCHANGED issued /\ live' \subseteq live /\ excused \subseteq excused'
           /\ excused' \subseteq 1 .. issued /\ Good \subseteq Good'
  BY DEF Alarm, Good, HeldIssued

\* A rotation spends its token alone, and issues the next.
LEMMA RotateFacts ==
    ASSUME HeldIssued, NEW n, Rotate(n), excused \subseteq excused'
    PROVE  /\ issued \in Nat /\ issued' = issued + 1 /\ issued' \in Stored /\ issued' \in Tokens
           /\ n \in 1 .. issued /\ live' \subseteq 1 .. issued' /\ issued' \in Good'
           /\ Good \ {n} \subseteq Good'
<1>1. issued \in Nat /\ issued < MaxTokens /\ MaxTokens \in Nat
  BY WebAssumption DEF HeldIssued, Rotate, Stored
<1>2. issued' = issued + 1 /\ live' = (live \ {n}) \cup {issued'} /\ n \in 1 .. issued
  BY DEF Rotate, HeldIssued
<1>3. live' \subseteq 1 .. issued'
  BY <1>1, <1>2 DEF HeldIssued
<1> QED BY <1>1, <1>2, <1>3 DEF Stored, Tokens, Good

\* The server takes one token for another; who else held the first has a reason to be refused.
LEMMA ServeRefreshTokens ==
    ASSUME HeldIssued, TokensOK, NEW t \in Tabs, ServeRefresh(t)
    PROVE  HeldIssued' /\ TokensOK'
<1>0. PICK n : n = post[t].token
  OBVIOUS
<1> DEFINE others == {k \in {n} : \E u \in Tabs \ {t} : Holds(u, k)}
<1>1. /\ post[t].pc = "sent" /\ post[t] \in Post /\ UNCHANGED <<disk, store, adrift>>
      /\ post[t] # NoPost /\ n \in Stored /\ n \in 0 .. issued
  BY <1>0, PostShapes DEF ServeRefresh, HeldIssued
<1>2. \/ /\ Rotate(n) /\ excused' = excused \cup others
         /\ post' = [post EXCEPT ![t] = [pc |-> "renewed", token |-> n, new |-> issued']]
      \/ /\ Alarm(n) \/ UNCHANGED <<server, excused>>
         /\ \E step \in {"denied", "failed"} : post' = [post EXCEPT ![t].pc = step]
  BY <1>0 DEF ServeRefresh
<1>3. ASSUME NEW step \in {"denied", "failed"}, post' = [post EXCEPT ![t].pc = step],
             Alarm(n) \/ UNCHANGED <<server, excused>>
      PROVE  HeldIssued' /\ TokensOK'
  <2>1. PICK p : p = [post[t] EXCEPT !.pc = step]
    OBVIOUS
  <2>2. p \in Post /\ p.pc = step /\ p.token = post[t].token
    <3>1. post[t] \in [pc : {"sent", "denied", "failed"}, token : Stored]
      BY <1>1 DEF Post, NoPost
    <3> QED BY <2>1, <3>1 DEF Post
  <2>3. post' = [post EXCEPT ![t] = p]
    BY <1>3, <2>1 DEF HeldIssued
  <2>4. /\ UNCHANGED issued /\ live' \subseteq live /\ excused \subseteq excused'
        /\ excused' \subseteq 1 .. issued /\ Good \subseteq Good'
    <3>1. UNCHANGED <<server, excused>> => UNCHANGED <<issued, live, excused>> /\ Good' = Good
      BY DEF server, Good
    <3> QED BY <1>3, <3>1, AlarmFacts DEF HeldIssued
  <2> QED BY <1>1, <2>2, <2>3, <2>4, PostFails
<1>4. ASSUME Rotate(n), excused' = excused \cup others,
             post' = [post EXCEPT ![t] = [pc |-> "renewed", token |-> n, new |-> issued']]
      PROVE  HeldIssued' /\ TokensOK'
  <2>1. others \subseteq {n} /\ (\A u \in Tabs \ {t} : Holds(u, n) => n \in others)
    OBVIOUS
  <2> HIDE DEF others
  <2>2. /\ issued \in Nat /\ issued' = issued + 1 /\ issued' \in Stored /\ issued' \in Tokens
        /\ n \in 1 .. issued /\ live' \subseteq 1 .. issued' /\ issued' \in Good'
        /\ Good \ {n} \subseteq Good'
    <3>1. excused \subseteq excused'
      BY <1>4
    <3> QED BY <1>4, <3>1, RotateFacts
  <2>3. PICK p : p = [pc |-> "renewed", token |-> n, new |-> issued']
    OBVIOUS
  <2>4. p \in Post /\ p.pc = "renewed" /\ p.token = n /\ p.new = issued' /\ p # NoPost
    BY <1>1, <2>2, <2>3, PostShapes
  <2>5. \A u \in Tabs : post'[u] = IF u = t THEN p ELSE post[u]
    BY <1>4, <2>3 DEF HeldIssued
  <2>6. (\A k \in 0 .. issued : k \in 0 .. issued' /\ k # issued') /\ 1 .. issued \subseteq 1 .. issued'
    BY <2>2
  <2>7. HeldIssued'
    <3>1. excused' \subseteq 1 .. issued'
      BY <1>4, <2>1, <2>2, <2>6 DEF HeldIssued
    <3>2. post' \in [Tabs -> Post]
      BY <1>4, <2>3, <2>4 DEF HeldIssued
    <3>3. store' \in [Tabs -> 0 .. issued'] /\ disk' \in 0 .. issued' /\ adrift' \subseteq 1 .. issued'
      BY <1>1, <2>6 DEF HeldIssued
    <3>4. \A u \in Tabs : /\ post'[u] # NoPost => post'[u].token \in 0 .. issued'
                          /\ post'[u].pc = "renewed" => post'[u].new \in 1 .. issued'
      BY <1>1, <2>2, <2>4, <2>5, <2>6 DEF HeldIssued
    <3> QED BY <2>2, <3>1, <3>2, <3>3, <3>4 DEF HeldIssued
  <2>8. \A u \in Tabs : \A k : Spending(u, k) => Spending(u, k)'
    BY <1>1, <2>5 DEF Spending
  <2>9. Spending(t, n)'
    BY <2>4, <2>5 DEF Spending
  <2>10. \A u \in Tabs \ {t} : Holds(u, n) => n \in Good'
    BY <1>4, <2>1 DEF Good
  <2>11. \A u \in Tabs : (store[u] \in Good \/ Spending(u, store[u]))'
    <3> SUFFICES ASSUME NEW u \in Tabs PROVE (store[u] \in Good \/ Spending(u, store[u]))'
      OBVIOUS
    <3>1. CASE store[u] # n
      BY <1>1, <2>2, <2>8, <3>1 DEF TokensOK
    <3>2. CASE store[u] = n /\ u # t
      BY <1>1, <2>10, <3>2 DEF Holds
    <3>3. CASE store[u] = n /\ u = t
      BY <1>1, <2>9, <3>3
    <3> QED BY <3>1, <3>2, <3>3
  <2>12. (disk \in Good \/ \E u \in Tabs : Spending(u, disk))'
    <3>1. CASE disk = n
      BY <1>1, <2>9, <3>1
    <3>2. CASE disk # n
      BY <1>1, <2>2, <2>8, <3>2 DEF TokensOK
    <3> QED BY <3>1, <3>2
  <2>13. \A u \in Tabs : (post[u].pc = "sent" => post[u].token \in Good)'
    <3> SUFFICES ASSUME NEW u \in Tabs \ {t}, post[u].pc = "sent" PROVE post[u].token \in Good'
      BY <2>4, <2>5
    <3>1. CASE post[u].token = n
      BY <2>10, <3>1, PostShapes DEF Holds, Posting
    <3>2. CASE post[u].token # n
      BY <2>2, <3>2 DEF TokensOK
    <3> QED BY <3>1, <3>2
  <2>14. ASSUME NEW u \in Tabs \ {t}, post[u].pc = "renewed" PROVE NewOK(u)'
    <3>1. NewOK(u) /\ post[u].new \in 1 .. issued /\ post'[u] = post[u]
      BY <2>5, <2>14 DEF TokensOK, HeldIssued
    <3>2. post[u].new # n /\ post[u].new # issued'
      BY <1>0, <1>1, <2>2, <3>1 DEF NewOK
    <3>3. post[u].new \in Good'
      BY <2>2, <3>1, <3>2 DEF NewOK
    <3>4. \A w \in Tabs : /\ post'[w] # NoPost => post'[w].token # post[u].new
                          /\ post'[w].pc = "renewed" /\ w # u => post'[w].new # post[u].new
      BY <1>0, <1>1, <2>4, <2>5, <3>1, <3>2 DEF NewOK
    <3> QED BY <1>1, <3>1, <3>3, <3>4 DEF NewOK
  <2>15. NewOK(t)'
    <3>1. issued' \notin adrift /\ issued' # disk /\ \A u \in Tabs : store[u] # issued'
      BY <2>2, <2>6 DEF HeldIssued
    <3>2. \A u \in Tabs : /\ post'[u] # NoPost => post'[u].token # issued'
                          /\ post'[u].pc = "renewed" /\ u # t => post'[u].new # issued'
      BY <1>1, <2>2, <2>4, <2>5, <2>6 DEF HeldIssued
    <3> QED BY <1>1, <2>2, <2>4, <2>5, <3>1, <3>2 DEF NewOK
  <2>16. \A u \in Tabs : (post[u].pc = "renewed" => NewOK(u))'
    BY <2>5, <2>14, <2>15
  <2> QED BY <2>7, <2>11, <2>12, <2>13, <2>16 DEF TokensOK
<1> QED BY <1>2, <1>3, <1>4

\* A POST whose page has gone: what it spends is excused.
LEMMA ServeAdriftTokens ==
    ASSUME HeldIssued, TokensOK, NEW n \in Tokens, ServeAdrift(n)
    PROVE  HeldIssued' /\ TokensOK'
<1>1. /\ n \in adrift /\ adrift' = adrift \ {n} /\ UNCHANGED <<disk, store, post>>
      /\ \/ Rotate(n) /\ excused' = excused \cup {n}
         \/ Alarm(n)
         \/ UNCHANGED <<server, excused>>
  BY DEF ServeAdrift
<1>2. /\ issued \in Nat /\ issued' \in Stored /\ issued <= issued'
      /\ live' \subseteq 1 .. issued' /\ excused' \subseteq 1 .. issued'
      /\ Good \subseteq Good'
  <2>1. CASE Rotate(n) /\ excused' = excused \cup {n}
    <3>1. /\ issued \in Nat /\ issued' = issued + 1 /\ issued' \in Stored
          /\ n \in 1 .. issued /\ live' \subseteq 1 .. issued' /\ Good \ {n} \subseteq Good'
      BY <2>1, RotateFacts
    <3>2. n \in Good'
      BY <2>1 DEF Good
    <3> QED BY <2>1, <3>1, <3>2 DEF HeldIssued
  <2>2. CASE Alarm(n)
    <3>1. /\ UNCHANGED issued /\ live' \subseteq live
          /\ excused' \subseteq 1 .. issued /\ Good \subseteq Good'
      BY <2>2, AlarmFacts
    <3>2. issued \in Nat /\ issued \in Stored /\ live \subseteq 1 .. issued
      BY WebAssumption DEF HeldIssued, Stored
    <3> QED BY <3>1, <3>2
  <2>3. CASE UNCHANGED <<server, excused>>
    BY <2>3, WebAssumption DEF HeldIssued, Stored, server, Good
  <2> QED BY <1>1, <2>1, <2>2, <2>3
<1>3. 0 .. issued \subseteq 0 .. issued' /\ 1 .. issued \subseteq 1 .. issued'
  BY <1>2, WebAssumption DEF Stored
<1>4. HeldIssued'
  BY <1>1, <1>2, <1>3 DEF HeldIssued
<1>5. \A t \in Tabs : (post[t].pc = "renewed" => NewOK(t))'
  BY <1>1, <1>2 DEF TokensOK, NewOK
<1> QED BY <1>1, <1>2, <1>4, <1>5 DEF TokensOK, Spending

\* Every step keeps it.
LEMMA TokensStep == HeldIssued /\ TokensOK /\ [Next]_vars => HeldIssued' /\ TokensOK'
<1> SUFFICES ASSUME HeldIssued, TokensOK, [Next]_vars PROVE HeldIssued' /\ TokensOK'
  OBVIOUS
<1>1. UNCHANGED <<server, disk, store, post, adrift, excused>> => HeldIssued' /\ TokensOK'
  BY SameTokens
<1>2. ASSUME NEW c \in Calls, GiveUp(c) PROVE HeldIssued' /\ TokensOK'
  BY <1>2, SignsOut, WebAssumption DEF GiveUp
<1>3. ASSUME NEW c \in Calls, Lead(c) PROVE HeldIssued' /\ TokensOK'
  BY <1>3, Posts, WebAssumption DEF Lead, Refreshing
<1>4. ASSUME NEW t \in Tabs, SignOut(t) PROVE HeldIssued' /\ TokensOK'
  BY <1>4, SignsOut DEF SignOut
<1>5. ASSUME NEW t \in Tabs, SocketRefresh(t) PROVE HeldIssued' /\ TokensOK'
  BY <1>5, Posts DEF SocketRefresh
<1> QED BY <1>1, <1>2, <1>3, <1>4, <1>5, LoginTokens, LoadTokens, RefreshEndsTokens,
           LoseTokens, ServeRefreshTokens, ServeAdriftTokens
        DEF Next, vars, Send, Abort, ServeCall, Enqueue

\* HeldOK holds always.
THEOREM HeldAlways == Spec => [](HeldIssued /\ TokensOK /\ CallsOK)
<1>1. Init => HeldIssued /\ TokensOK /\ CallsOK
  BY HeldInit DEF HeldOK, TypeOK, CallsOK
<1> QED BY <1>1, TokensStep, CallsStep, PTL DEF Spec

\* Every tab, request and token is well typed, for any number of tabs and of tokens.
THEOREM TypesCorrect == Spec => []TypeOK
<1>1. HeldIssued /\ TokensOK /\ CallsOK => TypeOK
  <2> SUFFICES ASSUME HeldIssued, CallsOK PROVE TypeOK
    OBVIOUS
  <2>1. adrift \subseteq Tokens
    BY WebAssumption DEF HeldIssued, Stored, Tokens
  <2> QED BY <2>1 DEF HeldIssued, CallsOK, TypeOK
<1> QED BY <1>1, HeldAlways, PTL

\* handleUnauthorized, refreshAuthToken: however many tabs and calls there are, a tab
\* presents no spent refresh token but one that is excused.
THEOREM NoAlarmIsFalse == Spec => []NoFalseAlarm
<1>1. HeldIssued /\ TokensOK /\ CallsOK => NoFalseAlarm
  BY DEF TokensOK, NoFalseAlarm, Good
<1> QED BY <1>1, HeldAlways, PTL
==============================================================================
