----------------------------- MODULE RedisCache ------------------------------
(***************************************************************************)
(* RedisService (apps/api/src/common/redis/redis.service.ts): get, set and *)
(* del of one API process, which falls back to a map in its own memory     *)
(* when it has no connection or a call fails.                              *)
(***************************************************************************)
CONSTANTS
    Processes,    \* API processes
    Keys,
    NoValue,
    Outages       \* TRUE: connections are lost and calls fail

ASSUME RedisAssumption == Outages \in BOOLEAN

VARIABLES
    redis,        \* the keys in Redis
    memory        \* the memoryCache of each process

cache == <<redis, memory>>

CacheInit ==
    /\ redis = [k \in Keys |-> NoValue]
    /\ memory = [p \in Processes |-> [k \in Keys |-> NoValue]]

\* A call is answered by Redis when there is a connection (isConnected) and it does not
\* fail; connections come and go at any time.
Get(p, k) == {redis[k]} \cup (IF Outages THEN {memory[p][k]} ELSE {})

\* A set that failed may have reached Redis all the same.
Set(p, k, v) ==
    LET written == [redis EXCEPT ![k] = v]
    IN  \/ redis' = written /\ UNCHANGED memory
        \/ /\ Outages
           /\ redis' \in {redis, written}
           /\ memory' = [memory EXCEPT ![p][k] = v]

\* One that failed leaves the key in Redis, and the caller is not told.
Del(p, k) ==
    /\ redis' \in {[redis EXCEPT ![k] = NoValue]} \cup (IF Outages THEN {redis} ELSE {})
    /\ memory' = [memory EXCEPT ![p][k] = NoValue]

\* The time to live is over.
Expire(k) ==
    /\ redis[k] # NoValue
    /\ redis' = [redis EXCEPT ![k] = NoValue]
    /\ UNCHANGED memory

ExpireMemory(p, k) ==
    /\ memory[p][k] # NoValue
    /\ memory' = [memory EXCEPT ![p][k] = NoValue]
    /\ UNCHANGED redis
===============================================================================
