---------------------------- MODULE ConsoleProof -----------------------------
(***************************************************************************)
(* Proofs about Console, for every set of requests, processes, keys,       *)
(* records, licenses, roles and so on, and every bound.                    *)
(*                                                                         *)
(* Each theorem has an inductive invariant of the part it is about, which  *)
(* speaks of the handlers only while a behaviour is about that part, and a *)
(* lemma that the part's next-state relation keeps it.  The other parts    *)
(* leave the part's variables alone.                                       *)
(***************************************************************************)
EXTENDS Console, FiniteSetTheorems, TLAPS

\* The handlers are a function, and each is at a step of its part.
Doing(Tasks) == req = [r \in Requests |-> req[r]] /\ \A r \in Requests : req[r] \in Tasks

\* In the beginning nobody does anything.
LEMMA IdleInit ==
    ASSUME NEW Tasks, Idle \in Tasks, HandlersInit
    PROVE  Doing(Tasks)
  BY DEF HandlersInit, Doing

\* A handler that goes on, or ends, is where it says, and the others where they were.
LEMMA ContinueDoing ==
    ASSUME NEW Tasks, Doing(Tasks), NEW r \in Requests, NEW task \in Tasks,
           Continue(r, task) \/ Begin(r, task)
    PROVE  /\ Doing(Tasks)'
           /\ req'[r] = task
           /\ \A q \in Requests \ {r} : req'[q] = req[q]
  BY DEF Doing, Continue, Begin

\* One that ends is idle.
LEMMA FinishDoing ==
    ASSUME NEW Tasks, Idle \in Tasks, Doing(Tasks), NEW r \in Requests, Finish(r)
    PROVE  /\ Doing(Tasks)'
           /\ req'[r] = Idle
           /\ \A q \in Requests \ {r} : req'[q] = req[q]
  BY DEF Doing, Finish
-----------------------------------------------------------------------------
(* Stock.                                                                  *)

\* The codes 1 to n are n units.
LEMMA CodedCount ==
    ASSUME NEW n \in Nat
    PROVE  Cardinality(Coded(1 .. n)) = n
<1> DEFINE f == [i \in 1 .. n |-> [subcode |-> i, assetTag |-> i]]
<1>1. f \in Bijection(1 .. n, Coded(1 .. n))
  <2>1. f \in [1 .. n -> Coded(1 .. n)]
    BY DEF Coded
  <2>2. \A i, j \in 1 .. n : f[i] = f[j] => i = j
    <3> SUFFICES ASSUME NEW i \in 1 .. n, NEW j \in 1 .. n, f[i] = f[j] PROVE i = j
      OBVIOUS
    <3>1. f[i].subcode = i /\ f[j].subcode = j
      OBVIOUS
    <3> QED BY <3>1
  <2>3. \A t \in Coded(1 .. n) : \E i \in 1 .. n : f[i] = t
    BY DEF Coded
  <2> QED BY <2>1, <2>2, <2>3 DEF Bijection, Injection, IsInjective, Surjection
<1>2. ExistsBijection(1 .. n, Coded(1 .. n))
  BY <1>1 DEF ExistsBijection
<1> QED BY <1>2, FS_CountingElements

\* A handler restocks or does nothing.
StockHandlers ==
    /\ req = [r \in Requests |-> req[r]]
    /\ \A r \in Requests :
          \/ At(r, "idle")
          \/ At(r, "restock") /\ req[r].qty \in 1 .. MaxIntake

\* The units are numbered to n, and no restock has counted more.
InOrder(n) ==
    /\ units = Coded(1 .. n)
    /\ \A r \in Requests : At(r, "restock") => req[r].currentUnitCount \in 0 .. n

StockOK ==
    /\ StockHandlers
    /\ model \in Life
    /\ model = "none" => units = {}
    /\ ~byHand /\ model = "up" => \E n \in Nat : InOrder(n)

\* A restock that counted all units goes on where they end; one that counted fewer finds
\* its first number taken.
LEMMA RestockInOrder ==
    ASSUME StockOK, NEW r \in Requests, Restock(r), ~byHand
    PROVE  \E n \in Nat : InOrder(n)'
<1> DEFINE c == req[r].currentUnitCount
           q == req[r].qty
<1>1. model = "up" /\ At(r, "restock") /\ units' = units \cup Coded(Fresh(req[r]))
  BY DEF Restock, Insert
<1>2. PICK n \in Nat : InOrder(n)
  BY <1>1 DEF StockOK
<1>3. c \in 0 .. n /\ q \in Nat \ {0}
  BY <1>1, <1>2, StockAssumption DEF InOrder, StockOK, StockHandlers, At
<1>4. Fresh(req[r]) = c + 1 .. c + q
  BY <1>3 DEF Fresh, Sequence
<1>5. c = n
  <2> SUFFICES ASSUME c # n PROVE FALSE
    OBVIOUS
  <2>1. c + 1 \in 1 .. n /\ c + 1 \in Fresh(req[r])
    BY <1>3, <1>4
  <2>2. [subcode |-> c + 1, assetTag |-> c + 1] \in units
    BY <1>2, <2>1 DEF InOrder, Coded
  <2>3. Taken(c + 1)
    BY <2>2 DEF Taken
  <2> QED BY <2>1, <2>3 DEF Restock, Insert
<1>6. units' = Coded(1 .. n + q)
  <2>1. 1 .. n + q = (1 .. n) \cup (n + 1 .. n + q)
    BY <1>3
  <2> QED BY <1>1, <1>2, <1>4, <1>5, <2>1 DEF InOrder, Coded
<1>7. \A p \in Requests : At(p, "restock")' => req'[p].currentUnitCount \in 0 .. n + q
  <2>1. \A p \in Requests \ {r} : req'[p] = req[p]
    BY DEF Restock, Finish, StockOK, StockHandlers
  <2>2. ~At(r, "restock")'
    BY DEF Restock, Finish, Idle, At, StockOK, StockHandlers
  <2> QED BY <1>2, <1>3, <2>1, <2>2 DEF InOrder, At
<1> QED BY <1>3, <1>6, <1>7 DEF InOrder

\* A step of the stock keeps the units in order until somebody works by hand.
LEMMA StockStep == StockOK /\ StockNext => StockOK'
<1> SUFFICES ASSUME StockOK, StockNext PROVE StockOK'
  OBVIOUS
<1>1. ASSUME NEW n \in 0 .. MaxIntake, CreateModel(n) PROVE StockOK'
  <2>1. n \in Nat /\ Sequence(1, n) = 1 .. n
    BY StockAssumption DEF Sequence
  <2>2. InOrder(n)'
    BY <1>1, <2>1 DEF CreateModel, InOrder, At, Instant
  <2> QED BY <1>1, <2>1, <2>2 DEF CreateModel, StockOK, StockHandlers, At, Instant, Life
<1>2. ASSUME NEW r \in Requests, NEW n \in 1 .. MaxIntake, StartRestock(r, n) PROVE StockOK'
  <2> DEFINE task == [pc |-> "restock", currentUnitCount |-> Cardinality(units), qty |-> n]
  <2>1. req' = [req EXCEPT ![r] = task] /\ UNCHANGED stock
    BY <1>2 DEF StartRestock, Begin
  <2>2. StockHandlers'
    BY <2>1 DEF StockOK, StockHandlers, At
  <2>3. ASSUME NEW m \in Nat, InOrder(m) PROVE InOrder(m)'
    <3>1. Cardinality(units) = m
      BY <2>3, CodedCount DEF InOrder
    <3>2. task.currentUnitCount \in 0 .. m
      BY <3>1
    <3> QED BY <2>1, <2>3, <3>2 DEF InOrder, At, stock, StockOK, StockHandlers
  <2> QED BY <2>1, <2>2, <2>3 DEF StockOK, stock
<1>3. ASSUME NEW r \in Requests, Restock(r) PROVE StockOK'
  <2>1. StockHandlers'
    BY <1>3 DEF Restock, Finish, StockOK, StockHandlers, At, Idle
  <2>2. model = "up" /\ UNCHANGED <<model, byHand>>
    BY <1>3 DEF Restock, Insert
  <2>3. ~byHand => \E n \in Nat : InOrder(n)'
    BY <1>3, RestockInOrder
  <2> QED BY <2>1, <2>2, <2>3 DEF StockOK
<1>4. ASSUME NEW r \in Requests, StockAbort(r) PROVE StockOK'
  <2>1. StockHandlers' /\ UNCHANGED stock
    BY <1>4 DEF StockAbort, Finish, StockOK, StockHandlers, At, Idle
  <2>2. \A n \in Nat : InOrder(n) => InOrder(n)'
    BY <1>4, <2>1 DEF StockAbort, Finish, InOrder, At, Idle, stock, StockOK, StockHandlers
  <2> QED BY <2>1, <2>2 DEF StockOK, stock
\* Who works by hand answers for it, and leaves the rest as it is.
<1>5. ASSUME UNCHANGED <<req, model>>, byHand', model = "up" \/ units' = {} PROVE StockOK'
  BY <1>5 DEF StockOK, StockHandlers, At, Life
<1>6. ASSUME NEW codes, Intake(codes) PROVE StockOK'
  BY <1>5, <1>6 DEF Intake, Insert, Instant
<1>7. ASSUME NEW u \in units, NEW v, Replace(u, v) PROVE StockOK'
  BY <1>5, <1>7 DEF Replace, Instant, StockOK, Life
<1>8. ASSUME NEW u \in units, DeleteUnit(u) PROVE StockOK'
  BY <1>5, <1>8 DEF DeleteUnit, Instant, StockOK, Life
<1>9. ASSUME DeleteModel PROVE StockOK'
  BY <1>9 DEF DeleteModel, Instant, StockOK, StockHandlers, At, Life
<1> QED
  BY <1>1, <1>2, <1>3, <1>4, <1>6, <1>7, <1>8, <1>9 DEF StockNext, UpdateUnit, Update

\* The invariant of the whole: the parts that are not the stock leave it alone.
StockInv == (area = "stock" => StockOK) /\ RestockLeavesNoGap

\* Units in order have no gap.
LEMMA NoGap == StockOK => RestockLeavesNoGap
<1> SUFFICES ASSUME StockOK, ~byHand PROVE units = Coded(Sequence(1, Cardinality(units)))
  BY DEF RestockLeavesNoGap
<1>1. CASE model = "up"
  <2>1. PICK n \in Nat : units = Coded(1 .. n)
    BY <1>1 DEF StockOK, InOrder
  <2>2. Cardinality(units) = n
    BY <2>1, CodedCount
  <2> QED BY <2>1, <2>2 DEF Sequence
<1>2. CASE model = "none"
  <2>1. units = {} /\ Cardinality(units) = 0
    BY <1>2, FS_EmptySet DEF StockOK
  <2> QED BY <2>1 DEF Sequence, Coded
<1> QED BY <1>1, <1>2 DEF StockOK, Life

\* The stock is in order in every state.
LEMMA StockInvariant == Spec => []StockInv
<1>1. Init => StockInv
  <2> SUFFICES ASSUME Init PROVE StockOK
    BY NoGap DEF StockInv
  <2> QED BY DEF Init, HandlersInit, Idle, At, StockInit, StockOK, StockHandlers, Life
<1>2. StockInv /\ [Next]_vars => StockInv'
  <2> SUFFICES ASSUME StockInv, [Next]_vars PROVE StockInv'
    OBVIOUS
  <2>0. (StockOK => RestockLeavesNoGap)'
    BY NoGap, PTL
  <2>1. CASE area = "stock" /\ StockNext /\ UNCHANGED area
    BY <2>0, <2>1, StockStep DEF StockInv
  <2>2. CASE area # "stock" /\ UNCHANGED <<area, stock>>
    BY <2>2 DEF StockInv, RestockLeavesNoGap, stock
  <2>3. CASE UNCHANGED vars
    <3>1. UNCHANGED <<req, area, model, units, byHand>>
      BY <2>3 DEF vars, handlers, stock
    <3> QED BY <3>1 DEF StockInv, StockOK, StockHandlers, InOrder, At, RestockLeavesNoGap
  <2> QED BY <2>1, <2>2, <2>3 DEF Next
<1> QED BY <1>1, <1>2, PTL DEF Spec

\* Restocks, however they race and fail, number the units without a gap until somebody
\* deletes a unit or gives one a code (InventoryService.restock).
THEOREM RestocksLeaveNoGap == Spec => []RestockLeavesNoGap
<1>1. StockInv => RestockLeavesNoGap
  BY DEF StockInv
<1> QED BY <1>1, StockInvariant, PTL
-----------------------------------------------------------------------------
(* Copies of settings.                                                     *)

\* Redis, and the memory of each process, have a value or NoValue for each key.
CacheShape ==
    /\ redis = [k \in Keys |-> redis[k]]
    /\ memory = [p \in Processes |-> memory[p]]
    /\ \A p \in Processes : memory[p] = [k \in Keys |-> memory[p][k]]

\* What is at each place is what was, or what a set has put there.
LEMMA SetCopies ==
    ASSUME CacheShape, NEW p \in Processes, NEW k \in Keys, NEW v, Set(p, k, v)
    PROVE  /\ CacheShape'
           /\ \A w \in Places, j \in Keys :
                 CopyAt(w, j)' = CopyAt(w, j) \/ (j = k /\ CopyAt(w, j)' = v)
<1>1. CacheShape'
  BY DEF CacheShape, Set
<1>2. \A j \in Keys : redis'[j] = redis[j] \/ (j = k /\ redis'[j] = v)
  BY DEF CacheShape, Set
<1>3. \A q \in Processes, j \in Keys :
         memory'[q][j] = memory[q][j] \/ (j = k /\ memory'[q][j] = v)
  BY DEF CacheShape, Set
<1> QED BY <1>1, <1>2, <1>3 DEF CopyAt, Places

\* A del and the end of a time to live empty places of one key.
Forget(k) == (\E p \in Processes : Del(p, k) \/ ExpireMemory(p, k)) \/ Expire(k)

\* What is emptied is one key, and the rest is as it was.
LEMMA ForgetCopies ==
    ASSUME CacheShape, NEW k \in Keys, Forget(k)
    PROVE  /\ CacheShape'
           /\ \A w \in Places, j \in Keys :
                 CopyAt(w, j)' = CopyAt(w, j) \/ (j = k /\ CopyAt(w, j)' = NoValue)
<1>1. CacheShape'
  BY DEF CacheShape, Forget, Del, Expire, ExpireMemory
<1>2. \A j \in Keys : redis'[j] = redis[j] \/ (j = k /\ redis'[j] = NoValue)
  BY DEF CacheShape, Forget, Del, Expire, ExpireMemory
<1>3. \A q \in Processes, j \in Keys :
         memory'[q][j] = memory[q][j] \/ (j = k /\ memory'[q][j] = NoValue)
  BY DEF CacheShape, Forget, Del, Expire, ExpireMemory
<1> QED BY <1>1, <1>2, <1>3 DEF CopyAt, Places

\* A reader that is about to keep a value has the present one, or was overtaken; a
\* writer is to delete both copies.
TaskKnown(task) ==
    /\ task.pc = "fill" => task.raced \/ task.value = setting
    /\ task.pc = "upsert" => task.keys = SettingKeys

TasksKnown == \A r \in Requests : TaskKnown(req[r])

SettingsOK ==
    /\ Doing(SettingsTask)
    /\ setting \in Values
    /\ StaleExcused
    /\ TasksKnown

\* A handler that is not about to delete copies takes a step that changes none.
LEMMA QuietStep ==
    ASSUME SettingsOK, NEW r \in Requests, ~At(r, "invalidate"),
           \A q \in Requests \ {r} : req'[q] = req[q],
           UNCHANGED <<settings, cache>>
    PROVE  StaleExcused'
<1>1. \A c \in Copies : Stale(c)' = Stale(c)
  BY DEF Stale, CopyAt, settings, cache
<1>2. \A q \in Requests, k \in SettingKeys :
         At(q, "invalidate") /\ k \in req[q].keys => At(q, "invalidate")' /\ k \in req'[q].keys
  BY DEF At
<1>3. StaleExcused /\ UNCHANGED excused
  BY DEF SettingsOK, settings
<1> QED BY <1>1, <1>2, <1>3 DEF StaleExcused, Copies

\* A step of the settings keeps the reason of every stale copy known.
LEMMA SettingsStep ==
    ASSUME SettingsOK, CacheShape, SettingsNext
    PROVE  SettingsOK' /\ CacheShape'
<1> USE SettingsAssumption
<1>1. Idle \in SettingsTask
  BY DEF SettingsTask
<1>2. ASSUME NEW r \in Requests, ~At(r, "invalidate"), NEW task \in SettingsTask,
             Continue(r, task), UNCHANGED <<settings, cache>>,
             TaskKnown(task)
      PROVE  SettingsOK' /\ CacheShape'
  <2>1. /\ Doing(SettingsTask)' /\ req'[r] = task
        /\ \A q \in Requests \ {r} : req'[q] = req[q]
    BY <1>2, ContinueDoing DEF SettingsOK
  <2>2. TasksKnown'
    BY <1>2, <2>1 DEF SettingsOK, TasksKnown, TaskKnown, settings
  <2> QED BY <1>2, <2>1, <2>2, QuietStep DEF SettingsOK, CacheShape, settings, cache
<1>3. ASSUME NEW r \in Requests, ~At(r, "invalidate"), Finish(r), UNCHANGED <<settings, cache>>
      PROVE  SettingsOK' /\ CacheShape'
  <2>1. /\ Doing(SettingsTask)' /\ req'[r] = Idle
        /\ \A q \in Requests \ {r} : req'[q] = req[q]
    BY <1>1, <1>3, FinishDoing DEF SettingsOK
  <2>2. TasksKnown'
    BY <1>3, <2>1 DEF SettingsOK, TasksKnown, TaskKnown, settings, Idle
  <2> QED BY <1>3, <2>1, <2>2, QuietStep DEF SettingsOK, CacheShape, settings, cache
<1>4. ASSUME NEW r \in Requests, NEW p \in Processes, StartUpdate(r, p)
      PROVE  SettingsOK' /\ CacheShape'
  <2> DEFINE task == [pc |-> "upsert", process |-> p, keys |-> SettingKeys]
  <2>1. task \in SettingsTask /\ TaskKnown(task) /\ ~At(r, "invalidate")
    BY <1>4 DEF SettingsTask, UpdateTask, StartUpdate, At, TaskKnown
  <2> QED BY <1>2, <1>4, <2>1 DEF StartUpdate
<1>5. ASSUME NEW r \in Requests, NEW p \in Processes, NEW k \in SettingKeys, StartRead(r, p, k)
      PROVE  SettingsOK' /\ CacheShape'
  <2> DEFINE task == [pc |-> "get", process |-> p, key |-> k]
  <2>1. task \in SettingsTask /\ TaskKnown(task) /\ ~At(r, "invalidate")
    BY <1>5 DEF SettingsTask, ReadTask, StartRead, At, TaskKnown
  <2> QED BY <1>2, <1>5, <2>1 DEF StartRead
<1>6. ASSUME NEW r \in Requests, ReadCache(r) PROVE SettingsOK' /\ CacheShape'
  <2> DEFINE task == [req[r] EXCEPT !.pc = "query"]
  <2>1. req[r] \in ReadTask /\ ~At(r, "invalidate")
    BY <1>6 DEF ReadCache, At, SettingsOK, Doing, SettingsTask, Idle, ReadTask, FillTask, UpdateTask
  <2>2. task \in SettingsTask /\ TaskKnown(task)
    BY <2>1 DEF SettingsTask, ReadTask, TaskKnown
  <2>3. Finish(r) \/ Continue(r, task)
    BY <1>6 DEF ReadCache, Goto
  <2> QED BY <1>2, <1>3, <1>6, <2>1, <2>2, <2>3 DEF ReadCache
<1>7. ASSUME NEW r \in Requests, QuerySetting(r) PROVE SettingsOK' /\ CacheShape'
  <2> DEFINE task == [pc |-> "fill", process |-> req[r].process, key |-> req[r].key,
                      value |-> setting, raced |-> FALSE]
  <2>1. req[r] \in ReadTask /\ ~At(r, "invalidate")
    BY <1>7 DEF QuerySetting, At, SettingsOK, Doing, SettingsTask, Idle, ReadTask, FillTask, UpdateTask
  <2>2. task \in SettingsTask /\ TaskKnown(task)
    BY <2>1 DEF SettingsTask, ReadTask, FillTask, SettingsOK, TaskKnown
  <2>3. Finish(r) \/ Continue(r, task)
    BY <1>7 DEF QuerySetting
  <2> QED BY <1>2, <1>3, <1>7, <2>1, <2>2, <2>3 DEF QuerySetting
<1>8. ASSUME NEW r \in Requests, Fill(r) PROVE SettingsOK' /\ CacheShape'
  <2>1. req[r] \in FillTask /\ ~At(r, "invalidate")
    BY <1>8 DEF Fill, At, SettingsOK, Doing, SettingsTask, Idle, ReadTask, FillTask, UpdateTask
  <2>2. PICK p \in {req[r].process}, k \in {req[r].key}, v \in {req[r].value} :
           /\ Set(p, k, v)
           /\ excused' = {c \in Copies : /\ Stale(c)'
                                         /\ \/ c \in excused
                                            \/ c \in Saying(k, v) /\ req[r].raced}
    BY <1>8 DEF Fill
  <2>3. p \in Processes /\ k \in SettingKeys /\ k \in Keys /\ UNCHANGED setting /\ Finish(r)
    BY <1>8, <2>1 DEF FillTask, Fill
  <2>4. CacheShape' /\ \A w \in Places, j \in Keys :
                          CopyAt(w, j)' = CopyAt(w, j) \/ (j = k /\ CopyAt(w, j)' = v)
    BY <2>2, <2>3, SetCopies
  <2>5. /\ Doing(SettingsTask)' /\ req'[r] = Idle
        /\ \A q \in Requests \ {r} : req'[q] = req[q]
    BY <1>1, <2>3, FinishDoing DEF SettingsOK
  <2>6. TasksKnown'
    BY <2>3, <2>5 DEF SettingsOK, TasksKnown, TaskKnown, Idle
  <2>7. ASSUME NEW c \in Copies, Stale(c)'
        PROVE  c \in excused' \/ \E q \in Requests : At(q, "invalidate")' /\ c[2] \in req'[q].keys
    <3>1. c[1] \in Places /\ c[2] \in SettingKeys /\ c[2] \in Keys
      BY DEF Copies
    <3>2. CASE CopyAt(c[1], c[2])' = CopyAt(c[1], c[2])
      <4>1. Stale(c)
        BY <2>3, <2>7, <3>2 DEF Stale
      <4>2. CASE c \in excused
        BY <2>2, <2>7, <4>2
      <4>3. CASE \E q \in Requests : At(q, "invalidate") /\ c[2] \in req[q].keys
        BY <2>1, <2>5, <4>3 DEF At
      <4> QED BY <4>1, <4>2, <4>3 DEF SettingsOK, StaleExcused
    <3>3. CASE c[2] = k /\ CopyAt(c[1], c[2])' = v
      <4>1. v # setting
        BY <2>3, <2>7, <3>3 DEF Stale
      <4>2. req[r].raced
        BY <1>8, <4>1 DEF SettingsOK, TasksKnown, TaskKnown, Fill, At
      <4>3. c \in Saying(k, v)
        BY <3>3 DEF Saying
      <4> QED BY <2>2, <2>7, <4>2, <4>3
    <3> QED BY <2>4, <3>1, <3>2, <3>3
  <2> QED BY <2>3, <2>4, <2>5, <2>6, <2>7 DEF SettingsOK, StaleExcused, Copies
<1>9. ASSUME NEW r \in Requests, Upsert(r) PROVE SettingsOK' /\ CacheShape'
  <2>1. req[r] \in UpdateTask /\ req[r].pc = "upsert"
    BY <1>9 DEF Upsert, At, SettingsOK, Doing, SettingsTask, Idle, ReadTask, FillTask, UpdateTask
  <2>0. req[r].keys = SettingKeys
    BY <2>1 DEF SettingsOK, TasksKnown, TaskKnown
  <2>2. /\ req' = [q \in Requests |-> req'[q]]
        /\ req'[r] = [req[r] EXCEPT !.pc = "invalidate"]
        /\ \A q \in Requests \ {r} :
              req'[q] = IF At(q, "fill") THEN [req[q] EXCEPT !.raced = TRUE] ELSE req[q]
    BY <1>9 DEF Upsert
  <2>3. Doing(SettingsTask)'
    <3>1. req'[r] \in SettingsTask
      BY <2>1, <2>2 DEF UpdateTask, SettingsTask
    <3>2. ASSUME NEW q \in Requests \ {r}, At(q, "fill") PROVE req'[q] \in SettingsTask
      <4>1. req[q] \in FillTask
        BY <3>2 DEF At, SettingsOK, Doing, SettingsTask, Idle, ReadTask, FillTask, UpdateTask
      <4> QED BY <2>2, <3>2, <4>1 DEF FillTask, SettingsTask
    <3>3. ASSUME NEW q \in Requests \ {r}, ~At(q, "fill") PROVE req'[q] \in SettingsTask
      BY <2>2, <3>3 DEF SettingsOK, Doing
    <3> QED BY <2>2, <3>1, <3>2, <3>3 DEF Doing
  <2>4. TasksKnown'
    <3> SUFFICES ASSUME NEW q \in Requests PROVE TaskKnown(req[q])'
      BY DEF TasksKnown
    <3>1. CASE q = r
      BY <2>1, <2>2, <3>1 DEF UpdateTask, TaskKnown
    <3>2. CASE q # r /\ At(q, "fill")
      <4>1. req[q] \in FillTask
        BY <3>2 DEF At, SettingsOK, Doing, SettingsTask, Idle, ReadTask, FillTask, UpdateTask
      <4> QED BY <2>2, <3>2, <4>1 DEF FillTask, TaskKnown
    <3>3. CASE q # r /\ ~At(q, "fill")
      BY <2>2, <3>3 DEF SettingsOK, TasksKnown, TaskKnown, At
    <3> QED BY <3>1, <3>2, <3>3
  <2>5. StaleExcused'
    <3> SUFFICES ASSUME NEW c \in Copies PROVE At(r, "invalidate")' /\ c[2] \in req'[r].keys
      BY DEF StaleExcused, Copies
    <3> QED BY <2>1, <2>2, <2>0 DEF At, UpdateTask, Copies
  <2>6. setting' \in Values
    BY <1>9 DEF Upsert, SettingsOK, Values
  <2> QED BY <1>9, <2>3, <2>4, <2>5, <2>6 DEF SettingsOK, CacheShape, Upsert, cache
<1>10. ASSUME NEW r \in Requests, NEW k \in SettingKeys, Invalidate(r, k)
       PROVE  SettingsOK' /\ CacheShape'
  <2> DEFINE task == [req[r] EXCEPT !.keys = @ \ {k}]
  <2>1. req[r] \in UpdateTask /\ req[r].pc = "invalidate" /\ k \in Keys
    BY <1>10 DEF Invalidate, At, SettingsOK, Doing, SettingsTask, Idle, ReadTask, FillTask, UpdateTask
  <2>2. CacheShape' /\ \A w \in Places, j \in Keys :
                          CopyAt(w, j)' = CopyAt(w, j) \/ (j = k /\ CopyAt(w, j)' = NoValue)
    BY <1>10, <2>1, ForgetCopies DEF Invalidate, Forget, UpdateTask
  <2>3. task \in SettingsTask /\ TaskKnown(task)
    BY <2>1 DEF UpdateTask, SettingsTask, TaskKnown
  <2>4. /\ Doing(SettingsTask)'
        /\ \A q \in Requests \ {r} : req'[q] = req[q]
        /\ req'[r] = task \/ (req'[r] = Idle /\ req[r].keys = {k})
    BY <1>1, <1>10, <2>3, FinishDoing, ContinueDoing DEF Invalidate, SettingsOK
  <2>5. UNCHANGED setting /\ excused' = {c \in Copies : Stale(c)' /\ (c \in excused \/ c[2] = k)}
    BY <1>10 DEF Invalidate
  <2>6. TasksKnown'
    <3>1. TaskKnown(req[r])'
      BY <2>1, <2>4 DEF UpdateTask, TaskKnown, Idle
    <3>2. \A q \in Requests \ {r} : TaskKnown(req[q])'
      BY <2>4, <2>5 DEF SettingsOK, TasksKnown, TaskKnown
    <3> QED BY <3>1, <3>2 DEF TasksKnown
  <2>7. ASSUME NEW c \in Copies, Stale(c)', c[2] # k
        PROVE  c \in excused' \/ \E q \in Requests : At(q, "invalidate")' /\ c[2] \in req'[q].keys
    <3>1. c[1] \in Places /\ c[2] \in SettingKeys /\ c[2] \in Keys
      BY DEF Copies
    <3>2. Stale(c)
      BY <2>2, <2>5, <2>7, <3>1 DEF Stale
    <3>3. CASE c \in excused
      BY <2>5, <2>7, <3>3
    <3>4. ASSUME NEW q \in Requests, At(q, "invalidate"), c[2] \in req[q].keys
          PROVE  At(q, "invalidate")' /\ c[2] \in req'[q].keys
      BY <2>1, <2>4, <2>7, <3>1, <3>4 DEF At, UpdateTask
    <3> QED BY <3>2, <3>3, <3>4 DEF SettingsOK, StaleExcused
  <2>8. StaleExcused'
    BY <2>5, <2>7 DEF StaleExcused, Copies
  <2> QED BY <2>2, <2>4, <2>5, <2>6, <2>8 DEF SettingsOK
<1>11. ASSUME NEW r \in Requests, SettingsAbort(r) PROVE SettingsOK' /\ CacheShape'
  <2>1. /\ Doing(SettingsTask)' /\ req'[r] = Idle
        /\ \A q \in Requests \ {r} : req'[q] = req[q]
    BY <1>1, <1>11, FinishDoing DEF SettingsAbort, SettingsOK
  <2>2. /\ UNCHANGED <<setting, cache>>
        /\ excused' = {c \in Copies : /\ Stale(c)
                                      /\ \/ c \in excused
                                         \/ At(r, "invalidate") /\ c[2] \in req[r].keys}
    BY <1>11 DEF SettingsAbort
  <2>3. TasksKnown'
    BY <2>1, <2>2 DEF SettingsOK, TasksKnown, TaskKnown, Idle
  <2>4. ASSUME NEW c \in Copies, Stale(c)'
        PROVE  c \in excused' \/ \E q \in Requests : At(q, "invalidate")' /\ c[2] \in req'[q].keys
    <3>1. Stale(c)
      BY <2>2, <2>4 DEF Stale, CopyAt, cache
    <3> QED BY <2>1, <2>2, <3>1 DEF SettingsOK, StaleExcused, At
  <2> QED BY <2>1, <2>2, <2>3, <2>4 DEF SettingsOK, StaleExcused, Copies, CacheShape, cache
<1>12. ASSUME CacheEvent PROVE SettingsOK' /\ CacheShape'
  <2>1. PICK k \in SettingKeys : Forget(k)
    BY <1>12 DEF CacheEvent, Forget
  <2>2. CacheShape' /\ \A w \in Places, j \in Keys :
                          CopyAt(w, j)' = CopyAt(w, j) \/ (j = k /\ CopyAt(w, j)' = NoValue)
    BY <2>1, ForgetCopies
  <2>3. UNCHANGED <<req, setting>> /\ excused' = {c \in excused : Stale(c)'}
    BY <1>12 DEF CacheEvent, handlers
  <2>4. Doing(SettingsTask)' /\ TasksKnown' /\ setting' \in Values
    BY <2>3 DEF SettingsOK, Doing, TasksKnown, TaskKnown
  <2>5. ASSUME NEW c \in Copies, Stale(c)'
        PROVE  c \in excused' \/ \E q \in Requests : At(q, "invalidate")' /\ c[2] \in req'[q].keys
    <3>1. c[1] \in Places /\ c[2] \in Keys
      BY DEF Copies
    <3>2. Stale(c)
      BY <2>2, <2>3, <2>5, <3>1 DEF Stale
    <3> QED BY <2>3, <2>5, <3>2 DEF SettingsOK, StaleExcused, At
  <2> QED BY <2>2, <2>4, <2>5 DEF SettingsOK, StaleExcused, Copies
<1> QED
  BY <1>4, <1>5, <1>6, <1>7, <1>8, <1>9, <1>10, <1>11, <1>12 DEF SettingsNext
-----------------------------------------------------------------------------
(* Scans.                                                                  *)

\* What is left of a scan is of the things there are.
LEMMA ScanTasks ==
    /\ Idle \in ScansTask
    /\ \A p \in Processes, left \in SUBSET Things, unmarked \in SUBSET Licenses :
          [pc |-> "scan", process |-> p, left |-> left, unmarked |-> unmarked] \in ScanTask
    /\ \A p \in Processes, left \in SUBSET Things, unmarked \in SUBSET Licenses, x \in Things,
          step \in {"check", "notify", "set"} :
          [pc |-> step, process |-> p, left |-> left, unmarked |-> unmarked, thing |-> x] \in ThingTask
    /\ \A p \in Processes, x \in Records :
          [pc |-> "clear", process |-> p, thing |-> x] \in ClearTask
    /\ ScanTask \cup ThingTask \cup ClearTask \subseteq ScansTask
  BY DEF ScansTask, ScanTask, ThingTask, ClearTask

\* A handler at a step is in its task.
LEMMA ScanSteps ==
    ASSUME Doing(ScansTask), NEW r \in Requests
    PROVE  /\ At(r, "scan") => req[r] \in ScanTask
           /\ At(r, "check") \/ At(r, "notify") \/ At(r, "set") => req[r] \in ThingTask
           /\ At(r, "clear") => req[r] \in ClearTask
           /\ At(r, "idle") => req[r] = Idle
           /\ \/ At(r, "scan") \/ At(r, "check") \/ At(r, "notify") \/ At(r, "set")
              \/ At(r, "clear") \/ At(r, "idle")
<1>1. req[r] \in {Idle} \cup ScanTask \cup ThingTask \cup ClearTask
  BY DEF Doing, ScansTask
<1>2. ASSUME req[r] \in ScanTask PROVE req[r].pc = "scan"
  BY <1>2 DEF ScanTask
<1>3. ASSUME req[r] \in ThingTask PROVE req[r].pc \in {"check", "notify", "set"}
  BY <1>3 DEF ThingTask
<1>4. ASSUME req[r] \in ClearTask PROVE req[r].pc = "clear"
  BY <1>4 DEF ClearTask
<1> QED BY <1>1, <1>2, <1>3, <1>4 DEF At, Idle

\* A step of a scan puts one handler at a new task; the others stay where they are.
LEMMA ScansDoing ==
    ASSUME Doing(ScansTask), NEW kind \in {Records, Licenses}, ScansNext(kind)
    PROVE  Doing(ScansTask)'
<1>1. ASSUME NEW x \in kind, \/ FallDue(x) \/ Cooldown(x)
                              \/ \E isDue, isExpired \in BOOLEAN : UpdateLicense(x, isDue, isExpired)
      PROVE  Doing(ScansTask)'
  BY <1>1 DEF FallDue, UpdateLicense, Cooldown, handlers, Doing
<1>2. ASSUME NEW r \in Requests, NEW p \in Processes, StartScan(r, p, kind) PROVE Doing(ScansTask)'
  <2> DEFINE task == [pc |-> "scan", process |-> p, left |-> due \cap kind,
                      unmarked |-> (due \cap kind \cap Licenses) \ expired]
  <2>1. task \in ScansTask
    BY ScanTasks DEF Things
  <2> QED BY <1>2, <2>1, ContinueDoing DEF StartScan
<1>3. ASSUME NEW r \in Requests, NEW p \in Processes, NEW x \in kind, Resolve(r, p, x)
      PROVE  Doing(ScansTask)'
  <2>1. [pc |-> "clear", process |-> p, thing |-> x] \in ScansTask
    BY <1>3, ScanTasks DEF Resolve
  <2> QED BY <1>3, <2>1, ContinueDoing DEF Resolve
<1>4. ASSUME NEW r \in Requests, NEW x \in kind, NextThing(r, x) PROVE Doing(ScansTask)'
  <2> DEFINE task == [pc |-> "check", process |-> req[r].process, left |-> req[r].left \ {x},
                      unmarked |-> req[r].unmarked \ {x}, thing |-> x]
  <2>1. req[r] \in ScanTask
    BY <1>4, ScanSteps DEF NextThing
  <2>2. task \in ScansTask
    BY <2>1, ScanTasks DEF ScanTask, Things
  <2> QED BY <1>4, <2>2, ContinueDoing DEF NextThing
<1>5. ASSUME NEW r \in Requests, req[r] \in ThingTask, Proceed(r) PROVE Doing(ScansTask)'
  <2> DEFINE task == [pc |-> "scan", process |-> req[r].process, left |-> req[r].left,
                      unmarked |-> req[r].unmarked]
  <2>1. task \in ScansTask
    BY <1>5, ScanTasks DEF ThingTask
  <2>2. Finish(r) \/ Continue(r, task)
    BY <1>5 DEF Proceed
  <2> QED BY <2>1, <2>2, ContinueDoing, FinishDoing, ScanTasks
<1>6. ASSUME NEW r \in Requests, req[r] \in ThingTask, NEW step \in {"notify", "set"}, Goto(r, step)
      PROVE  Doing(ScansTask)'
  <2>1. [req[r] EXCEPT !.pc = step] \in ThingTask
    BY <1>6 DEF ThingTask
  <2> QED BY <1>6, <2>1, ScanTasks, ContinueDoing DEF Goto
<1>7. ASSUME NEW r \in Requests, CheckKey(r) \/ NotifyAdmins(r) \/ SetKey(r) PROVE Doing(ScansTask)'
  BY <1>5, <1>6, <1>7, ScanSteps DEF CheckKey, NotifyAdmins, SetKey
<1>8. ASSUME NEW r \in Requests, ClearAlert(r) \/ ScanAbort(r) PROVE Doing(ScansTask)'
  BY <1>8, FinishDoing, ScanTasks DEF ClearAlert, ScanAbort
<1> QED
  BY <1>1, <1>2, <1>3, <1>4, <1>7, <1>8 DEF ScansNext

\* A scan of one kind of thing touches the keys of such things alone.
LEMMA ScansCopies ==
    ASSUME CacheShape, Doing(ScansTask), NEW kind \in {Records, Licenses}, ScansNext(kind)
    PROVE  /\ CacheShape'
           /\ \A w \in Places, j \in SettingKeys : CopyAt(w, j)' = CopyAt(w, j)
<1> USE KeysAssumption, ScansAssumption, SettingsAssumption DEF Things
<1>1. ASSUME NEW k \in Things, Forget(k) PROVE CacheShape' /\ \A w \in Places, j \in SettingKeys :
                                                  CopyAt(w, j)' = CopyAt(w, j)
  BY <1>1, ForgetCopies
<1>2. ASSUME NEW p \in Processes, NEW k \in Things, NEW v, Set(p, k, v)
      PROVE  CacheShape' /\ \A w \in Places, j \in SettingKeys : CopyAt(w, j)' = CopyAt(w, j)
  BY <1>2, SetCopies
<1>3. ASSUME UNCHANGED cache
      PROVE  CacheShape' /\ \A w \in Places, j \in SettingKeys : CopyAt(w, j)' = CopyAt(w, j)
  BY <1>3 DEF CacheShape, CopyAt, cache
<1>4. ASSUME NEW r \in Requests, At(r, "clear") \/ At(r, "set")
      PROVE  req[r].process \in Processes /\ req[r].thing \in Things
  <2>1. req[r] \in ThingTask \cup ClearTask
    BY <1>4 DEF Doing, ScansTask, Idle, ScanTask, At
  <2> QED BY <2>1 DEF ThingTask, ClearTask
<1>5. ASSUME NEW x \in kind, \/ FallDue(x)
                              \/ \E isDue, isExpired \in BOOLEAN : UpdateLicense(x, isDue, isExpired)
      PROVE  UNCHANGED cache
  BY <1>5 DEF FallDue, UpdateLicense
<1>6. ASSUME NEW x \in kind, Cooldown(x) PROVE Forget(x)
  BY <1>6 DEF Cooldown, Forget
<1>7. ASSUME NEW r \in Requests,
             \/ \E p \in Processes : StartScan(r, p, kind) \/ \E x \in kind : Resolve(r, p, x)
             \/ \E x \in kind : NextThing(r, x)
             \/ CheckKey(r) \/ NotifyAdmins(r) \/ ScanAbort(r)
      PROVE  UNCHANGED cache
  BY <1>7 DEF StartScan, Resolve, NextThing, CheckKey, NotifyAdmins, ScanAbort
<1>8. ASSUME NEW r \in Requests, ClearAlert(r) PROVE Forget(req[r].thing) /\ req[r].thing \in Things
  BY <1>4, <1>8 DEF ClearAlert, Forget
<1>9. ASSUME NEW r \in Requests, SetKey(r)
      PROVE  /\ Set(req[r].process, req[r].thing, TRUE)
             /\ req[r].process \in Processes /\ req[r].thing \in Things
  BY <1>4, <1>9 DEF SetKey
<1> QED
  BY <1>1, <1>2, <1>3, <1>5, <1>6, <1>7, <1>8, <1>9 DEF ScansNext

\* Which part a step is of, as far as the cache and the scans go.
LEMMA Parts ==
    ASSUME [Next]_vars
    PROVE  \/ area = "settings" /\ SettingsNext /\ UNCHANGED <<area, scans>>
           \/ /\ area \in {"records", "licenses"}
              /\ \E kind \in {Records, Licenses} : ScansNext(kind)
              /\ UNCHANGED <<area, settings>>
           \/ /\ area \notin {"settings", "records", "licenses"}
              /\ UNCHANGED <<area, cache, settings, scans>>
           \/ UNCHANGED vars
  BY DEF Next

\* The copies are those of a setting, or there are none.
StaleInv ==
    /\ CacheShape
    /\ area \in {"records", "licenses"} => Doing(ScansTask)
    /\ area = "settings" => SettingsOK
    /\ area # "settings" => \A c \in Copies : ~Stale(c)

\* The copies of settings are excused in every state.
LEMMA StaleInvariant == Spec => []StaleInv
<1>1. Init => StaleInv
  <2> SUFFICES ASSUME Init PROVE StaleInv
    OBVIOUS
  <2>1. CacheShape /\ \A c \in Copies : ~Stale(c)
    BY SettingsAssumption DEF Init, CacheInit, CacheShape, Stale, CopyAt, Copies, Places
  <2>2. Doing(ScansTask) /\ Doing(SettingsTask)
    BY IdleInit DEF Init, ScansTask, SettingsTask
  <2>3. setting \in Values \/ area # "settings"
    BY SettingsAssumption DEF Init, SettingsInit, Values
  <2>4. TasksKnown
    BY DEF Init, HandlersInit, TasksKnown, TaskKnown, Idle
  <2> QED BY <2>1, <2>2, <2>3, <2>4 DEF StaleInv, SettingsOK, StaleExcused
<1>2. StaleInv /\ [Next]_vars => StaleInv'
  <2> SUFFICES ASSUME StaleInv, [Next]_vars PROVE StaleInv'
    OBVIOUS
  <2>1. CASE area = "settings" /\ SettingsNext /\ UNCHANGED area
    BY <2>1, SettingsStep DEF StaleInv
  <2>2. CASE /\ area \in {"records", "licenses"} /\ UNCHANGED <<area, settings>>
             /\ \E kind \in {Records, Licenses} : ScansNext(kind)
    <3>1. PICK kind \in {Records, Licenses} : ScansNext(kind)
      BY <2>2
    <3>2. CacheShape' /\ \A w \in Places, j \in SettingKeys : CopyAt(w, j)' = CopyAt(w, j)
      BY <2>2, <3>1, ScansCopies DEF StaleInv
    <3>3. \A c \in Copies : ~Stale(c)'
      BY <2>2, <3>2 DEF StaleInv, Stale, Copies, settings
    <3> QED BY <2>2, <3>1, <3>2, <3>3, ScansDoing DEF StaleInv, Copies
  <2>3. CASE area \notin {"settings", "records", "licenses"} /\ UNCHANGED <<area, cache, settings>>
    BY <2>3 DEF StaleInv, CacheShape, Copies, Stale, CopyAt, cache, settings
  <2>4. CASE UNCHANGED vars
    <3>1. UNCHANGED <<req, redis, memory, setting, excused, area>>
      BY <2>4 DEF vars, handlers, cache, settings
    <3>2. CacheShape' /\ Copies' = Copies /\ \A c \in Copies : Stale(c)' = Stale(c)
      BY <3>1 DEF StaleInv, CacheShape, Copies, Stale, CopyAt
    <3>3. (Doing(ScansTask) => Doing(ScansTask)') /\ (SettingsOK => SettingsOK')
      BY <3>1, <3>2 DEF Doing, SettingsOK, StaleExcused, TasksKnown, TaskKnown, At
    <3> QED BY <3>1, <3>2, <3>3 DEF StaleInv
  <2> QED BY <2>1, <2>2, <2>3, <2>4, Parts
<1> QED BY <1>1, <1>2, PTL DEF Spec

\* However readers, writers, lost connections and crashes interleave, a stale copy has one
\* of the named reasons (SettingsService, RedisService).
THEOREM StaleIsExcused == Spec => []StaleExcused
<1>1. StaleInv => StaleExcused
  BY DEF StaleInv, SettingsOK, StaleExcused
<1> QED BY <1>1, StaleInvariant, PTL
-----------------------------------------------------------------------------
(* What the scans do.                                                      *)

\* What a scan read as not expired was due, or has been renewed since.
UnmarkedKnown ==
    \A r \in Requests : req[r] \in ScanTask \cup ThingTask =>
        req[r].unmarked \subseteq req[r].left \cap (due \cup overtaken)

ExpiredOK == UnmarkedKnown /\ ExpiredExcused /\ expired \subseteq Licenses

\* A step of a scan marks no license that was not due, or renewed since it was read.
LEMMA ExpiredStep ==
    ASSUME Doing(ScansTask), ExpiredOK, NEW kind \in {Records, Licenses}, ScansNext(kind)
    PROVE  ExpiredOK'
<1> USE ScansAssumption DEF ExpiredOK
<1>1. ASSUME NEW x \in kind, FallDue(x) PROVE ExpiredOK'
  BY <1>1 DEF FallDue, handlers, UnmarkedKnown, ExpiredExcused
<1>2. ASSUME NEW x \in kind, NEW isDue \in BOOLEAN, NEW isExpired \in BOOLEAN,
             UpdateLicense(x, isDue, isExpired)
      PROVE  ExpiredOK'
  <2>1. /\ UNCHANGED req /\ x \in Licenses
        /\ expired' = (expired \ {x}) \cup {y \in {x} : isExpired}
        /\ overtaken' = (overtaken \ {x}) \cup {y \in {x} : ~isDue /\ \E r \in Requests : Condemns(r, y)}
        /\ deliberate' = (deliberate \ {x}) \cup {y \in {x} : ~isDue /\ isExpired}
    BY <1>2 DEF UpdateLicense, handlers
  <2>2. isDue => due' = due \cup {x}
    BY <1>2 DEF UpdateLicense
  <2>3. ~isDue => due' = due \ {x}
    BY <1>2 DEF UpdateLicense, Settled
  <2>4. UnmarkedKnown'
    <3> SUFFICES ASSUME NEW r \in Requests, req[r] \in ScanTask \cup ThingTask, NEW y \in req[r].unmarked
                 PROVE  y \in req[r].left \cap (due' \cup overtaken')
      BY <2>1 DEF UnmarkedKnown
    <3>1. y \in req[r].left \cap (due \cup overtaken)
      BY DEF UnmarkedKnown
    <3>2. CASE y = x /\ isDue
      BY <2>2, <3>1, <3>2
    <3>3. CASE y = x /\ ~isDue
      <4>1. Condemns(r, y)
        BY DEF Condemns
      <4> QED BY <2>1, <3>1, <3>3, <4>1
    <3>4. CASE y # x
      BY <2>1, <2>2, <2>3, <3>1, <3>4
    <3> QED BY <3>2, <3>3, <3>4
  <2>5. ASSUME NEW y \in expired', y \notin due' PROVE y \in overtaken' \cup deliberate'
    <3>1. CASE y = x
      BY <2>1, <2>2, <2>3, <2>5, <3>1
    <3>2. CASE y # x
      BY <2>1, <2>2, <2>3, <2>5, <3>2 DEF ExpiredExcused
    <3> QED BY <3>1, <3>2
  <2>6. expired' \subseteq Licenses
    BY <2>1
  <2> QED BY <2>4, <2>5, <2>6 DEF ExpiredExcused
<1>3. ASSUME NEW x \in kind, Cooldown(x) PROVE ExpiredOK'
  BY <1>3 DEF Cooldown, handlers, UnmarkedKnown, ExpiredExcused
\* A handler whose new task reads no more than it did.
<1>4. ASSUME NEW r \in Requests, \A q \in Requests \ {r} : req'[q] = req[q],
             req'[r] \in ScanTask \cup ThingTask =>
                req'[r].unmarked \subseteq req'[r].left \cap (due \cup overtaken),
             UNCHANGED <<due, expired, overtaken, deliberate>>
      PROVE  ExpiredOK'
  BY <1>4 DEF UnmarkedKnown, ExpiredExcused
<1>5. ASSUME NEW r \in Requests, NEW p \in Processes, StartScan(r, p, kind) PROVE ExpiredOK'
  <2> DEFINE task == [pc |-> "scan", process |-> p, left |-> due \cap kind,
                      unmarked |-> (due \cap kind \cap Licenses) \ expired]
  <2>1. req'[r] = task /\ \A q \in Requests \ {r} : req'[q] = req[q]
    BY <1>5 DEF StartScan, Continue, Doing
  <2> QED BY <1>4, <1>5, <2>1 DEF StartScan, scans
<1>6. ASSUME NEW r \in Requests, NEW p \in Processes, NEW x \in kind, Resolve(r, p, x) PROVE ExpiredOK'
  <2>1. req'[r] \in ClearTask /\ \A q \in Requests \ {r} : req'[q] = req[q]
    BY <1>6, ScanTasks DEF Resolve, Continue, Doing
  <2>2. req'[r] \notin ScanTask \cup ThingTask
    BY <2>1 DEF ScanTask, ThingTask, ClearTask
  <2>3. x \notin Licenses /\ due' = due \ {x} /\ UNCHANGED <<expired, overtaken, deliberate>>
    BY <1>6 DEF Resolve, Settled
  <2>4. \A q \in Requests : req[q] \in ScanTask \cup ThingTask => req[q].unmarked \subseteq Licenses
    BY DEF ScanTask, ThingTask
  <2>5. UnmarkedKnown'
    BY <2>1, <2>2, <2>3, <2>4 DEF UnmarkedKnown
  <2> QED BY <2>3, <2>5 DEF ExpiredExcused
<1>7. ASSUME NEW r \in Requests, NEW x \in kind, NextThing(r, x) PROVE ExpiredOK'
  <2> DEFINE task == [pc |-> "check", process |-> req[r].process, left |-> req[r].left \ {x},
                      unmarked |-> req[r].unmarked \ {x}, thing |-> x]
  <2>1. /\ req'[r] = task /\ \A q \in Requests \ {r} : req'[q] = req[q]
        /\ expired' = expired \cup ({x} \cap req[r].unmarked)
        /\ UNCHANGED <<due, overtaken, deliberate>>
    BY <1>7 DEF NextThing, Continue, Doing
  <2>2. req[r] \in ScanTask
    BY <1>7, ScanSteps DEF NextThing
  <2>3. req[r].unmarked \subseteq req[r].left \cap (due \cup overtaken) /\ req[r].unmarked \subseteq Licenses
    BY <2>2 DEF UnmarkedKnown, ScanTask
  <2>4. UnmarkedKnown'
    BY <2>1, <2>3 DEF UnmarkedKnown
  <2> QED BY <2>1, <2>3, <2>4 DEF ExpiredExcused
\* A handler that goes on with what it read.
<1>8. ASSUME NEW r \in Requests, req[r] \in ThingTask,
             Proceed(r) \/ \E step \in {"notify", "set"} : Goto(r, step),
             UNCHANGED <<due, expired, overtaken, deliberate>>
      PROVE  ExpiredOK'
  <2>1. req[r].unmarked \subseteq req[r].left \cap (due \cup overtaken)
    BY <1>8 DEF UnmarkedKnown
  <2>2. \A q \in Requests \ {r} : req'[q] = req[q]
    BY <1>8 DEF Proceed, Goto, Continue, Finish, Doing
  <2>3. \/ req'[r] = Idle
        \/ req'[r].unmarked = req[r].unmarked /\ req'[r].left = req[r].left
    BY <1>8 DEF Proceed, Goto, Continue, Finish, Doing, ThingTask
  <2>4. Idle \notin ScanTask \cup ThingTask
    BY DEF Idle, ScanTask, ThingTask
  <2> QED BY <1>4, <1>8, <2>1, <2>2, <2>3, <2>4
<1>9. ASSUME NEW r \in Requests, CheckKey(r) \/ NotifyAdmins(r) \/ SetKey(r) PROVE ExpiredOK'
  BY <1>8, <1>9, ScanSteps DEF CheckKey, NotifyAdmins, SetKey
<1>10. ASSUME NEW r \in Requests, ClearAlert(r) \/ ScanAbort(r) PROVE ExpiredOK'
  <2>1. /\ req'[r] = Idle /\ \A q \in Requests \ {r} : req'[q] = req[q]
        /\ UNCHANGED <<due, expired, overtaken, deliberate>>
    BY <1>10 DEF ClearAlert, ScanAbort, scans, Finish, Doing
  <2>2. Idle \notin ScanTask \cup ThingTask
    BY DEF Idle, ScanTask, ThingTask
  <2> QED BY <1>4, <2>1, <2>2
<1> QED
  BY <1>1, <1>2, <1>3, <1>5, <1>6, <1>7, <1>9, <1>10 DEF ScansNext

\* Whichever area: in those of other parts nothing is due, read or expired.
ExpiredInv ==
    /\ area \in {"records", "licenses"} => Doing(ScansTask) /\ ExpiredOK
    /\ ExpiredExcused

\* A license that is not due is EXPIRED only because an operator made or left it so, or was
\* renewed while a scan had read it and not yet come to it (ScheduledAlertsWorker,
\* LicensesService.update).
THEOREM ExpiredIsExcused == Spec => []ExpiredExcused
<1>1. Init => ExpiredInv
  <2> SUFFICES ASSUME Init PROVE ExpiredInv
    OBVIOUS
  <2>1. Doing(ScansTask)
    BY IdleInit DEF Init, ScansTask
  <2>2. UnmarkedKnown
    BY DEF Init, HandlersInit, UnmarkedKnown, Idle, ScanTask, ThingTask
  <2> QED BY <2>1, <2>2 DEF Init, ScansInit, ExpiredInv, ExpiredOK, ExpiredExcused
<1>2. ExpiredInv /\ [Next]_vars => ExpiredInv'
  <2> SUFFICES ASSUME ExpiredInv, [Next]_vars PROVE ExpiredInv'
    OBVIOUS
  <2>1. CASE /\ area \in {"records", "licenses"} /\ UNCHANGED area
             /\ \E kind \in {Records, Licenses} : ScansNext(kind)
    BY <2>1, ExpiredStep, ScansDoing DEF ExpiredInv, ExpiredOK
  <2>2. CASE area \notin {"records", "licenses"} /\ UNCHANGED <<area, scans>>
    BY <2>2 DEF ExpiredInv, ExpiredExcused, scans
  <2>3. CASE UNCHANGED vars
    BY <2>3 DEF vars, handlers, scans, ExpiredInv, ExpiredOK, ExpiredExcused, UnmarkedKnown, Doing
  <2> QED BY <2>1, <2>2, <2>3, Parts
<1>3. ExpiredInv => ExpiredExcused
  BY DEF ExpiredInv
<1> QED BY <1>1, <1>2, <1>3, PTL DEF Spec

\* r is about to remind of x, or has and is about to set the key.
Remind(r, x) == (At(r, "notify") \/ At(r, "set")) /\ req[r].thing = x

\* Nothing was amiss with x: one scan reminds, and its key is there or about to be.
SureOK(x) ==
    /\ told[x] # 2
    /\ \A r, q \in Requests : Remind(r, x) /\ Remind(q, x) => r = q
    /\ \A r \in Requests : At(r, "notify") /\ Remind(r, x) => told[x] = 0
    /\ told[x] = 1 => redis[x] # NoValue \/ \E r \in Requests : At(r, "set") /\ Remind(r, x)

TwiceOK ==
    /\ told \in [Things -> 0 .. 2]
    /\ \A x \in Things \ due : told[x] = 0
    /\ \A r \in Requests : At(r, "clear") => req[r].thing \notin due
    /\ \A x \in Things \ unsure : SureOK(x)

\* A step that leaves what x depends on as it was.
LEMMA SureStays ==
    ASSUME NEW x \in Things, SureOK(x), told'[x] = told[x], redis'[x] = redis[x],
           \A r \in Requests : /\ Remind(r, x)' = Remind(r, x)
                               /\ Remind(r, x) => req'[r].pc = req[r].pc
    PROVE  SureOK(x)'
  BY DEF SureOK, Remind, At

\* No scan reminds of x, and nobody was reminded since.
LEMMA SureAnew ==
    ASSUME NEW x \in Things, told'[x] = 0, \A r \in Requests : ~Remind(r, x)'
    PROVE  SureOK(x)'
  BY DEF SureOK

\* A step of a scan keeps what is known of the things with which nothing was amiss.
LEMMA TwiceStep ==
    ASSUME Doing(ScansTask), CacheShape, TwiceOK, NEW kind \in {Records, Licenses}, ScansNext(kind)
    PROVE  TwiceOK'
<1> USE ScansAssumption DEF Things
<1>1. ASSUME NEW x \in kind, FallDue(x) PROVE TwiceOK'
  <2>1. /\ due' = due \cup {x} /\ UNCHANGED <<req, told, unsure, redis>>
        /\ x \in Records => \A r \in Requests : ~Reads(r, x)
    BY <1>1 DEF FallDue, handlers, cache
  <2>2. ASSUME NEW r \in Requests, At(r, "clear") PROVE req[r].thing \notin due'
    <3>1. req[r] \in ClearTask /\ req[r].thing \in Records
      BY <2>2, ScanSteps DEF ClearTask
    <3> QED BY <2>1, <2>2, <3>1 DEF Reads, TwiceOK
  <2>3. \A r \in Requests : At(r, "clear")' = At(r, "clear")
    BY <2>1 DEF At
  <2>4. \A y \in Things : SureOK(y) => SureOK(y)'
    BY <2>1 DEF SureOK, Remind, At
  <2> QED BY <2>1, <2>2, <2>3, <2>4 DEF TwiceOK
\* Nothing is left to be reminded of, or the cooldown is over.
<1>2. ASSUME NEW x \in Things, told' = [told EXCEPT ![x] = 0],
             unsure' = IF Underway(x) THEN unsure ELSE unsure \ {x},
             \A y \in Things, r \in Requests : /\ Remind(r, y)' = Remind(r, y)
                                               /\ Remind(r, y) => req'[r].pc = req[r].pc,
             \A y \in Things \ {x} : redis'[y] = redis[y]
      PROVE  \A y \in Things \ unsure' : SureOK(y)'
  <2> SUFFICES ASSUME NEW y \in Things \ unsure' PROVE SureOK(y)'
    OBVIOUS
  <2>1. CASE y # x
    <3>1. SureOK(y) /\ told'[y] = told[y]
      BY <1>2, <2>1 DEF TwiceOK
    <3> QED BY <1>2, <2>1, <3>1, SureStays
  <2>2. CASE y = x /\ Underway(x)
    <3>1. SureOK(x) /\ told'[x] = 0
      BY <1>2, <2>2 DEF TwiceOK
    <3> QED BY <1>2, <2>2, <3>1 DEF SureOK
  <2>3. CASE y = x /\ ~Underway(x)
    <3>1. told'[x] = 0 /\ \A r \in Requests : ~Remind(r, x)
      BY <1>2, <2>3 DEF TwiceOK, Underway, Remind
    <3> QED BY <1>2, <2>3, <3>1, SureAnew
  <2> QED BY <2>1, <2>2, <2>3
<1>3. ASSUME NEW x \in kind, NEW isDue \in BOOLEAN, NEW isExpired \in BOOLEAN,
             UpdateLicense(x, isDue, isExpired)
      PROVE  TwiceOK'
  <2>1. UNCHANGED <<req, redis>> /\ x \in Licenses
    BY <1>3 DEF UpdateLicense, handlers, cache
  <2>2. CASE isDue
    <3>1. due' = due \cup {x} /\ UNCHANGED <<told, unsure>>
      BY <1>3, <2>2 DEF UpdateLicense
    <3>2. ASSUME NEW r \in Requests, At(r, "clear") PROVE req[r].thing \notin due'
      <4>1. req[r].thing \in Records
        BY <3>2, ScanSteps DEF ClearTask
      <4> QED BY <2>1, <3>1, <3>2, <4>1 DEF TwiceOK
    <3>3. \A r \in Requests : At(r, "clear")' = At(r, "clear")
      BY <2>1 DEF At
    <3>4. \A y \in Things : SureOK(y) => SureOK(y)'
      BY <2>1, <3>1 DEF SureOK, Remind, At
    <3> QED BY <2>1, <3>1, <3>2, <3>3, <3>4 DEF TwiceOK
  <2>3. CASE ~isDue
    <3>1. /\ due' = due \ {x} /\ told' = [told EXCEPT ![x] = 0]
          /\ unsure' = IF Underway(x) THEN unsure ELSE unsure \ {x}
      BY <1>3, <2>3 DEF UpdateLicense, Settled
    <3>2. \A y \in Things \ unsure' : SureOK(y)'
      BY <1>2, <2>1, <3>1 DEF Remind, At
    <3> QED BY <2>1, <3>1, <3>2 DEF TwiceOK, At
  <2> QED BY <2>2, <2>3
<1>4. ASSUME NEW x \in kind, Cooldown(x) PROVE TwiceOK'
  <2>1. /\ UNCHANGED <<req, due>> /\ told' = [told EXCEPT ![x] = 0]
        /\ unsure' = IF Underway(x) THEN unsure ELSE unsure \ {x}
    BY <1>4 DEF Cooldown, handlers
  <2>2. \A y \in Things \ {x} : redis'[y] = redis[y]
    BY <1>4 DEF Cooldown, Expire, ExpireMemory, CacheShape
  <2>3. \A y \in Things \ unsure' : SureOK(y)'
    BY <1>2, <2>1, <2>2 DEF Remind, At
  <2> QED BY <2>1, <2>3 DEF TwiceOK, At
<1>5. ASSUME NEW r \in Requests, NEW p \in Processes, NEW x \in kind, Resolve(r, p, x) PROVE TwiceOK'
  <2> DEFINE task == [pc |-> "clear", process |-> p, thing |-> x]
  <2>1. /\ req'[r] = task /\ \A q \in Requests \ {r} : req'[q] = req[q]
        /\ At(r, "idle") /\ UNCHANGED redis
        /\ due' = due \ {x} /\ told' = [told EXCEPT ![x] = 0]
        /\ unsure' = IF Underway(x) THEN unsure ELSE unsure \ {x}
    BY <1>5 DEF Resolve, Settled, Continue, Doing, cache
  <2>2. \A y \in Things, q \in Requests : /\ Remind(q, y)' = Remind(q, y)
                                          /\ Remind(q, y) => req'[q].pc = req[q].pc
    BY <2>1 DEF Remind, At
  <2>3. \A y \in Things \ unsure' : SureOK(y)'
    BY <1>2, <2>1, <2>2
  <2> QED BY <2>1, <2>3 DEF TwiceOK, At
\* A handler that was not about to remind and is not, with nothing else done.
<1>6. ASSUME NEW r \in Requests, \A q \in Requests \ {r} : req'[q] = req[q],
             req[r].pc \notin {"notify", "set"}, req'[r].pc \notin {"notify", "set", "clear"},
             UNCHANGED <<due, told, redis>>, unsure \subseteq unsure'
      PROVE  TwiceOK'
  <2>1. \A y \in Things, q \in Requests : /\ Remind(q, y)' = Remind(q, y)
                                          /\ Remind(q, y) => req'[q].pc = req[q].pc
    BY <1>6 DEF Remind, At
  <2>2. \A y \in Things \ unsure' : SureOK(y)'
    BY <1>6, <2>1, SureStays DEF TwiceOK
  <2> QED BY <1>6, <2>2 DEF TwiceOK, At
<1>7. ASSUME NEW r \in Requests, NEW p \in Processes, StartScan(r, p, kind) PROVE TwiceOK'
  <2>1. /\ req'[r].pc = "scan" /\ req[r].pc = "idle" /\ \A q \in Requests \ {r} : req'[q] = req[q]
        /\ UNCHANGED <<due, told, unsure, redis>>
    BY <1>7 DEF StartScan, Continue, Doing, At, scans, cache
  <2> QED BY <1>6, <2>1
<1>8. ASSUME NEW r \in Requests, NEW x \in kind, NextThing(r, x) PROVE TwiceOK'
  <2>1. /\ req'[r].pc = "check" /\ req[r].pc = "scan" /\ \A q \in Requests \ {r} : req'[q] = req[q]
        /\ UNCHANGED <<due, told, unsure, redis>>
    BY <1>8 DEF NextThing, Continue, Doing, At, cache
  <2> QED BY <1>6, <2>1
<1>9. \A r \in Requests : Proceed(r) => /\ req'[r].pc \in {"idle", "scan"}
                                        /\ \A q \in Requests \ {r} : req'[q] = req[q]
  BY DEF Proceed, Finish, Continue, Doing, Idle
<1>10. ASSUME NEW r \in Requests, CheckKey(r) PROVE TwiceOK'
  <2>1. PICK k \in {req[r].thing}, v \in Get(req[r].process, req[r].thing) :
           IF v # NoValue THEN Proceed(r) /\ UNCHANGED unsure
           ELSE /\ Goto(r, "notify")
                /\ unsure' = IF redis[k] # NoValue \/ Underway(k) THEN unsure \cup {k} ELSE unsure
    BY <1>10 DEF CheckKey
  <2>2. At(r, "check") /\ req[r] \in ThingTask /\ UNCHANGED <<due, told, redis>>
    BY <1>10, ScanSteps DEF CheckKey, cache
  <2>3. CASE v # NoValue
    BY <1>6, <1>9, <2>1, <2>2, <2>3 DEF At
  <2>4. CASE v = NoValue
    <3>1. /\ req'[r] = [req[r] EXCEPT !.pc = "notify"] /\ \A q \in Requests \ {r} : req'[q] = req[q]
          /\ unsure' = IF redis[k] # NoValue \/ Underway(k) THEN unsure \cup {k} ELSE unsure
      BY <2>1, <2>4 DEF Goto, Continue, Doing
    <3>2. req'[r].pc = "notify" /\ req'[r].thing = k
      BY <2>1, <2>2, <3>1 DEF ThingTask
    <3>3. ASSUME NEW y \in Things \ unsure', y # k PROVE SureOK(y)'
      <4>1. \A q \in Requests : /\ Remind(q, y)' = Remind(q, y)
                                /\ Remind(q, y) => req'[q].pc = req[q].pc
        BY <2>1, <2>2, <3>1, <3>2, <3>3 DEF Remind, At
      <4> QED BY <2>2, <3>1, <3>3, <4>1, SureStays DEF TwiceOK
    <3>4. ASSUME k \in Things \ unsure' PROVE SureOK(k)'
      <4>1. redis[k] = NoValue /\ ~Underway(k) /\ k \in Things \ unsure
        BY <3>1, <3>4
      <4>2. \A q \in Requests : ~Remind(q, k)
        BY <4>1 DEF Underway, Remind
      <4>3. told[k] = 0
        BY <4>1, <4>2 DEF TwiceOK, SureOK
      <4>4. \A q \in Requests \ {r} : ~Remind(q, k)'
        BY <3>1, <4>2 DEF Remind, At
      <4> QED BY <2>2, <4>3, <4>4 DEF SureOK
    <3>5. \A q \in Requests : At(q, "clear")' => req'[q].thing \notin due'
      BY <2>2, <3>1, <3>2 DEF TwiceOK, At
    <3> QED BY <2>2, <3>3, <3>4, <3>5 DEF TwiceOK
  <2> QED BY <2>3, <2>4
<1>11. ASSUME NEW r \in Requests, NotifyAdmins(r) PROVE TwiceOK'
  <2>1. PICK k \in {req[r].thing} :
           told' \in {told} \cup {[told EXCEPT ![c] = IF @ = 2 THEN 2 ELSE @ + 1] : c \in due \cap {k}}
    BY <1>11 DEF NotifyAdmins
  <2>2. At(r, "notify") /\ req[r] \in ThingTask /\ UNCHANGED <<due, unsure, redis>>
    BY <1>11, ScanSteps DEF NotifyAdmins, cache
  <2>3. /\ req'[r] = [req[r] EXCEPT !.pc = "set"] /\ \A q \in Requests \ {r} : req'[q] = req[q]
    BY <1>11 DEF NotifyAdmins, Goto, Continue, Doing
  <2>4. req'[r].pc = "set" /\ req'[r].thing = k /\ k \in Things
    BY <2>1, <2>2, <2>3 DEF ThingTask
  <2>5. \/ told' = told
        \/ k \in due /\ told' = [told EXCEPT ![k] = IF @ = 2 THEN 2 ELSE @ + 1]
    BY <2>1
  <2>6. told' \in [Things -> 0 .. 2] /\ \A x \in Things \ due : told'[x] = 0
    BY <2>5 DEF TwiceOK
  <2>7. ASSUME NEW y \in Things \ unsure, y # k PROVE SureOK(y)'
    <3>1. told'[y] = told[y]
      BY <2>5, <2>7 DEF TwiceOK
    <3>2. \A q \in Requests : /\ Remind(q, y)' = Remind(q, y)
                              /\ Remind(q, y) => req'[q].pc = req[q].pc
      BY <2>1, <2>2, <2>3, <2>4, <2>7 DEF Remind, At
    <3> QED BY <2>2, <2>7, <3>1, <3>2, SureStays DEF TwiceOK
  <2>8. ASSUME k \in Things \ unsure PROVE SureOK(k)'
    <3>1. SureOK(k) /\ Remind(r, k) /\ told[k] = 0
      BY <2>1, <2>2, <2>8 DEF TwiceOK, SureOK, Remind
    <3>2. told'[k] \in {0, 1}
      BY <2>5, <3>1, <2>4 DEF TwiceOK
    <3>3. \A q \in Requests \ {r} : ~Remind(q, k)'
      BY <2>3, <3>1 DEF Remind, At, SureOK
    <3>4. Remind(r, k)' /\ At(r, "set")'
      BY <2>4 DEF Remind, At
    <3> QED BY <3>2, <3>3, <3>4 DEF SureOK, At
  <2>9. \A q \in Requests : At(q, "clear")' => req'[q].thing \notin due'
    BY <2>2, <2>3, <2>4 DEF TwiceOK, At
  <2> QED BY <2>2, <2>6, <2>7, <2>8, <2>9 DEF TwiceOK
<1>12. ASSUME NEW r \in Requests, SetKey(r) PROVE TwiceOK'
  <2> DEFINE k == req[r].thing
  <2>1. At(r, "set") /\ req[r] \in ThingTask /\ UNCHANGED <<due, told>> /\ Proceed(r)
    BY <1>12, ScanSteps DEF SetKey
  <2>2. k \in Things /\ k \in Keys /\ req[r].process \in Processes
    BY <2>1 DEF ThingTask
  <2>3. PICK i \in {k} : Set(req[r].process, i, TRUE) /\ unsure' = unsure \cup {j \in {i} : redis'[j] = NoValue}
    BY <1>12 DEF SetKey
  <2>4. \A y \in Things \ {i} : redis'[y] = redis[y]
    BY <2>2, <2>3 DEF Set, CacheShape
  <2>5. req'[r].pc \in {"idle", "scan"} /\ \A q \in Requests \ {r} : req'[q] = req[q]
    BY <1>9, <2>1
  <2>6. ASSUME NEW y \in Things \ unsure', y # i PROVE SureOK(y)'
    <3>1. \A q \in Requests : /\ Remind(q, y)' = Remind(q, y)
                              /\ Remind(q, y) => req'[q].pc = req[q].pc
      BY <2>3, <2>5, <2>6 DEF Remind, At
    <3> QED BY <2>1, <2>3, <2>4, <2>6, <3>1, SureStays DEF TwiceOK
  <2>7. ASSUME i \in Things \ unsure' PROVE SureOK(i)'
    <3>1. SureOK(i) /\ Remind(r, i) /\ redis'[i] # NoValue
      BY <2>1, <2>3, <2>7 DEF TwiceOK, Remind
    <3>2. \A q \in Requests : ~Remind(q, i)'
      BY <2>5, <3>1 DEF Remind, At, SureOK
    <3> QED BY <2>1, <3>1, <3>2 DEF SureOK
  <2>8. \A q \in Requests : At(q, "clear")' => req'[q].thing \notin due'
    BY <2>1, <2>5 DEF TwiceOK, At
  <2> QED BY <2>1, <2>6, <2>7, <2>8 DEF TwiceOK
<1>13. ASSUME NEW r \in Requests, ClearAlert(r) PROVE TwiceOK'
  <2> DEFINE k == req[r].thing
  <2>1. /\ At(r, "clear") /\ req[r] \in ClearTask /\ UNCHANGED <<due, told, unsure>>
        /\ req'[r] = Idle /\ \A q \in Requests \ {r} : req'[q] = req[q]
    BY <1>13, ScanSteps DEF ClearAlert, scans, Finish, Doing
  <2>2. k \in Things /\ told[k] = 0
    BY <2>1 DEF ClearTask, TwiceOK
  <2>3. \A y \in Things \ {k} : redis'[y] = redis[y]
    BY <1>13 DEF ClearAlert, Del, CacheShape
  <2>4. \A y \in Things, q \in Requests : /\ Remind(q, y)' = Remind(q, y)
                                          /\ Remind(q, y) => req'[q].pc = req[q].pc
    BY <2>1 DEF Remind, At, Idle
  <2>5. ASSUME NEW y \in Things \ unsure PROVE SureOK(y)'
    <3>1. CASE y # k
      BY <2>1, <2>3, <2>4, <3>1, SureStays DEF TwiceOK
    <3>2. CASE told[y] = 0
      BY <2>1, <2>4, <3>2 DEF TwiceOK, SureOK, At
    <3> QED BY <2>2, <3>1, <3>2
  <2> QED BY <2>1, <2>5 DEF TwiceOK, At, Idle
<1>14. ASSUME NEW r \in Requests, ScanAbort(r) PROVE TwiceOK'
  <2>1. /\ UNCHANGED <<due, told, redis>>
        /\ unsure' = IF At(r, "set") THEN unsure \cup {req[r].thing} ELSE unsure
        /\ req'[r] = Idle /\ \A q \in Requests \ {r} : req'[q] = req[q]
    BY <1>14 DEF ScanAbort, cache, Finish, Doing
  <2>2. ASSUME NEW y \in Things \ unsure' PROVE SureOK(y)'
    <3>1. SureOK(y) /\ ~(At(r, "set") /\ Remind(r, y))
      BY <2>1, <2>2 DEF TwiceOK, Remind
    <3>2. \A q \in Requests \ {r} : Remind(q, y)' = Remind(q, y) /\ req'[q].pc = req[q].pc
      BY <2>1 DEF Remind, At
    <3>3. ~Remind(r, y)'
      BY <2>1 DEF Remind, At, Idle
    <3> QED BY <2>1, <3>1, <3>2, <3>3 DEF SureOK, At
  <2> QED BY <2>1, <2>2 DEF TwiceOK, At, Idle
<1> QED
  BY <1>1, <1>3, <1>4, <1>5, <1>7, <1>8, <1>10, <1>11, <1>12, <1>13, <1>14 DEF ScansNext

TwiceInv ==
    /\ area \in {"records", "licenses"} => TwiceOK
    /\ TwiceExcused

\* With those nobody was reminded twice.
LEMMA TwiceIs == TwiceOK => TwiceExcused
  BY DEF TwiceOK, SureOK, TwiceExcused

\* However the hourly and the nightly scan of any number of processes interleave, with
\* connections and processes that fail, a second reminder has one of the named reasons
\* (ScheduledAlertsWorker).
THEOREM TwiceIsExcused == Spec => []TwiceExcused
<1>1. Init => TwiceInv
  <2> SUFFICES ASSUME Init PROVE TwiceOK
    BY TwiceIs DEF TwiceInv
  <2> QED BY DEF Init, HandlersInit, ScansInit, TwiceOK, SureOK, Remind, At, Idle
<1>2. StaleInv /\ TwiceInv /\ [Next]_vars => TwiceInv'
  <2> SUFFICES ASSUME StaleInv, TwiceInv, [Next]_vars PROVE TwiceInv'
    OBVIOUS
  <2>0. (TwiceOK => TwiceExcused)'
    BY TwiceIs, PTL
  <2>1. CASE /\ area \in {"records", "licenses"} /\ UNCHANGED area
             /\ \E kind \in {Records, Licenses} : ScansNext(kind)
    <3>1. Doing(ScansTask) /\ CacheShape /\ TwiceOK
      BY <2>1 DEF StaleInv, TwiceInv
    <3> QED BY <2>0, <2>1, <3>1, TwiceStep DEF TwiceInv
  <2>2. CASE area \notin {"records", "licenses"} /\ UNCHANGED <<area, scans>>
    BY <2>2 DEF TwiceInv, TwiceExcused, scans
  <2>3. CASE UNCHANGED vars
    <3>1. UNCHANGED <<req, redis, due, told, unsure, area>>
      BY <2>3 DEF vars, handlers, cache, scans
    <3> QED BY <3>1 DEF TwiceInv, TwiceOK, TwiceExcused, SureOK, Remind, At
  <2> QED BY <2>1, <2>2, <2>3, Parts
<1>3. TwiceInv => TwiceExcused
  BY DEF TwiceInv
<1> QED BY <1>1, <1>2, <1>3, StaleInvariant, PTL DEF Spec
-----------------------------------------------------------------------------
(* Organizations.                                                          *)

OrgTreeOK == Doing(OrgTask) /\ OrgTreeTypeOK

\* A step of the organizations keeps every parent existing.
LEMMA OrgTreeStep == OrgTreeOK /\ OrgTreeNext => OrgTreeOK'
<1> SUFFICES ASSUME OrgTreeOK, OrgTreeNext PROVE OrgTreeOK'
  OBVIOUS
<1> USE OrgTreeAssumption DEF OrgTreeOK
<1>1. /\ Idle \in OrgTask /\ MoveTask \subseteq OrgTask /\ DeleteOrgTask \subseteq OrgTask
      /\ \A r \in Requests : /\ req[r].pc \in {"read", "climb", "move"} => req[r] \in MoveTask
                             /\ req[r].pc = "delete" => req[r] \in DeleteOrgTask
  BY DEF OrgTask, Doing, Idle, MoveTask, DeleteOrgTask
<1>2. ASSUME NEW o \in Orgs, NEW p \in Orgs \cup {NoOrg}, CreateOrg(o, p) PROVE OrgTreeOK'
  <2>1. UNCHANGED req /\ org' = [org EXCEPT ![o] = [life |-> "up", parent |-> p]]
    BY <1>2 DEF CreateOrg, Instant
  <2>2. \A q \in Orgs : org[q].life = "up" => org'[q].life = "up"
    BY <2>1 DEF OrgTreeTypeOK
  <2>3. p # NoOrg => org'[p].life = "up"
    BY <1>2, <2>2 DEF CreateOrg, Existing
  <2>4. org' \in [Orgs -> OrgRow]
    BY <2>1 DEF OrgTreeTypeOK, OrgRow, Life
  <2>5. ASSUME NEW q \in Orgs, org'[q].parent # NoOrg PROVE org'[org'[q].parent].life = "up"
    <3>1. CASE q = o
      BY <2>1, <2>3, <2>5, <3>1 DEF OrgTreeTypeOK
    <3>2. CASE q # o
      <4>1. org'[q] = org[q] /\ org[q].parent \in Orgs
        BY <2>1, <2>5, <3>2 DEF OrgTreeTypeOK, OrgRow
      <4> QED BY <2>2, <2>5, <4>1 DEF OrgTreeTypeOK
    <3> QED BY <3>1, <3>2
  <2> QED BY <2>1, <2>4, <2>5 DEF Doing, OrgTreeTypeOK
<1>3. ASSUME NEW r \in Requests, NEW task \in OrgTask, Begin(r, task) \/ Continue(r, task), UNCHANGED org
      PROVE  OrgTreeOK'
  BY <1>3, ContinueDoing DEF OrgTreeTypeOK
<1>4. ASSUME NEW r \in Requests, NEW o \in Orgs, NEW p \in Orgs \cup {NoOrg}, StartMove(r, o, p)
      PROVE  OrgTreeOK'
  <2>1. [pc |-> "read", id |-> o, parent |-> p, current |-> NoOrg, visited |-> {}] \in MoveTask
    BY DEF MoveTask
  <2> QED BY <1>1, <1>3, <1>4, <2>1 DEF StartMove
<1>5. ASSUME NEW r \in Requests, NEW o \in Orgs, StartDeleteOrg(r, o) PROVE OrgTreeOK'
  <2>1. [pc |-> "delete", id |-> o] \in DeleteOrgTask
    BY DEF DeleteOrgTask
  <2> QED BY <1>1, <1>3, <1>5, <2>1 DEF StartDeleteOrg
<1>6. ASSUME NEW r \in Requests, FindOrg(r) PROVE OrgTreeOK'
  <2> DEFINE task == [req[r] EXCEPT !.pc = IF req[r].parent = NoOrg THEN "move" ELSE "climb",
                                    !.current = req[r].parent]
  <2>1. req[r] \in MoveTask
    BY <1>1, <1>6 DEF FindOrg, At
  <2>2. task \in MoveTask
    BY <2>1 DEF MoveTask
  <2> QED BY <1>1, <1>3, <1>6, <2>2 DEF FindOrg
<1>7. ASSUME NEW r \in Requests, Climb(r) PROVE OrgTreeOK'
  <2> DEFINE t == req[r]
             stop == [t EXCEPT !.pc = "move", !.current = NoOrg, !.visited = {}]
             up == [t EXCEPT !.current = org[t.current].parent, !.visited = @ \cup {t.current}]
  <2>1. t \in MoveTask
    BY <1>1, <1>7 DEF Climb, At
  <2>2. stop \in MoveTask
    BY <2>1 DEF MoveTask
  <2>3. t.current # NoOrg => up \in MoveTask
    <3>1. t.current # NoOrg => org[t.current].parent \in Orgs \cup {NoOrg} /\ t.current \in Orgs
      BY <2>1 DEF MoveTask, OrgTreeTypeOK, OrgRow
    <3> QED BY <2>1, <3>1 DEF MoveTask
  <2>4. Continue(r, stop) \/ (t.current # NoOrg /\ Continue(r, up))
    BY <1>7 DEF Climb
  <2> QED BY <1>1, <1>3, <1>7, <2>2, <2>3, <2>4 DEF Climb
<1>8. ASSUME NEW r \in Requests, Move(r) PROVE OrgTreeOK'
  <2>1. req[r] \in MoveTask /\ req[r].id \in Orgs /\ req[r].parent \in Orgs \cup {NoOrg}
    BY <1>1, <1>8 DEF Move, At, MoveTask
  <2>2. org' = [org EXCEPT ![req[r].id].parent = req[r].parent]
    BY <1>8 DEF Move
  <2>3. org' \in [Orgs -> OrgRow] /\ \A o \in Orgs : org'[o].life = org[o].life
    BY <2>1, <2>2 DEF OrgTreeTypeOK, OrgRow
  <2>4. \A o \in Orgs : org'[o].parent # NoOrg => org[org'[o].parent].life = "up" /\ org'[o].parent \in Orgs
    BY <1>8, <2>1, <2>2 DEF OrgTreeTypeOK, OrgRow, Move, Existing
  <2> QED BY <1>1, <1>8, <2>3, <2>4, FinishDoing DEF Move, OrgTreeTypeOK
<1>9. ASSUME NEW r \in Requests, DeleteOrg(r) PROVE OrgTreeOK'
  <2>1. req[r] \in DeleteOrgTask /\ req[r].id \in Orgs
    BY <1>1, <1>9 DEF DeleteOrg, At, DeleteOrgTask
  <2>2. org' = [o \in Orgs |-> IF o = req[r].id THEN NoOrgRow
                               ELSE IF org[o].parent = req[r].id
                               THEN [org[o] EXCEPT !.parent = NoOrg] ELSE org[o]]
    BY <1>9 DEF DeleteOrg
  <2>3. org' \in [Orgs -> OrgRow] /\ \A o \in Orgs : o # req[r].id => org'[o].life = org[o].life
    BY <2>2 DEF OrgTreeTypeOK, OrgRow, NoOrgRow, Life
  <2>4. \A o \in Orgs : org'[o].parent # NoOrg =>
           /\ org'[o].parent \in Orgs \ {req[r].id}
           /\ org[org'[o].parent].life = "up"
    BY <2>2 DEF OrgTreeTypeOK, OrgRow, NoOrgRow
  <2> QED BY <1>1, <1>9, <2>3, <2>4, FinishDoing DEF DeleteOrg, OrgTreeTypeOK
<1>10. ASSUME NEW r \in Requests, OrgAbort(r) PROVE OrgTreeOK'
  BY <1>1, <1>10, FinishDoing DEF OrgAbort, OrgTreeTypeOK
<1> QED
  BY <1>2, <1>4, <1>5, <1>6, <1>7, <1>8, <1>9, <1>10 DEF OrgTreeNext
-----------------------------------------------------------------------------
(* Roles.                                                                  *)

\* What a request that ran alone so far knows of the roles is still so.
RoleKnown(r) ==
    /\ \A q \in Requests \ {r} : At(q, "idle")
    /\ At(r, "create") /\ req[r].source # NoRole =>
          req[r].source \in LiveRoles /\ permission[req[r].source] = req[r].asked
    /\ At(r, "grant") =>
          /\ permission[req[r].id] = {}
          /\ req[r].source # NoRole => /\ req[r].source # req[r].id
                                       /\ permission[req[r].source] = req[r].asked

RolesOK ==
    /\ Doing(RoleTask)
    /\ alone = [r \in Requests |-> alone[r]]
    /\ RolesTypeOK
    /\ \A r \in Requests : At(r, "rename") \/ At(r, "revoke") => req[r].source = NoRole
    /\ \A r \in Requests : alone[r] => RoleKnown(r)

\* A step of the roles keeps what requests that ran alone know.
LEMMA RolesStep == RolesOK /\ RolesNext => RolesOK'
<1> SUFFICES ASSUME RolesOK, RolesNext PROVE RolesOK'
  OBVIOUS
<1> USE RolesAssumption
<1>1. /\ Idle \in RoleTask /\ CreateTask \cup SaveTask \cup RemoveTask \subseteq RoleTask
      /\ \A r \in Requests : /\ At(r, "create") => req[r] \in CreateTask
                             /\ At(r, "rename") \/ At(r, "revoke") \/ At(r, "grant") => req[r] \in SaveTask
                             /\ At(r, "strip") \/ At(r, "delete") => req[r] \in RemoveTask
  BY DEF RoleTask, Doing, Idle, CreateTask, SaveTask, RemoveTask, RolesOK, At
\* A handler begins: it alone can be alone.
<1>2. ASSUME NEW r \in Requests, NEW task \in RoleTask, Begin(r, task), UNCHANGED roles,
             task.pc \in {"rename", "revoke"} => task.source = NoRole,
             task.pc # "grant",
             task.pc = "create" /\ task.source # NoRole =>
                task.source \in LiveRoles /\ permission[task.source] = task.asked
      PROVE  RolesOK'
  <2>1. /\ Doing(RoleTask)' /\ req'[r] = task /\ \A q \in Requests \ {r} : req'[q] = req[q]
    BY <1>2, ContinueDoing DEF RolesOK
  <2>2. alone' = [q \in Requests |-> q = r /\ \A p \in Requests \ {r} : At(p, "idle")]
    BY <1>2 DEF Begin
  <2>3. RolesTypeOK' /\ LiveRoles' = LiveRoles
    BY <1>2 DEF RolesOK, RolesTypeOK, LiveRoles, roles
  <2>4. \A q \in Requests : alone'[q] => q = r /\ RoleKnown(r)'
    BY <1>2, <2>1, <2>2, <2>3 DEF RoleKnown, At, roles
  <2> QED BY <1>2, <2>1, <2>2, <2>3, <2>4 DEF RolesOK, At
\* A handler goes on or ends; the others were idle if it was alone.
<1>3. ASSUME NEW r \in Requests, ~At(r, "idle"), NEW task \in RoleTask, RolesTypeOK',
             Continue(r, task) \/ (Finish(r) /\ task = Idle),
             task.pc \in {"rename", "revoke"} => task.source = NoRole,
             alone[r] => RoleKnown(r)'
      PROVE  RolesOK'
  <2>1. /\ Doing(RoleTask)' /\ req'[r] = task /\ \A q \in Requests \ {r} : req'[q] = req[q]
    BY <1>1, <1>3, ContinueDoing, FinishDoing DEF RolesOK
  <2>2. alone' = [q \in Requests |-> alone'[q]] /\ \A q \in Requests : alone'[q] => alone[q]
    BY <1>3 DEF Continue, Finish, RolesOK
  <2>3. \A q \in Requests \ {r} : ~alone[q]
    BY <1>3 DEF RolesOK, RoleKnown
  <2> QED BY <1>3, <2>1, <2>2, <2>3 DEF RolesOK, At
<1>4. ASSUME NEW r \in Requests, RoleAbort(r) PROVE RolesOK'
  <2>1. Finish(r) /\ ~At(r, "idle") /\ UNCHANGED roles
    BY <1>4 DEF RoleAbort
  <2>2. RolesTypeOK'
    BY <2>1 DEF RolesOK, RolesTypeOK, LiveRoles, roles
  <2>3. alone[r] => RoleKnown(r)'
    BY <2>1 DEF RolesOK, RoleKnown, Finish, Doing, At, Idle
  <2> QED BY <1>1, <1>3, <2>1, <2>2, <2>3 DEF Idle
<1>5. ASSUME NEW r \in Requests, NEW ps \in SUBSET Permissions, StartCreateRole(r, ps) PROVE RolesOK'
  <2>1. [pc |-> "create", asked |-> ps, source |-> NoRole] \in RoleTask
    BY <1>1 DEF CreateTask
  <2> QED BY <1>2, <1>5, <2>1 DEF StartCreateRole
<1>6. ASSUME NEW r \in Requests, NEW k \in Roles, StartClone(r, k) PROVE RolesOK'
  <2>1. [pc |-> "create", asked |-> permission[k], source |-> k] \in RoleTask
    BY <1>1 DEF CreateTask, RolesOK, RolesTypeOK
  <2> QED BY <1>2, <1>6, <2>1 DEF StartClone
<1>7. ASSUME NEW r \in Requests, NEW k \in Roles, NEW ps \in SUBSET Permissions,
             NEW step \in {"rename", "revoke"}, StartSave(r, k, ps, step)
      PROVE  RolesOK'
  <2>1. [pc |-> step, id |-> k, asked |-> ps, source |-> NoRole] \in RoleTask
    BY <1>1 DEF SaveTask
  <2> QED BY <1>2, <1>7, <2>1 DEF StartSave
<1>8. ASSUME NEW r \in Requests, NEW k \in Roles, StartRemoveRole(r, k) PROVE RolesOK'
  <2>1. [pc |-> "strip", id |-> k] \in RoleTask
    BY <1>1 DEF RemoveTask
  <2> QED BY <1>2, <1>8, <2>1 DEF StartRemoveRole
<1>9. ASSUME NEW r \in Requests, NEW k \in Roles, CreateRole(r, k) PROVE RolesOK'
  <2> DEFINE task == [pc |-> "grant", id |-> k, asked |-> req[r].asked, source |-> req[r].source]
  <2>1. req[r] \in CreateTask /\ At(r, "create") /\ ~At(r, "idle")
    BY <1>1, <1>9 DEF CreateRole, At
  <2>2. task \in RoleTask
    BY <1>1, <2>1 DEF CreateTask, SaveTask
  <2>3. /\ role' = [role EXCEPT ![k] = "up"] /\ UNCHANGED <<permission, roleOf>> /\ k \notin LiveRoles
        /\ Finish(r) \/ Continue(r, task)
    BY <1>9 DEF CreateRole
  <2>4. LiveRoles' = LiveRoles \cup {k}
    BY <2>3 DEF LiveRoles, RolesOK, RolesTypeOK
  <2>5. RolesTypeOK'
    BY <2>3, <2>4 DEF RolesOK, RolesTypeOK, Life
  <2>6. permission[k] = {}
    BY <2>3 DEF RolesOK, RolesTypeOK
  <2>7. ASSUME alone[r], Continue(r, task) PROVE RoleKnown(r)'
    <3>1. req'[r] = task /\ \A q \in Requests \ {r} : At(q, "idle")'
      BY <2>7 DEF RolesOK, RoleKnown, Continue, Doing, At
    <3>2. task.source # NoRole => task.source \in LiveRoles /\ permission[task.source] = task.asked
      BY <2>1, <2>7 DEF RolesOK, RoleKnown
    <3> QED BY <2>3, <2>6, <3>1, <3>2 DEF RoleKnown, At
  <2>8. ASSUME alone[r], Finish(r) PROVE RoleKnown(r)'
    BY <2>8 DEF RolesOK, RoleKnown, Finish, Doing, At, Idle
  <2> QED BY <1>1, <1>3, <2>1, <2>2, <2>3, <2>5, <2>7, <2>8 DEF Idle
<1>10. ASSUME NEW r \in Requests, Rename(r) PROVE RolesOK'
  <2> DEFINE task == [req[r] EXCEPT !.pc = "revoke"]
  <2>1. req[r] \in SaveTask /\ req[r].source = NoRole /\ ~At(r, "idle")
    BY <1>1, <1>10 DEF Rename, At, RolesOK
  <2>2. task \in RoleTask /\ task.pc = "revoke" /\ task.source = NoRole
    BY <1>1, <2>1 DEF SaveTask
  <2>3. Continue(r, task) /\ RolesTypeOK'
    BY <1>10 DEF Rename, Goto, RolesOK, RolesTypeOK, LiveRoles, roles
  <2>4. req'[r] = task /\ \A q \in Requests \ {r} : req'[q] = req[q]
    BY <2>2, <2>3, ContinueDoing DEF RolesOK
  <2>5. alone[r] => RoleKnown(r)'
    BY <2>2, <2>4 DEF RolesOK, RoleKnown, At
  <2> QED BY <1>3, <2>1, <2>2, <2>3, <2>5
<1>11. ASSUME NEW r \in Requests, Revoke(r) PROVE RolesOK'
  <2> DEFINE task == [req[r] EXCEPT !.pc = "grant"]
  <2>1. req[r] \in SaveTask /\ req[r].source = NoRole /\ ~At(r, "idle")
    BY <1>1, <1>11 DEF Revoke, At, RolesOK
  <2>2. task \in RoleTask /\ task.pc = "grant" /\ task.id = req[r].id /\ task.source = NoRole
    BY <1>1, <2>1 DEF SaveTask
  <2>3. /\ Finish(r) \/ Continue(r, task)
        /\ permission' = [permission EXCEPT ![req[r].id] = {}] /\ UNCHANGED <<role, roleOf>>
    BY <1>11 DEF Revoke, Goto
  <2>4. RolesTypeOK' /\ permission'[req[r].id] = {}
    BY <2>1, <2>3 DEF RolesOK, RolesTypeOK, LiveRoles, SaveTask
  <2>5. ASSUME alone[r], Continue(r, task) PROVE RoleKnown(r)'
    <3>1. req'[r] = task /\ \A q \in Requests \ {r} : req'[q] = req[q]
      BY <2>2, <2>5, ContinueDoing DEF RolesOK
    <3> QED BY <2>2, <2>4, <2>5, <3>1 DEF RolesOK, RoleKnown, At
  <2>6. ASSUME alone[r], Finish(r) PROVE RoleKnown(r)'
    BY <2>6 DEF RolesOK, RoleKnown, Finish, Doing, At, Idle
  <2> QED BY <1>1, <1>3, <2>1, <2>2, <2>3, <2>4, <2>5, <2>6 DEF Idle
\* A handler that ends after it wrote leaves the types as they are.
<1>12. ASSUME NEW r \in Requests, ~At(r, "idle"), Finish(r), RolesTypeOK' PROVE RolesOK'
  <2>1. alone[r] => RoleKnown(r)'
    BY <1>12 DEF RolesOK, RoleKnown, Finish, Doing, At, Idle
  <2> QED BY <1>1, <1>3, <1>12, <2>1 DEF Idle
<1>13. ASSUME NEW r \in Requests, Grant(r) PROVE RolesOK'
  <2>1. req[r] \in SaveTask /\ ~At(r, "idle")
    BY <1>1, <1>13 DEF Grant, At
  <2>2. RolesTypeOK'
    BY <1>13, <2>1 DEF Grant, RolesOK, RolesTypeOK, LiveRoles, SaveTask
  <2> QED BY <1>12, <1>13, <2>1, <2>2 DEF Grant
<1>14. ASSUME NEW r \in Requests, Strip(r) PROVE RolesOK'
  <2> DEFINE task == [req[r] EXCEPT !.pc = "delete"]
  <2>1. req[r] \in RemoveTask /\ ~At(r, "idle")
    BY <1>1, <1>14 DEF Strip, At
  <2>2. task \in RoleTask /\ task.pc = "delete"
    BY <1>1, <2>1 DEF RemoveTask
  <2>3. /\ Continue(r, task)
        /\ permission' = [permission EXCEPT ![req[r].id] = {}] /\ UNCHANGED <<role, roleOf>>
    BY <1>14 DEF Strip, Goto
  <2>4. RolesTypeOK'
    BY <2>1, <2>3 DEF RolesOK, RolesTypeOK, LiveRoles, RemoveTask
  <2>5. req'[r] = task /\ \A q \in Requests \ {r} : req'[q] = req[q]
    BY <2>2, <2>3, ContinueDoing DEF RolesOK
  <2>6. alone[r] => RoleKnown(r)'
    BY <2>2, <2>5 DEF RolesOK, RoleKnown, At
  <2> QED BY <1>3, <2>1, <2>2, <2>3, <2>4, <2>6
<1>15. ASSUME NEW r \in Requests, DeleteRole(r) PROVE RolesOK'
  <2>1. req[r] \in RemoveTask /\ ~At(r, "idle") /\ req[r].id \in LiveRoles
    BY <1>1, <1>15 DEF DeleteRole, At
  <2>2. role' = [role EXCEPT ![req[r].id] = "none"] /\ LiveRoles' = LiveRoles \ {req[r].id}
    BY <1>15 DEF DeleteRole, LiveRoles, RolesOK, RolesTypeOK
  <2>3. RolesTypeOK'
    BY <1>15, <2>1, <2>2 DEF DeleteRole, RolesOK, RolesTypeOK, Life
  <2> QED BY <1>12, <1>15, <2>1, <2>3 DEF DeleteRole
<1>16. ASSUME NEW u \in Users, NEW k \in Roles \cup {NoRole}, AssignRole(u, k) PROVE RolesOK'
  <2>1. RolesTypeOK'
    BY <1>16 DEF AssignRole, RolesOK, RolesTypeOK, LiveRoles
  <2>2. UNCHANGED req /\ alone' = [r \in Requests |-> FALSE]
    BY <1>16 DEF AssignRole, Instant
  <2> QED BY <2>1, <2>2 DEF RolesOK, Doing, At
<1> QED
  BY <1>4, <1>5, <1>6, <1>7, <1>8, <1>9, <1>10, <1>11, <1>13, <1>14, <1>15, <1>16 DEF RolesNext

\* A save that ends, alone all along, has left what it was asked for.
LEMMA RoleExact ==
    ASSUME RolesOK, NEW r \in Requests, At(r, "revoke") \/ At(r, "grant"), alone[r],
           Revoke(r) \/ Grant(r), req'[r] = Idle
    PROVE  /\ permission'[req[r].id] = req[r].asked
           /\ req[r].source # NoRole => permission'[req[r].id] = permission'[req[r].source]
<1>1. req[r] \in SaveTask /\ RoleKnown(r) /\ permission \in [Roles -> SUBSET Permissions]
  BY DEF RolesOK, RolesTypeOK, Doing, RoleTask, Idle, CreateTask, RemoveTask, At
<1>2. CASE Revoke(r)
  <2>1. req[r].asked = {}
    <3> SUFFICES ASSUME req[r].asked # {} PROVE FALSE
      OBVIOUS
    <3>1. req' = [req EXCEPT ![r] = [req[r] EXCEPT !.pc = "grant"]]
      BY <1>2 DEF Revoke, Goto, Continue
    <3>2. req'[r].pc = "grant"
      BY <1>1, <3>1 DEF RolesOK, Doing, SaveTask
    <3> QED BY <3>2 DEF Idle
  <2>2. req[r].source = NoRole /\ permission'[req[r].id] = {}
    BY <1>1, <1>2 DEF RolesOK, Revoke, SaveTask
  <2> QED BY <2>1, <2>2
<1>3. CASE Grant(r)
  <2>1. permission' = [permission EXCEPT ![req[r].id] = @ \cup req[r].asked]
    BY <1>3 DEF Grant
  <2>2. permission[req[r].id] = {}
    BY <1>1, <1>3 DEF Grant, RoleKnown
  <2>3. permission'[req[r].id] = req[r].asked
    BY <1>1, <2>1, <2>2 DEF SaveTask
  <2>4. ASSUME req[r].source # NoRole PROVE permission'[req[r].source] = req[r].asked
    BY <1>1, <1>3, <2>1, <2>4 DEF Grant, RoleKnown, SaveTask
  <2> QED BY <2>3, <2>4
<1> QED BY <1>2, <1>3
-----------------------------------------------------------------------------
(* The inbox.                                                              *)

\* The badge when all events have come, unless there are none: that of the last.
Final ==
    IF wire = <<>> THEN badge = Cardinality(unread)
    ELSE \/ wire[Len(wire)] = [type |-> "count", unreadCount |-> Cardinality(unread)]
         \/ unread = {} /\ wire[Len(wire)] = [type |-> "cleared"]

\* What an operation that ran alone so far is about to say is still so.
CountKnown(r) ==
    /\ \A q \in Requests \ {r} : At(q, "idle")
    /\ At(r, "push") => req[r].unreadCount = Cardinality(unread)
    /\ At(r, "cleared") => unread = {}

InboxOK ==
    /\ Doing(InboxTask)
    /\ alone \in [Requests -> BOOLEAN]
    /\ InboxTypeOK
    /\ \A r \in Requests : alone[r] => CountKnown(r)
    /\ settled => Final /\ \A r \in Requests : At(r, "idle")

\* There are not more of the notifications than were created.
LEMMA CountOf ==
    ASSUME InboxTypeOK, NEW S \in SUBSET notes
    PROVE  Cardinality(S) \in Counts
<1>1. created \in 0 .. MaxNotes /\ S \subseteq 1 .. created
  BY DEF InboxTypeOK, Counts
<1>2. IsFiniteSet(1 .. created) /\ Cardinality(1 .. created) = created
  BY <1>1, FS_Interval DEF Counts
<1>3. IsFiniteSet(S) /\ Cardinality(S) <= created /\ Cardinality(S) \in Nat
  BY <1>1, <1>2, FS_Subset, FS_CardinalityType
<1> QED BY <1>1, <1>3, InboxAssumption DEF Counts

\* Which task a handler at a step has.
LEMMA InboxSteps ==
    ASSUME Doing(InboxTask), NEW r \in Requests
    PROVE  /\ At(r, "count") \/ At(r, "oldest") => req[r] \in PruneTask
           /\ At(r, "prune") => req[r] \in VictimsTask
           /\ At(r, "delete") => req[r] \in NoteTask
           /\ At(r, "cleared") => req[r] \in ClearedTask
           /\ At(r, "push") => req[r] \in PushTask
           /\ At(r, "idle") => req[r] = Idle
  BY DEF Doing, InboxTask, Idle, PruneTask, VictimsTask, NoteTask, StepTask,
     ClearedTask, PushTask, At

\* A step of the inbox keeps what is known of the counts.
LEMMA InboxStep == InboxOK /\ InboxNext => InboxOK'
<1> SUFFICES ASSUME InboxOK, InboxNext PROVE InboxOK'
  OBVIOUS
<1> USE InboxAssumption DEF tab
<1>1. /\ Idle \in InboxTask
      /\ PruneTask \cup VictimsTask \cup NoteTask \cup StepTask \cup ClearedTask \cup PushTask
            \subseteq InboxTask
      /\ \A everybody \in BOOLEAN : [pc |-> "cleared", everybody |-> everybody] \in ClearedTask
      /\ [pc |-> "unread"] \in StepTask /\ [pc |-> "insert"] \in StepTask
      /\ \A cron \in BOOLEAN : [pc |-> "count", cron |-> cron, excess |-> 0] \in PruneTask
      /\ \A n \in Counts : [pc |-> "push", unreadCount |-> n] \in PushTask
      /\ 0 \in Counts
      /\ \A type \in {"new", "read", "cleared"} : [type |-> type] \in Event
      /\ \A n \in Counts : [type |-> "count", unreadCount |-> n] \in Event
  BY DEF InboxTask, Idle, PruneTask, StepTask, ClearedTask, PushTask, Counts, Event
\* An operation begins.
<1>2. ASSUME NEW r \in Requests, NEW task \in InboxTask, Begin(r, task), InboxTypeOK', settled' = FALSE,
             task.pc = "push" => task.unreadCount = Cardinality(unread'),
             task.pc = "cleared" => unread' = {}
      PROVE  InboxOK'
  <2>1. /\ Doing(InboxTask)' /\ req'[r] = task /\ \A q \in Requests \ {r} : req'[q] = req[q]
    BY <1>2, ContinueDoing DEF InboxOK
  <2>2. alone' = [q \in Requests |-> q = r /\ \A p \in Requests \ {r} : At(p, "idle")]
    BY <1>2 DEF Begin
  <2>3. \A q \in Requests : alone'[q] => CountKnown(q)'
    BY <1>2, <2>1, <2>2 DEF CountKnown, At
  <2> QED BY <1>2, <2>1, <2>2, <2>3 DEF InboxOK
\* One goes on, or ends.
<1>3. ASSUME NEW r \in Requests, ~At(r, "idle"), NEW task \in InboxTask, InboxTypeOK', settled' = settled,
             Continue(r, task) \/ (Finish(r) /\ task = Idle),
             alone[r] /\ task.pc = "push" => task.unreadCount = Cardinality(unread'),
             alone[r] /\ task.pc = "cleared" => unread' = {}
      PROVE  InboxOK'
  <2>1. /\ Doing(InboxTask)' /\ req'[r] = task /\ \A q \in Requests \ {r} : req'[q] = req[q]
    BY <1>1, <1>3, ContinueDoing, FinishDoing DEF InboxOK
  <2>2. alone' \in [Requests -> BOOLEAN] /\ \A q \in Requests : alone'[q] => alone[q]
    BY <1>3 DEF Continue, Finish, InboxOK
  <2>3. \A q \in Requests \ {r} : ~alone[q]
    BY <1>3 DEF InboxOK, CountKnown
  <2>4. alone[r] => CountKnown(r)'
    BY <1>3, <2>1 DEF InboxOK, CountKnown, At
  <2>5. ~settled
    BY <1>3 DEF InboxOK
  <2> QED BY <1>3, <2>1, <2>2, <2>3, <2>4, <2>5 DEF InboxOK
<1>4. ASSUME UNCHANGED <<created, notes, unread, wire, tab>>, settled' \in BOOLEAN PROVE InboxTypeOK'
  BY <1>4 DEF InboxOK, InboxTypeOK
<1>5. ASSUME NEW r \in Requests, NEW task \in InboxTask, task.pc \notin {"cleared", "push"},
             StartOp(r, task)
      PROVE  InboxOK'
  BY <1>2, <1>4, <1>5 DEF StartOp
<1>6. ASSUME NEW r \in Requests, InboxAbort(r) PROVE InboxOK'
  <2>1. InboxTypeOK' /\ UNCHANGED settled /\ ~At(r, "idle") /\ Finish(r)
    BY <1>4, <1>6 DEF InboxAbort, inbox, InboxOK, InboxTypeOK
  <2> QED BY <1>1, <1>3, <2>1 DEF Idle
<1>7. ASSUME NEW r \in Requests, CountUnread(r) PROVE InboxOK'
  <2> DEFINE task == [pc |-> "push", unreadCount |-> Cardinality(unread)]
  <2>1. task \in InboxTask /\ InboxTypeOK' /\ UNCHANGED <<settled, unread>>
    BY <1>1, <1>4, <1>7, CountOf DEF CountUnread, inbox, InboxOK, InboxTypeOK
  <2>2. ~At(r, "idle") /\ Continue(r, task)
    BY <1>7 DEF CountUnread, At
  <2> QED BY <1>3, <2>1, <2>2
<1>8. ASSUME NEW event \in Event, Send(event)
      PROVE  wire' \in Seq(Event) /\ wire' # <<>> /\ wire'[Len(wire')] = event
  <2>1. wire \in Seq(Event)
    BY DEF InboxOK, InboxTypeOK
  <2> QED BY <1>8, <2>1 DEF Send
<1>9. ASSUME NEW r \in Requests, PushCount(r) PROVE InboxOK'
  <2> DEFINE event == [type |-> "count", unreadCount |-> req[r].unreadCount]
  <2>1. At(r, "push") /\ ~At(r, "idle") /\ req[r] \in PushTask /\ event \in Event
    BY <1>1, <1>9, InboxSteps DEF PushCount, InboxOK, At, PushTask
  <2>2. /\ wire' \in Seq(Event) /\ wire' # <<>> /\ wire'[Len(wire')] = event
        /\ settled' = alone[r] /\ Finish(r) /\ UNCHANGED <<created, notes, unread, tab>>
    BY <1>8, <1>9, <2>1 DEF PushCount
  <2>3. /\ Doing(InboxTask)' /\ req'[r] = Idle /\ \A q \in Requests \ {r} : req'[q] = req[q]
    BY <1>1, <2>2, FinishDoing DEF InboxOK
  <2>4. \A q \in Requests : ~alone'[q]
    BY <2>1, <2>2 DEF InboxOK, CountKnown, Finish
  <2>5. ASSUME alone[r] PROVE Final' /\ \A q \in Requests : At(q, "idle")'
    BY <2>1, <2>2, <2>3, <2>5 DEF InboxOK, CountKnown, Final, At, Idle
  <2>6. alone' \in [Requests -> BOOLEAN]
    BY <2>2 DEF Finish, InboxOK
  <2> QED BY <2>2, <2>3, <2>4, <2>5, <2>6 DEF InboxOK, InboxTypeOK
\* What follows the pruning: nothing else is written.
<1>10. ASSUME NEW r \in Requests, req[r] \in PruneTask \cup VictimsTask, ~At(r, "idle"), AfterPrune(r),
              UNCHANGED <<created, tab, settled>>, notes' \subseteq notes, unread' \subseteq notes',
              unread' \subseteq unread
       PROVE  InboxOK'
  <2>1. CASE Finish(r) /\ UNCHANGED wire
    <3>1. InboxTypeOK'
      BY <1>10, <2>1 DEF InboxOK, InboxTypeOK
    <3> QED BY <1>1, <1>3, <1>10, <2>1, <3>1 DEF Idle
  <2>2. CASE Send([type |-> "new"]) /\ Continue(r, [pc |-> "unread"])
    <3>1. InboxTypeOK'
      BY <1>1, <1>8, <1>10, <2>2 DEF InboxOK, InboxTypeOK
    <3> QED BY <1>1, <1>3, <1>10, <2>2, <3>1
  <2> QED BY <1>10, <2>1, <2>2 DEF AfterPrune
<1>11. ASSUME NEW r \in Requests, InsertNote(r) PROVE InboxOK'
  <2>1. created' \in Counts /\ notes' \subseteq 1 .. created' /\ unread' \subseteq notes'
    BY <1>11 DEF InsertNote, InboxOK, InboxTypeOK, Counts
  <2>2. ~At(r, "idle") /\ UNCHANGED <<wire, superAdmin, pages, badge, settled>>
    BY <1>11 DEF InsertNote, At
  <2>3. InboxTypeOK'
    BY <2>1, <2>2 DEF InboxOK, InboxTypeOK
  <2> QED BY <1>1, <1>3, <1>11, <2>2, <2>3 DEF InsertNote
<1>12. ASSUME NEW r \in Requests, CountNotes(r) PROVE InboxOK'
  <2> DEFINE excess == Cardinality(notes) - Cap
             task == [req[r] EXCEPT !.pc = "oldest", !.excess = excess]
  <2>1. At(r, "count") /\ ~At(r, "idle") /\ req[r] \in PruneTask
    BY <1>12, InboxSteps DEF CountNotes, InboxOK, At
  <2>2. CASE AfterPrune(r)
    BY <1>10, <1>12, <2>1, <2>2 DEF CountNotes, InboxOK, InboxTypeOK
  <2>3. CASE ~(excess <= 0) /\ Continue(r, task) /\ UNCHANGED wire
    <3>1. Cardinality(notes) \in Counts
      BY CountOf DEF InboxOK
    <3>2. excess \in Counts
      BY <2>3, <3>1 DEF Counts
    <3>3. task \in PruneTask /\ task.pc = "oldest"
      BY <2>1, <3>2 DEF PruneTask
    <3>4. InboxTypeOK'
      BY <1>4, <1>12, <2>3 DEF CountNotes, InboxOK, InboxTypeOK
    <3> QED BY <1>1, <1>3, <1>12, <2>1, <2>3, <3>3, <3>4 DEF CountNotes
  <2> QED BY <1>12, <2>2, <2>3 DEF CountNotes
<1>13. ASSUME NEW r \in Requests, FindOldest(r) PROVE InboxOK'
  <2> DEFINE task == [pc |-> "prune", cron |-> req[r].cron, victims |-> Oldest(req[r].excess)]
  <2>1. At(r, "oldest") /\ ~At(r, "idle") /\ req[r] \in PruneTask
    BY <1>13, InboxSteps DEF FindOldest, InboxOK, At
  <2>2. Oldest(req[r].excess) \subseteq Notes
    <3>1. notes \subseteq Notes
      BY DEF InboxOK, InboxTypeOK, Notes, Counts
    <3> QED BY <3>1 DEF Oldest
  <2>3. task \in VictimsTask
    BY <2>1, <2>2 DEF VictimsTask, PruneTask
  <2>4. InboxTypeOK' /\ UNCHANGED settled /\ Continue(r, task)
    BY <1>4, <1>13 DEF FindOldest, inbox, InboxOK, InboxTypeOK
  <2> QED BY <1>1, <1>3, <2>1, <2>3, <2>4
<1>14. ASSUME NEW r \in Requests, Prune(r) PROVE InboxOK'
  <2>1. ~At(r, "idle") /\ req[r] \in VictimsTask
    BY <1>14, InboxSteps DEF Prune, InboxOK, At
  <2>2. notes' \subseteq notes /\ unread' \subseteq notes' /\ unread' \subseteq unread
    BY <1>14 DEF Prune, InboxOK, InboxTypeOK
  <2> QED BY <1>10, <1>14, <2>1, <2>2 DEF Prune
<1>15. ASSUME NEW r \in Requests, PruneFails(r) PROVE InboxOK'
  <2>1. ~At(r, "idle") /\ req[r] \in PruneTask \cup VictimsTask
    BY <1>15, InboxSteps DEF PruneFails, InboxOK, At
  <2>2. notes' \subseteq notes /\ unread' \subseteq notes' /\ unread' \subseteq unread
    BY <1>15 DEF PruneFails, InboxOK, InboxTypeOK
  <2> QED BY <1>10, <1>15, <2>1, <2>2 DEF PruneFails
<1>16. ASSUME NEW r \in Requests, NEW i \in notes, MarkAsRead(r, i) PROVE InboxOK'
  <2>1. InboxTypeOK'
    BY <1>1, <1>8, <1>16 DEF MarkAsRead, InboxOK, InboxTypeOK
  <2> QED BY <1>1, <1>2, <1>16, <2>1 DEF MarkAsRead
\* What an operation writes all at once leaves none unread.
<1>17. Cardinality({}) = 0
  BY FS_EmptySet
<1>18. ASSUME NEW r \in Requests, MarkAllAsRead(r) PROVE InboxOK'
  <2>1. InboxTypeOK'
    BY <1>18 DEF MarkAllAsRead, InboxOK, InboxTypeOK
  <2> QED BY <1>1, <1>2, <1>17, <1>18, <2>1 DEF MarkAllAsRead
<1>19. ASSUME NEW r \in Requests, NEW everybody \in BOOLEAN, ClearAll(r, everybody) PROVE InboxOK'
  <2> DEFINE task == [pc |-> "cleared", everybody |-> everybody]
  <2>1. InboxTypeOK' /\ task \in InboxTask
    BY <1>1, <1>19 DEF ClearAll, InboxOK, InboxTypeOK
  <2> QED BY <1>2, <1>19, <2>1 DEF ClearAll
<1>20. ASSUME NEW r \in Requests, DeleteNote(r) PROVE InboxOK'
  <2>1. InboxTypeOK' /\ ~At(r, "idle")
    BY <1>20 DEF DeleteNote, InboxOK, InboxTypeOK, At
  <2> QED BY <1>1, <1>3, <1>20, <2>1 DEF DeleteNote
<1>21. ASSUME Deliver PROVE InboxOK'
  <2>1. /\ wire \in Seq(Event) /\ wire # <<>> /\ badge' = Shown(wire[1]) /\ wire' = Tail(wire)
        /\ UNCHANGED <<req, alone, created, notes, unread, superAdmin, pages, settled>> /\ badge \in Nat
    BY <1>21 DEF Deliver, handlers, InboxOK, InboxTypeOK
  <2>2. Len(wire) \in Nat \ {0} /\ wire[1] \in Event /\ wire' \in Seq(Event) /\ Len(wire') = Len(wire) - 1
    BY <2>1
  <2>3. badge' \in Nat
    <3>1. wire[1].type = "count" => wire[1].unreadCount \in Counts
      BY <2>2 DEF Event
    <3>2. wire[1].type \in {"new", "read", "cleared", "count"}
      BY <2>2 DEF Event
    <3> QED BY <2>1, <3>1, <3>2 DEF Shown, Counts
  <2>4. InboxTypeOK'
    BY <2>1, <2>2, <2>3 DEF InboxOK, InboxTypeOK
  <2>5. ASSUME settled PROVE Final'
    <3>1. \/ wire[Len(wire)] = [type |-> "count", unreadCount |-> Cardinality(unread)]
          \/ unread = {} /\ wire[Len(wire)] = [type |-> "cleared"]
      BY <2>1, <2>5 DEF InboxOK, Final
    <3>2. CASE Len(wire) = 1
      <4>1. Shown(wire[1]) = Cardinality(unread)
        <5>1. CASE wire[1] = [type |-> "count", unreadCount |-> Cardinality(unread)]
          BY <5>1 DEF Shown
        <5>2. CASE unread = {} /\ wire[1] = [type |-> "cleared"]
          <6>1. Shown(wire[1]) = 0
            BY <5>2 DEF Shown
          <6> QED BY <1>17, <5>2, <6>1
        <5> QED BY <3>1, <3>2, <5>1, <5>2
      <4>2. wire' = <<>>
        BY <2>1, <2>2, <3>2
      <4> QED BY <2>1, <4>1, <4>2 DEF Final
    <3>3. CASE Len(wire) # 1
      <4>0. Tail(wire)[Len(wire) - 1] = wire[Len(wire)]
        BY <2>1, <2>2, <3>3
      <4>1. wire'[Len(wire')] = wire[Len(wire)]
        BY <2>1, <2>2, <4>0
      <4>2. wire' # <<>>
        BY <2>2, <3>3
      <4> QED BY <2>1, <3>1, <4>1, <4>2 DEF Final
    <3> QED BY <3>2, <3>3
  <2> QED BY <2>1, <2>4, <2>5 DEF InboxOK, Doing, CountKnown, At
<1>22. ASSUME Disconnect PROVE InboxOK'
  <2>1. /\ UNCHANGED <<req, alone, created, notes, unread, superAdmin, pages, badge>>
        /\ wire' = <<>> /\ settled' = FALSE
    BY <1>22 DEF Disconnect, handlers
  <2>2. InboxTypeOK'
    <3>1. <<>> \in Seq(Event)
      OBVIOUS
    <3>2. wire' \in Seq(Event)
      BY <2>1, <3>1
    <3> QED BY <2>1, <3>2 DEF InboxOK, InboxTypeOK
  <2>3. \A r \in Requests : alone'[r] => CountKnown(r)'
    BY <2>1 DEF InboxOK, CountKnown, At
  <2> QED BY <2>1, <2>2, <2>3 DEF InboxOK, Doing
<1>23. ASSUME NEW r \in Requests, NEW i \in notes, StartOp(r, [pc |-> "delete", id |-> i]) PROVE InboxOK'
  <2>1. [pc |-> "delete", id |-> i] \in NoteTask
    BY DEF NoteTask, Notes, InboxOK, InboxTypeOK, Counts
  <2> QED BY <1>1, <1>5, <1>23, <2>1
<1>24. ASSUME NEW r \in Requests,
              \/ StartOp(r, [pc |-> "insert"])
              \/ StartOp(r, [pc |-> "count", cron |-> TRUE, excess |-> 0])
       PROVE  InboxOK'
  BY <1>1, <1>5, <1>24
<1>25. ASSUME NEW r \in Requests, PushCleared(r) PROVE InboxOK'
  <2>1. /\ At(r, "cleared") /\ ~At(r, "idle") /\ [type |-> "cleared"] \in Event
        /\ UNCHANGED <<created, notes, unread, tab>>
    BY <1>1, <1>25 DEF PushCleared, At
  <2>2. wire' \in Seq(Event) /\ wire' # <<>> /\ wire'[Len(wire')] = [type |-> "cleared"]
    BY <1>8, <1>25, <2>1 DEF PushCleared
  <2>3. alone[r] => unread = {} /\ \A q \in Requests \ {r} : At(q, "idle") /\ ~alone[q]
    BY <2>1 DEF InboxOK, CountKnown
  <2>4. CASE req[r].everybody
    <3>1. settled' = alone[r] /\ Finish(r)
      BY <1>25, <2>4 DEF PushCleared
    <3>2. /\ Doing(InboxTask)' /\ req'[r] = Idle /\ \A q \in Requests \ {r} : req'[q] = req[q]
      BY <1>1, <3>1, FinishDoing DEF InboxOK
    <3>3. \A q \in Requests : ~alone'[q]
      BY <2>1, <3>1 DEF InboxOK, CountKnown, Finish
    <3>4. ASSUME alone[r] PROVE Final' /\ \A q \in Requests : At(q, "idle")'
      BY <2>1, <2>2, <2>3, <3>2, <3>4 DEF Final, At, Idle
    <3>5. alone' \in [Requests -> BOOLEAN] /\ settled' \in BOOLEAN
      BY <3>1 DEF Finish, InboxOK
    <3> QED BY <2>1, <2>2, <3>1, <3>2, <3>3, <3>4, <3>5 DEF InboxOK, InboxTypeOK
  <2>5. CASE ~req[r].everybody
    <3>1. UNCHANGED settled /\ Continue(r, [pc |-> "push", unreadCount |-> 0])
      BY <1>25, <2>5 DEF PushCleared
    <3>2. InboxTypeOK'
      BY <2>1, <2>2, <3>1 DEF InboxOK, InboxTypeOK
    <3>3. [pc |-> "push", unreadCount |-> 0] \in InboxTask
      BY <1>1
    <3> QED BY <1>3, <1>17, <2>1, <2>3, <3>1, <3>2, <3>3
  <2> QED BY <2>4, <2>5
\* A statement for the rows of everybody: nobody is alone with it, and the badge stays.
<1>26. ASSUME MarkEverybodysAsRead PROVE InboxOK'
  <2>1. InboxTypeOK' /\ settled' = FALSE /\ UNCHANGED req /\ alone' = [r \in Requests |-> FALSE]
    BY <1>26 DEF MarkEverybodysAsRead, Instant, InboxOK, InboxTypeOK
  <2> QED BY <2>1 DEF InboxOK, Doing
\* What the tab loads changes nothing elsewhere.
<1>27. ASSUME LoadPage \/ ShowPage PROVE InboxOK'
  <2>1. UNCHANGED <<req, alone, created, notes, unread, wire, superAdmin>>
    BY <1>27 DEF LoadPage, ShowPage, handlers
  <2>2. pages' \subseteq 0 .. Page /\ badge' \in Nat /\ settled' \in BOOLEAN
    <3>1. pages \subseteq 0 .. Page /\ badge \in Nat /\ settled \in BOOLEAN
      BY DEF InboxOK, InboxTypeOK
    <3>2. CASE LoadPage
      BY <3>1, <3>2 DEF LoadPage
    <3>3. CASE ShowPage
      <4>1. badge' \in pages /\ pages' = {} /\ settled' = FALSE
        BY <3>3 DEF ShowPage
      <4>2. \A n \in 0 .. Page : n \in Nat
        OBVIOUS
      <4>3. badge' \in Nat
        BY <3>1, <4>1, <4>2
      <4>4. pages' \subseteq 0 .. Page
        BY <4>1
      <4>5. settled' \in BOOLEAN
        BY <4>1
      <4> QED BY <4>3, <4>4, <4>5
    <3> QED BY <1>27, <3>2, <3>3
  <2>3. InboxTypeOK'
    BY <2>1, <2>2 DEF InboxOK, InboxTypeOK
  <2>4. settled' => settled /\ UNCHANGED badge
    BY <1>27 DEF LoadPage, ShowPage
  <2>5. \A r \in Requests : alone'[r] => CountKnown(r)'
    BY <2>1 DEF InboxOK, CountKnown, At
  <2>6. settled' => Final' /\ \A r \in Requests : At(r, "idle")'
    BY <2>1, <2>4 DEF InboxOK, Final, At
  <2> QED BY <2>1, <2>3, <2>5, <2>6 DEF InboxOK, Doing
<1> QED
  BY <1>6, <1>7, <1>9, <1>11, <1>12, <1>13, <1>14, <1>15, <1>16, <1>18, <1>19, <1>20, <1>21, <1>22,
     <1>23, <1>24, <1>25, <1>26, <1>27 DEF InboxNext
-----------------------------------------------------------------------------
(* All parts.                                                              *)

\* What is known of organizations, roles and the inbox while a behaviour is about them,
\* and of their variables always.
PartsInv ==
    /\ area = "organizations" => OrgTreeOK
    /\ area = "roles" => RolesOK
    /\ area = "inbox" => InboxOK
    /\ OrgTreeTypeOK /\ RolesTypeOK /\ InboxTypeOK
    /\ BadgeSettles

\* The badge is right when all is over, since the last event told the count.
LEMMA FinalSettles == InboxOK => BadgeSettles
  BY DEF InboxOK, Final, BadgeSettles

\* They hold in every state.
LEMMA PartsInvariant == Spec => []PartsInv
<1>1. Init => PartsInv
  <2> SUFFICES ASSUME Init PROVE PartsInv
    OBVIOUS
  <2>1. Doing(OrgTask) /\ Doing(RoleTask) /\ Doing(InboxTask)
    BY IdleInit DEF Init, OrgTask, RoleTask, InboxTask
  <2>2. OrgTreeTypeOK
    BY OrgTreeAssumption DEF Init, OrgTreeInit, OrgTreeTypeOK, OrgRow, NoOrgRow, Life
  <2>3. RolesTypeOK
    BY DEF Init, RolesInit, RolesTypeOK, LiveRoles, Life
  <2>4. InboxTypeOK /\ ~settled
    <3>1. created = Cap /\ notes = 1 .. Cap /\ unread \subseteq notes
      BY DEF Init, InboxInit
    <3>2. Cap \in Counts
      BY InboxAssumption DEF Counts
    <3>3. superAdmin \in BOOLEAN /\ pages = {} /\ badge = 0 /\ wire = <<>> /\ settled = FALSE
      BY DEF Init, InboxInit
    <3>4. <<>> \in Seq(Event)
      OBVIOUS
    <3> QED BY <3>1, <3>2, <3>3, <3>4 DEF InboxTypeOK
  <2>5. RolesOK
    BY <2>1, <2>3 DEF Init, HandlersInit, RolesOK, At, Idle
  <2>6. InboxOK
    BY <2>1, <2>4 DEF Init, HandlersInit, InboxOK
  <2> QED BY <2>1, <2>2, <2>3, <2>4, <2>5, <2>6, FinalSettles DEF PartsInv, OrgTreeOK
<1>2. PartsInv /\ [Next]_vars => PartsInv'
  <2> SUFFICES ASSUME PartsInv, [Next]_vars PROVE PartsInv'
    OBVIOUS
  <2>0. (InboxOK => BadgeSettles)'
    BY FinalSettles, PTL
  <2>1. ASSUME UNCHANGED org PROVE OrgTreeTypeOK'
    BY <2>1 DEF PartsInv, OrgTreeTypeOK
  <2>2. ASSUME UNCHANGED roles PROVE RolesTypeOK'
    BY <2>2 DEF PartsInv, RolesTypeOK, LiveRoles, roles
  <2>3. ASSUME UNCHANGED inbox PROVE InboxTypeOK' /\ BadgeSettles'
    BY <2>3 DEF PartsInv, InboxTypeOK, BadgeSettles, inbox, tab
  <2>4. CASE area = "organizations" /\ OrgTreeNext /\ UNCHANGED <<roles, inbox, area>>
    BY <2>2, <2>3, <2>4, OrgTreeStep DEF PartsInv, OrgTreeOK
  <2>5. CASE area = "roles" /\ RolesNext /\ UNCHANGED <<org, inbox, area>>
    BY <2>1, <2>3, <2>5, RolesStep DEF PartsInv, RolesOK
  <2>6. CASE area = "inbox" /\ InboxNext /\ UNCHANGED <<org, roles, area>>
    BY <2>0, <2>1, <2>2, <2>6, InboxStep DEF PartsInv, InboxOK
  <2>7. CASE area \notin {"organizations", "roles", "inbox"} /\ UNCHANGED <<org, roles, inbox, area>>
    BY <2>1, <2>2, <2>3, <2>7 DEF PartsInv
  <2>8. CASE UNCHANGED vars
    <3>1. UNCHANGED <<req, alone, org, roles, inbox, area>>
      BY <2>8 DEF vars, handlers
    <3>2. (Doing(OrgTask) => Doing(OrgTask)') /\ (RolesOK => RolesOK')
      BY <3>1, <2>2 DEF Doing, RolesOK, RoleKnown, LiveRoles, RolesTypeOK, At, roles
    <3>3. InboxOK => InboxOK'
      BY <3>1 DEF Doing, InboxOK, InboxTypeOK, CountKnown, Final, At, inbox, tab
    <3> QED BY <2>1, <2>2, <2>3, <3>1, <3>2, <3>3 DEF PartsInv, OrgTreeOK
  <2> QED BY <2>4, <2>5, <2>6, <2>7, <2>8 DEF Next
<1> QED BY <1>1, <1>2, PTL DEF Spec

\* When an operation that sends a count, or clears everybody's, ran alone and is over, its
\* events have come and no page was loaded since, the badge is the number of unread
\* notifications (NotificationsService, useRealtimeNotifications).
THEOREM BadgeIsSettled == Spec => []BadgeSettles
<1>1. PartsInv => BadgeSettles
  BY DEF PartsInv
<1> QED BY <1>1, PartsInvariant, PTL

\* No handler of another part is at a step of syncPermissions.
LEMMA OnlyRoles ==
    ASSUME StaleInv, PartsInv, StockInv, area \in Areas, NEW r \in Requests,
           At(r, "revoke") \/ At(r, "grant")
    PROVE  area = "roles"
<1>1. area \in {"settings", "organizations", "roles", "inbox", "records", "licenses", "stock"}
  BY ConsoleAssumption
<1>2. area # "settings"
  BY DEF StaleInv, SettingsOK, Doing, SettingsTask, Idle, ReadTask, FillTask, UpdateTask, At
<1>3. area # "organizations"
  BY DEF PartsInv, OrgTreeOK, Doing, OrgTask, Idle, MoveTask, DeleteOrgTask, At
<1>4. area # "inbox"
  BY DEF PartsInv, InboxOK, Doing, InboxTask, Idle, PruneTask, VictimsTask, NoteTask, StepTask,
     ClearedTask, PushTask, At
<1>5. area \notin {"records", "licenses"}
  BY DEF StaleInv, Doing, ScansTask, Idle, ScanTask, ThingTask, ClearTask, At
<1>6. area # "stock"
  BY DEF StockInv, StockOK, StockHandlers, At
<1> QED BY <1>1, <1>2, <1>3, <1>4, <1>5, <1>6

\* The part does not change.
LEMMA AreaInvariant == Spec => [](area \in Areas)
<1>1. Init => area \in Areas
  BY DEF Init
<1>2. area \in Areas /\ [Next]_vars => (area \in Areas)'
  BY DEF Next, vars
<1> QED BY <1>1, <1>2, PTL DEF Spec

\* A save or a clone that no other request overlapped leaves exactly the permissions that
\* were asked for (RolesService.update, clone, syncPermissions).
THEOREM AloneRoleIsExact == Spec => AloneRoleExact
<1> DEFINE Exact(r) ==
      /\ (At(r, "revoke") \/ At(r, "grant")) /\ alone[r] /\ (Revoke(r) \/ Grant(r)) /\ req'[r] = Idle
      => /\ permission'[req[r].id] = req[r].asked
         /\ req[r].source # NoRole => permission'[req[r].id] = permission'[req[r].source]
<1>1. StaleInv /\ PartsInv /\ StockInv /\ area \in Areas => \A r \in Requests : Exact(r)
  <2> SUFFICES ASSUME StaleInv, PartsInv, StockInv, area \in Areas, NEW r \in Requests,
                      At(r, "revoke") \/ At(r, "grant"), alone[r], Revoke(r) \/ Grant(r), req'[r] = Idle
               PROVE  /\ permission'[req[r].id] = req[r].asked
                      /\ req[r].source # NoRole => permission'[req[r].id] = permission'[req[r].source]
    OBVIOUS
  <2>1. RolesOK
    BY OnlyRoles DEF PartsInv
  <2> QED BY <2>1, RoleExact
<1>2. StaleInv /\ PartsInv /\ StockInv /\ area \in Areas
      => [\A r \in Requests :
            (At(r, "revoke") \/ At(r, "grant")) /\ alone[r] /\ (Revoke(r) \/ Grant(r)) /\ req'[r] = Idle
            => LET t == req[r]
               IN  /\ permission'[t.id] = t.asked
                   /\ t.source # NoRole => permission'[t.id] = permission'[t.source]
         ]_<<roles, handlers>>
  BY <1>1
<1> QED BY <1>2, StaleInvariant, PartsInvariant, StockInvariant, AreaInvariant, PTL DEF AloneRoleExact
-----------------------------------------------------------------------------
(* Types.                                                                  *)

\* The units have different asset tags, which are numbers.
LEMMA UnitsCount ==
    ASSUME StockTypeOK
    PROVE  Cardinality(units) \in 0 .. MaxCode + 1
<1> DEFINE tags == 0 .. MaxCode
           f == [u \in units |-> u.assetTag]
<1>1. IsFiniteSet(tags) /\ Cardinality(tags) = MaxCode + 1
  BY FS_Interval, StockAssumption
<1>2. f \in Injection(units, tags)
  <2>1. \A u \in units : u.assetTag \in tags
    BY StockAssumption DEF StockTypeOK, Unit, Numbers, OtherCode
  <2>2. \A u, v \in units : u.assetTag = v.assetTag => u = v
    BY DEF StockTypeOK, Distinct
  <2> QED BY <2>1, <2>2 DEF Injection, IsInjective
<1>3. IsFiniteSet(units) /\ Cardinality(units) <= MaxCode + 1
  BY <1>1, <1>2, FS_Injection
<1> QED BY <1>3, FS_CardinalityType, StockAssumption

\* Units that carry codes nobody has make no two alike.
LEMMA InsertTypes ==
    ASSUME StockTypeOK, NEW codes \in SUBSET (Numbers \cup {OtherCode}), Insert(codes)
    PROVE  units' \subseteq Unit /\ Distinct(units')
<1>1. units' = units \cup Coded(codes) /\ \A c \in codes : ~Taken(c)
  BY DEF Insert
<1>2. Coded(codes) \subseteq Unit
  BY DEF Coded, Unit
<1>3. ASSUME NEW u \in units, NEW v \in Coded(codes)
      PROVE  u.assetTag # v.assetTag /\ u.subcode # v.subcode
  BY <1>1 DEF Coded, Taken
<1>4. \A u, v \in Coded(codes) : u # v => u.assetTag # v.assetTag /\ u.subcode # v.subcode
  BY DEF Coded
<1> QED BY <1>1, <1>2, <1>3, <1>4 DEF StockTypeOK, Distinct

\* A step of the stock keeps its types.
LEMMA StockTypes ==
    ASSUME Doing(StockTask), StockTypeOK, StockNext
    PROVE  Doing(StockTask)' /\ StockTypeOK'
<1> USE StockAssumption
<1>1. Idle \in StockTask
  BY DEF StockTask
<1>2. ASSUME UNCHANGED req PROVE Doing(StockTask)'
  BY <1>2 DEF Doing
<1>3. ASSUME NEW n \in 0 .. MaxIntake, CreateModel(n) PROVE Doing(StockTask)' /\ StockTypeOK'
  <2>1. Sequence(1, n) \subseteq Numbers
    BY DEF Sequence, Numbers
  <2>2. Coded(Sequence(1, n)) \subseteq Unit /\ Distinct(Coded(Sequence(1, n)))
    BY <2>1 DEF Coded, Unit, Distinct
  <2> QED BY <1>2, <1>3, <2>2 DEF CreateModel, Instant, StockTypeOK, Life
<1>4. ASSUME NEW r \in Requests, NEW n \in 1 .. MaxIntake, StartRestock(r, n)
      PROVE  Doing(StockTask)' /\ StockTypeOK'
  <2> DEFINE task == [pc |-> "restock", currentUnitCount |-> Cardinality(units), qty |-> n]
  <2>1. task \in StockTask
    BY UnitsCount DEF StockTask, RestockTask
  <2> QED BY <1>4, <2>1, ContinueDoing DEF StartRestock, StockTypeOK, stock
<1>5. ASSUME NEW r \in Requests, Restock(r) PROVE Doing(StockTask)' /\ StockTypeOK'
  <2>1. Finish(r) /\ Fresh(req[r]) \subseteq Numbers /\ Insert(Fresh(req[r])) /\ UNCHANGED <<model, byHand>>
    BY <1>5 DEF Restock
  <2>2. units' \subseteq Unit /\ Distinct(units') /\ model = "up"
    BY <2>1, InsertTypes DEF Insert
  <2> QED BY <1>1, <2>1, <2>2, FinishDoing DEF StockTypeOK
<1>6. ASSUME NEW r \in Requests, StockAbort(r) PROVE Doing(StockTask)' /\ StockTypeOK'
  BY <1>1, <1>6, FinishDoing DEF StockAbort, StockTypeOK, stock
<1>7. ASSUME NEW codes \in SUBSET (Numbers \cup {OtherCode}), Intake(codes)
      PROVE  Doing(StockTask)' /\ StockTypeOK'
  <2>1. units' \subseteq Unit /\ Distinct(units') /\ model = "up"
    BY <1>7, InsertTypes DEF Intake, Insert
  <2> QED BY <1>2, <1>7, <2>1 DEF Intake, Instant, StockTypeOK
<1>8. ASSUME NEW u \in units, NEW v \in Unit, Replace(u, v) PROVE Doing(StockTask)' /\ StockTypeOK'
  BY <1>2, <1>8 DEF Replace, Instant, StockTypeOK
<1>9. ASSUME NEW u \in units, NEW code \in Numbers \cup {OtherCode}, UpdateUnit(u, code)
      PROVE  Doing(StockTask)' /\ StockTypeOK'
  <2>1. [subcode |-> code, assetTag |-> code] \in Unit
    BY DEF Unit
  <2> QED BY <1>8, <1>9, <2>1 DEF UpdateUnit
<1>10. ASSUME NEW u \in units, DeleteUnit(u) PROVE Doing(StockTask)' /\ StockTypeOK'
  BY <1>2, <1>10 DEF DeleteUnit, Instant, StockTypeOK, Distinct
<1>11. ASSUME DeleteModel PROVE Doing(StockTask)' /\ StockTypeOK'
  BY <1>2, <1>11 DEF DeleteModel, Instant, StockTypeOK, Life
<1> QED
  BY <1>3, <1>4, <1>5, <1>6, <1>7, <1>8, <1>9, <1>10, <1>11 DEF StockNext, Update

\* A step of a scan keeps the types of what it writes.
LEMMA ScansTypes ==
    ASSUME Doing(ScansTask), ScansTypeOK, NEW kind \in {Records, Licenses}, ScansNext(kind)
    PROVE  ScansTypeOK'
<1> USE DEF ScansTypeOK, Things
<1>1. \A x \in kind : x \in Things
  OBVIOUS
<1>2. ASSUME NEW x \in Things, Settled(x) PROVE /\ due' \subseteq Things /\ unsure' \subseteq Things
                                               /\ told' \in [Things -> 0 .. 2]
  BY <1>2 DEF Settled
<1>3. ASSUME NEW x \in kind, FallDue(x) PROVE ScansTypeOK'
  BY <1>3 DEF FallDue
<1>4. ASSUME NEW x \in kind, NEW isDue \in BOOLEAN, NEW isExpired \in BOOLEAN,
             UpdateLicense(x, isDue, isExpired)
      PROVE  ScansTypeOK'
  <2>1. /\ x \in Licenses
        /\ expired' = (expired \ {x}) \cup {y \in {x} : isExpired}
        /\ overtaken' = (overtaken \ {x}) \cup {y \in {x} : ~isDue /\ \E r \in Requests : Condemns(r, y)}
        /\ deliberate' = (deliberate \ {x}) \cup {y \in {x} : ~isDue /\ isExpired}
    BY <1>4 DEF UpdateLicense
  <2>2. due' \subseteq Things /\ unsure' \subseteq Things /\ told' \in [Things -> 0 .. 2]
    BY <1>2, <1>4 DEF UpdateLicense
  <2> QED BY <2>1, <2>2
<1>5. ASSUME NEW x \in kind, Cooldown(x) PROVE ScansTypeOK'
  BY <1>5 DEF Cooldown
<1>6. ASSUME NEW r \in Requests, NEW p \in Processes,
             StartScan(r, p, kind) \/ \E x \in kind : Resolve(r, p, x)
      PROVE  ScansTypeOK'
  BY <1>2, <1>6 DEF StartScan, Resolve, scans
<1>7. ASSUME NEW r \in Requests, NEW x \in kind, NextThing(r, x) PROVE ScansTypeOK'
  <2>1. req[r].unmarked \subseteq Licenses
    BY <1>7, ScanSteps DEF NextThing, ScanTask
  <2> QED BY <1>7, <2>1 DEF NextThing
<1>8. ASSUME NEW r \in Requests, At(r, "check") \/ At(r, "notify") \/ At(r, "set")
      PROVE  req[r].thing \in Things
  BY <1>8, ScanSteps DEF ThingTask
<1>9. ASSUME NEW r \in Requests, CheckKey(r) PROVE ScansTypeOK'
  BY <1>8, <1>9 DEF CheckKey
<1>10. ASSUME NEW r \in Requests, NotifyAdmins(r) PROVE ScansTypeOK'
  <2>1. PICK k \in {req[r].thing} :
           told' \in {told} \cup {[told EXCEPT ![c] = IF @ = 2 THEN 2 ELSE @ + 1] : c \in due \cap {k}}
    BY <1>10 DEF NotifyAdmins
  <2>2. told' \in [Things -> 0 .. 2]
    BY <2>1
  <2> QED BY <1>10, <2>2 DEF NotifyAdmins
<1>11. ASSUME NEW r \in Requests, SetKey(r) \/ ScanAbort(r) \/ ClearAlert(r) PROVE ScansTypeOK'
  BY <1>8, <1>11 DEF SetKey, ScanAbort, ClearAlert, scans
<1> QED
  BY <1>3, <1>4, <1>5, <1>6, <1>7, <1>9, <1>10, <1>11 DEF ScansNext

\* What a copy can say: a value the setting has had, but of the one setting never that
\* there is no row.
CopiesKnown ==
    /\ setting \in Values
    /\ \A w \in Places, k \in SettingKeys : CopyAt(w, k) \in (0 .. setting) \cup {NoValue}
    /\ CopyAt("redis", "group") # 0
    /\ excused \subseteq {c \in Copies : Stale(c)}

FillKnown(task) ==
    task.pc = "fill" => task.value \in 0 .. setting /\ (task.key = "group" => task.value # 0)

FillsKnown == \A r \in Requests : FillKnown(req[r])

\* A step of the settings keeps that.
LEMMA SettingsTypes ==
    ASSUME Doing(SettingsTask), CacheShape, CopiesKnown, FillsKnown, SettingsNext
    PROVE  CopiesKnown' /\ FillsKnown'
<1> USE SettingsAssumption
<1>0. "redis" \in Places /\ "group" \in SettingKeys /\ setting \in Nat
  BY DEF Places, SettingKeys, CopiesKnown, Values
\* Which task a handler at a step has.
<1>1. ASSUME NEW r \in Requests
      PROVE  /\ At(r, "get") => req[r] \in ReadTask
             /\ At(r, "query") => req[r] \in ReadTask
             /\ At(r, "fill") => req[r] \in FillTask
             /\ At(r, "upsert") \/ At(r, "invalidate") => req[r] \in UpdateTask
  BY DEF Doing, SettingsTask, Idle, ReadTask, FillTask, UpdateTask, At
\* A handler that only goes on.
<1>2. ASSUME NEW r \in Requests, NEW task, Continue(r, task), UNCHANGED <<settings, cache>>, FillKnown(task)
      PROVE  CopiesKnown' /\ FillsKnown'
  <2>1. CopiesKnown'
    BY <1>2 DEF CopiesKnown, CopyAt, Stale, settings, cache
  <2>2. FillsKnown'
    BY <1>2 DEF FillsKnown, FillKnown, Continue, Doing, settings
  <2> QED BY <2>1, <2>2
<1>3. ASSUME NEW r \in Requests, Finish(r), setting' = setting PROVE FillsKnown'
  BY <1>3 DEF FillsKnown, FillKnown, Finish, Doing, Idle
<1>4. ASSUME NEW r \in Requests, Finish(r), UNCHANGED <<settings, cache>> PROVE CopiesKnown' /\ FillsKnown'
  <2>1. CopiesKnown'
    BY <1>4 DEF CopiesKnown, CopyAt, Stale, settings, cache
  <2> QED BY <1>3, <1>4, <2>1 DEF settings
<1>5. ASSUME NEW r \in Requests, NEW p \in Processes,
             StartUpdate(r, p) \/ \E k \in SettingKeys : StartRead(r, p, k)
      PROVE  CopiesKnown' /\ FillsKnown'
  BY <1>2, <1>5 DEF StartUpdate, StartRead, FillKnown
<1>6. ASSUME NEW r \in Requests, ReadCache(r) PROVE CopiesKnown' /\ FillsKnown'
  <2>1. [req[r] EXCEPT !.pc = "query"].pc = "query"
    BY <1>1, <1>6 DEF ReadCache, ReadTask
  <2>2. FillKnown([req[r] EXCEPT !.pc = "query"])
    BY <2>1 DEF FillKnown
  <2> QED BY <1>2, <1>4, <1>6, <2>2 DEF ReadCache, Goto
<1>7. ASSUME NEW r \in Requests, QuerySetting(r) PROVE CopiesKnown' /\ FillsKnown'
  <2> DEFINE task == [pc |-> "fill", process |-> req[r].process, key |-> req[r].key,
                      value |-> setting, raced |-> FALSE]
  <2>1. \/ Finish(r)
        \/ Continue(r, task) /\ ~(req[r].key = "group" /\ setting = 0)
    BY <1>7 DEF QuerySetting
  <2>2. ASSUME ~(req[r].key = "group" /\ setting = 0) PROVE FillKnown(task)
    BY <1>0, <2>2 DEF FillKnown
  <2> QED BY <1>2, <1>4, <1>7, <2>1, <2>2 DEF QuerySetting
<1>8. ASSUME NEW r \in Requests, Fill(r) PROVE CopiesKnown' /\ FillsKnown'
  <2>1. PICK p \in {req[r].process}, k \in {req[r].key}, v \in {req[r].value} :
           Set(p, k, v) /\ excused' \subseteq {c \in Copies : Stale(c)'}
    BY <1>8 DEF Fill
  <2>2. p \in Processes /\ k \in SettingKeys /\ k \in Keys /\ UNCHANGED setting /\ Finish(r)
    BY <1>1, <1>8, <2>1 DEF FillTask, Fill
  <2>3. v \in 0 .. setting /\ (k = "group" => v # 0)
    BY <1>8, <2>1 DEF FillsKnown, FillKnown, Fill, At
  <2>4. \A w \in Places, j \in SettingKeys : CopyAt(w, j)' = CopyAt(w, j) \/ (j = k /\ CopyAt(w, j)' = v)
    BY <2>1, <2>2, SetCopies
  <2>5. CopyAt("redis", "group")' # 0
    BY <1>0, <2>3, <2>4 DEF CopiesKnown
  <2>6. CopiesKnown'
    BY <2>1, <2>2, <2>3, <2>4, <2>5 DEF CopiesKnown, Copies
  <2> QED BY <1>3, <2>2, <2>6
<1>9. ASSUME NEW r \in Requests, Upsert(r) PROVE CopiesKnown' /\ FillsKnown'
  <2>1. /\ setting' = setting + 1 /\ setting' \in Values
        /\ UNCHANGED <<excused, cache>>
    BY <1>9 DEF Upsert, CopiesKnown, Values
  <2>2. \A w \in Places, k \in SettingKeys : CopyAt(w, k)' = CopyAt(w, k)
    BY <2>1 DEF CopyAt, cache
  <2>3. ASSUME NEW c \in excused PROVE c \in Copies /\ Stale(c)'
    <3>1. c \in Copies /\ Stale(c) /\ c[1] \in Places /\ c[2] \in SettingKeys
      BY <2>3 DEF CopiesKnown, Copies
    <3>2. CopyAt(c[1], c[2]) \in 0 .. setting
      BY <3>1 DEF CopiesKnown, Stale
    <3> QED BY <1>0, <2>1, <2>2, <3>1, <3>2 DEF Stale
  <2>4. CopiesKnown'
    BY <1>0, <2>1, <2>2, <2>3 DEF CopiesKnown, Copies
  <2>5. ASSUME NEW q \in Requests PROVE FillKnown(req[q])'
    <3>1. CASE q = r
      BY <1>1, <1>9, <3>1 DEF Upsert, FillKnown, UpdateTask
    <3>2. CASE q # r /\ At(q, "fill")
      <4>1. req'[q] = [req[q] EXCEPT !.raced = TRUE] /\ req[q] \in FillTask
        BY <1>1, <1>9, <3>2 DEF Upsert
      <4>2. req'[q].pc = req[q].pc /\ req'[q].value = req[q].value /\ req'[q].key = req[q].key
        BY <4>1 DEF FillTask
      <4>3. req[q].pc = "fill" /\ req[q].value \in 0 .. setting /\ (req[q].key = "group" => req[q].value # 0)
        BY <3>2 DEF FillsKnown, FillKnown, At
      <4>4. req[q].value \in 0 .. setting'
        BY <1>0, <2>1, <4>3
      <4> QED BY <4>2, <4>3, <4>4 DEF FillKnown
    <3>3. CASE q # r /\ ~At(q, "fill")
      BY <1>9, <3>3 DEF Upsert, FillKnown, At
    <3> QED BY <3>1, <3>2, <3>3
  <2> QED BY <2>4, <2>5 DEF FillsKnown
\* Places of one key are emptied.
<1>10. ASSUME NEW k \in SettingKeys, Forget(k), setting' = setting,
              excused' \subseteq {c \in Copies : Stale(c)'}
       PROVE  CopiesKnown'
  <2>1. \A w \in Places, j \in SettingKeys :
           CopyAt(w, j)' = CopyAt(w, j) \/ (j = k /\ CopyAt(w, j)' = NoValue)
    BY <1>10, ForgetCopies
  <2>2. CopyAt("redis", "group")' # 0
    BY <1>0, <2>1 DEF CopiesKnown
  <2> QED BY <1>10, <2>1, <2>2 DEF CopiesKnown, Copies
<1>11. ASSUME NEW r \in Requests, NEW k \in SettingKeys, Invalidate(r, k) PROVE CopiesKnown' /\ FillsKnown'
  <2>1. req[r] \in UpdateTask
    BY <1>1, <1>11 DEF Invalidate
  <2>2. Forget(k) /\ UNCHANGED setting
    BY <1>11, <2>1 DEF Invalidate, Forget, UpdateTask
  <2>3. CopiesKnown'
    BY <1>10, <1>11, <2>2 DEF Invalidate
  <2>4. FillsKnown'
    <3>1. CASE Finish(r)
      BY <1>3, <2>2, <3>1
    <3>2. CASE Continue(r, [req[r] EXCEPT !.keys = @ \ {k}])
      <4>1. [req[r] EXCEPT !.keys = @ \ {k}].pc = "invalidate"
        BY <1>11, <2>1 DEF Invalidate, At, UpdateTask
      <4> QED BY <2>2, <3>2, <4>1 DEF Continue, FillsKnown, FillKnown, Doing
    <3> QED BY <1>11, <3>1, <3>2 DEF Invalidate
  <2> QED BY <2>3, <2>4
<1>12. ASSUME NEW r \in Requests, SettingsAbort(r) PROVE CopiesKnown' /\ FillsKnown'
  <2>1. Finish(r) /\ UNCHANGED <<setting, cache>> /\ excused' \subseteq {c \in Copies : Stale(c)}
    BY <1>12 DEF SettingsAbort
  <2>2. CopiesKnown'
    BY <2>1 DEF CopiesKnown, CopyAt, Stale, cache, Copies
  <2> QED BY <1>3, <2>1, <2>2
<1>13. ASSUME CacheEvent PROVE CopiesKnown' /\ FillsKnown'
  <2>1. PICK k \in SettingKeys : Forget(k)
    BY <1>13 DEF CacheEvent, Forget
  <2>2. UNCHANGED <<req, setting>> /\ excused' = {c \in excused : Stale(c)'}
    BY <1>13 DEF CacheEvent, handlers
  <2>3. excused' \subseteq {c \in Copies : Stale(c)'}
    BY <2>2 DEF CopiesKnown
  <2> QED BY <1>10, <2>1, <2>2, <2>3 DEF FillsKnown, FillKnown
<1> QED
  BY <1>5, <1>6, <1>7, <1>8, <1>9, <1>11, <1>12, <1>13 DEF SettingsNext

\* What types a step needs besides those in StaleInv and PartsInv.
TypeInv ==
    /\ CopiesKnown /\ ScansTypeOK /\ StockTypeOK
    /\ area = "settings" => FillsKnown
    /\ area = "stock" => Doing(StockTask)

\* They hold in every state.
LEMMA TypeInvariant == Spec => []TypeInv
<1>1. Init => TypeInv
  <2> SUFFICES ASSUME Init PROVE TypeInv
    OBVIOUS
  <2>1. CopiesKnown
    <3>1. setting \in {0, 1} /\ excused = {}
      BY DEF Init, SettingsInit
    <3>2. \A w \in Places, k \in SettingKeys : CopyAt(w, k) = NoValue
      BY SettingsAssumption DEF Init, CacheInit, CopyAt, Places
    <3>3. CopyAt("redis", "group") = NoValue
      BY <3>2 DEF Places, SettingKeys
    <3> QED BY <3>1, <3>2, <3>3, SettingsAssumption DEF CopiesKnown, Values
  <2>2. ScansTypeOK /\ StockTypeOK
    <3>1. told \in [Things -> 0 .. 2]
      BY DEF Init, ScansInit
    <3>2. ScansTypeOK
      BY <3>1 DEF Init, ScansInit, ScansTypeOK
    <3> QED BY <3>2 DEF Init, StockInit, StockTypeOK, Distinct, Life
  <2>3. FillsKnown
    BY DEF Init, HandlersInit, FillsKnown, FillKnown, Idle
  <2>4. Doing(StockTask)
    BY IdleInit DEF Init, StockTask
  <2> QED BY <2>1, <2>2, <2>3, <2>4 DEF TypeInv
<1>2. StaleInv /\ TypeInv /\ [Next]_vars => TypeInv'
  <2> SUFFICES ASSUME StaleInv, TypeInv, [Next]_vars PROVE TypeInv'
    OBVIOUS
  <2>1. ASSUME UNCHANGED <<settings, cache>> PROVE CopiesKnown'
    BY <2>1 DEF TypeInv, CopiesKnown, CopyAt, Stale, settings, cache
  <2>2. ASSUME UNCHANGED scans PROVE ScansTypeOK'
    BY <2>2 DEF TypeInv, ScansTypeOK, scans
  <2>3. ASSUME UNCHANGED stock PROVE StockTypeOK'
    BY <2>3 DEF TypeInv, StockTypeOK, stock
  <2>4. CASE area = "settings" /\ SettingsNext /\ UNCHANGED <<scans, stock, area>>
    <3>1. Doing(SettingsTask) /\ CacheShape
      BY <2>4 DEF StaleInv, SettingsOK
    <3> QED BY <2>2, <2>3, <2>4, <3>1, SettingsTypes DEF TypeInv
  <2>5. CASE /\ area \in {"records", "licenses"} /\ UNCHANGED <<settings, stock, area>>
             /\ \E kind \in {Records, Licenses} : ScansNext(kind)
    <3>1. Doing(ScansTask) /\ CacheShape
      BY <2>5 DEF StaleInv
    <3>2. PICK kind \in {Records, Licenses} : ScansNext(kind)
      BY <2>5
    <3>3. \A w \in Places, j \in SettingKeys : CopyAt(w, j)' = CopyAt(w, j)
      BY <3>1, <3>2, ScansCopies
    <3>4. CopiesKnown'
      BY <2>5, <3>3 DEF TypeInv, CopiesKnown, Stale, Copies, Places, SettingKeys, settings
    <3>5. ScansTypeOK'
      BY <3>1, <3>2, ScansTypes DEF TypeInv
    <3> QED BY <2>3, <2>5, <3>4, <3>5 DEF TypeInv
  <2>6. CASE area = "stock" /\ StockNext /\ UNCHANGED <<cache, settings, scans, area>>
    BY <2>1, <2>2, <2>6, StockTypes DEF TypeInv
  <2>7. CASE /\ area \notin {"settings", "records", "licenses", "stock"}
             /\ UNCHANGED <<cache, settings, scans, stock, area>>
    BY <2>1, <2>2, <2>3, <2>7 DEF TypeInv
  <2>8. CASE UNCHANGED vars
    BY <2>1, <2>2, <2>3, <2>8 DEF TypeInv, vars, handlers, settings, FillsKnown, FillKnown, Doing
  <2> QED BY <2>4, <2>5, <2>6, <2>7, <2>8 DEF Next
<1> QED BY <1>1, <1>2, StaleInvariant, PTL DEF Spec

\* Every handler is at a step of its part, with what that step needs; every row and every
\* copy is one that the code can have written.
THEOREM TypeCorrect == Spec => []TypeOK
<1>1. StaleInv /\ PartsInv /\ TypeInv /\ area \in Areas => TypeOK
  <2> SUFFICES ASSUME StaleInv, PartsInv, TypeInv, area \in Areas PROVE TypeOK
    OBVIOUS
  <2>1. area \in {"settings", "organizations", "roles", "inbox", "records", "licenses", "stock"}
    BY ConsoleAssumption
  <2>2. \A r \in Requests : req[r] \in Task
    BY <2>1 DEF StaleInv, SettingsOK, PartsInv, OrgTreeOK, RolesOK, InboxOK, TypeInv, Doing, Task
  <2>3. SettingsTypeOK
    <3>1. 0 .. setting \subseteq Values
      BY SettingsAssumption DEF TypeInv, CopiesKnown, Values
    <3>2. \A c \in Copies : c[1] \in Places /\ c[2] \in SettingKeys
      BY DEF Copies
    <3> QED BY <3>1, <3>2 DEF TypeInv, CopiesKnown, SettingsTypeOK
  <2> QED BY <2>2, <2>3 DEF PartsInv, TypeInv, TypeOK
<1> QED BY <1>1, StaleInvariant, PartsInvariant, TypeInvariant, AreaInvariant, PTL

-----------------------------------------------------------------------------
(* The tree of the organizations.  Above and ShownAt are defined by recursion over the    *)
(* number of steps.  That such a function exists, and obeys its equation at every number, *)
(* is shown by taking the least number at which it would not.                             *)

\* The numbers of steps are those up to the number of organizations.
LEMMA Depths == /\ Cardinality(Orgs) \in Nat /\ Depth = 0 .. Cardinality(Orgs)
                /\ 0 \in Depth /\ \A n \in Depth : n \in Nat /\ (n # 0 => n - 1 \in Depth)
<1>1. Cardinality(Orgs) \in Nat
  BY OrgTreeAssumption, FS_CardinalityType
<1> QED BY <1>1 DEF Depth

\* A set of numbers with a member has a least one.
LEMMA Least ==
    ASSUME NEW B \in SUBSET Nat, B # {}
    PROVE  \E n \in B : \A m \in B : n <= m
<1> DEFINE R == OpToRel(<, Nat)
<1>1. IsWellFoundedOn(R, Nat)
  BY NatLessThanWellFounded
<1>2. \A m, k \in Nat : m < k => <<m, k>> \in R
  BY DEF R, OpToRel
<1> HIDE DEF R
<1>3. PICK n \in B : \A m \in B : ~ (<<m, n>> \in R)
  BY <1>1, WFMin
<1>4. n \in Nat /\ \A m \in B : m \in Nat /\ ~ (m < n)
  BY <1>2, <1>3
<1>5. \A m \in B : n <= m
  BY <1>4
<1> QED BY <1>5

\* One step up.
ParentOf(x) == IF x = NoOrg THEN NoOrg ELSE org[x].parent

\* Above goes up one parent at a time.
Climbs ==
    \A o : /\ Above(o, 0) = o
           /\ \A n \in Depth : n # 0 => Above(o, n) = ParentOf(Above(o, n - 1))

\* It does, since there is a function that does.
LEMMA AboveSteps == Climbs
<1> SUFFICES ASSUME NEW o
             PROVE  /\ Above(o, 0) = o
                    /\ \A n \in Depth : n # 0 => Above(o, n) = ParentOf(Above(o, n - 1))
  BY DEF Climbs
<1> DEFINE To(f, k) == IF k = 0 THEN o ELSE LET below == f[k - 1]
                                            IN  IF below = NoOrg THEN NoOrg ELSE org[below].parent
           Walk(n) == \E f : f = [k \in 0 .. n |-> To(f, k)]
           Missing == {n \in Nat : ~ Walk(n)}
           up == CHOOSE f : f = [k \in Depth |-> To(f, k)]
<1>1. Missing = {}
  <2> SUFFICES ASSUME Missing # {} PROVE FALSE
    OBVIOUS
  <2>1. Missing \in SUBSET Nat
    OBVIOUS
  <2> HIDE DEF Missing
  <2>2. PICK n \in Missing : \A m \in Missing : n <= m
    BY <2>1, Least
  <2> USE DEF Missing
  <2>3. n \in Nat /\ ~ Walk(n)
    BY <2>2
  <2>4. CASE n = 0
    <3>1. [k \in 0 .. 0 |-> o] = [k \in 0 .. 0 |-> To([j \in 0 .. 0 |-> o], k)]
      OBVIOUS
    <3> QED BY <2>3, <2>4, <3>1
  <2>5. CASE n # 0
    <3>1. n - 1 \in Nat /\ n - 1 \notin Missing
      <4>1. n - 1 \in Nat /\ ~ (n <= n - 1)
        BY <2>3, <2>5
      <4> HIDE DEF Missing
      <4> QED BY <2>2, <4>1
    <3>2. PICK f : f = [k \in 0 .. (n - 1) |-> To(f, k)]
      BY <3>1
    <3> DEFINE g == [k \in 0 .. n |-> IF k = n THEN To(f, n) ELSE f[k]]
    <3>3. \A k \in 0 .. n : k # 0 => k - 1 \in 0 .. (n - 1) /\ k - 1 \in 0 .. n /\ k - 1 # n
      BY <2>3
    <3>4. \A k \in 0 .. n : To(g, k) = To(f, k)
      BY <3>3
    <3>5. \A k \in 0 .. n : k # n => k \in 0 .. (n - 1)
      BY <2>3
    <3>6. \A k \in 0 .. (n - 1) : f[k] = To(f, k)
      <4> HIDE DEF To
      <4> QED BY <3>2
    <3>7. \A k \in 0 .. n : g[k] = To(g, k)
      <4> HIDE DEF To
      <4> QED BY <3>4, <3>5, <3>6
    <3>8. g = [k \in 0 .. n |-> To(g, k)]
      <4>1. g = [k \in 0 .. n |-> g[k]]
        OBVIOUS
      <4> HIDE DEF To, g
      <4> QED BY <3>7, <4>1
    <3> QED BY <2>3, <3>8
  <2> QED BY <2>4, <2>5
<1>2. \E f : f = [k \in Depth |-> To(f, k)]
  <2>1. Walk(Cardinality(Orgs))
    BY <1>1, Depths
  <2> QED BY <2>1, Depths
<1>3. up = [k \in Depth |-> To(up, k)]
  <2> HIDE DEF To
  <2> QED BY <1>2
<1>4. \A n : Above(o, n) = up[n]
  BY DEF Above
<1> HIDE DEF up
<1>5. \A n \in Depth : up[n] = To(up, n)
  <2> HIDE DEF To
  <2> QED BY <1>3
<1> QED BY <1>4, <1>5, Depths DEF ParentOf

\* ShownAt goes down one organization at a time.
LEMMA ShownSteps ==
    \A n \in Depth : ShownAt[n] = {o \in Existing : ShownUnder(o) \in IF n = 0 THEN {NoOrg} ELSE ShownAt[n - 1]}
<1> DEFINE In(f, k) == {o \in Existing : ShownUnder(o) \in IF k = 0 THEN {NoOrg} ELSE f[k - 1]}
           Walk(n) == \E f : f = [k \in 0 .. n |-> In(f, k)]
           Missing == {n \in Nat : ~ Walk(n)}
           at == CHOOSE f : f = [k \in Depth |-> In(f, k)]
<1>1. Missing = {}
  <2> SUFFICES ASSUME Missing # {} PROVE FALSE
    OBVIOUS
  <2>1. Missing \in SUBSET Nat
    OBVIOUS
  <2> HIDE DEF Missing
  <2>2. PICK n \in Missing : \A m \in Missing : n <= m
    BY <2>1, Least
  <2> USE DEF Missing
  <2>3. n \in Nat /\ ~ Walk(n)
    BY <2>2
  <2>4. CASE n = 0
    <3> DEFINE top == {o \in Existing : ShownUnder(o) = NoOrg}
    <3>1. [k \in 0 .. 0 |-> top] = [k \in 0 .. 0 |-> In([j \in 0 .. 0 |-> top], k)]
      OBVIOUS
    <3> QED BY <2>3, <2>4, <3>1
  <2>5. CASE n # 0
    <3>1. n - 1 \in Nat /\ n - 1 \notin Missing
      <4>1. n - 1 \in Nat /\ ~ (n <= n - 1)
        BY <2>3, <2>5
      <4> HIDE DEF Missing
      <4> QED BY <2>2, <4>1
    <3>2. PICK f : f = [k \in 0 .. (n - 1) |-> In(f, k)]
      BY <3>1
    <3> DEFINE g == [k \in 0 .. n |-> IF k = n THEN In(f, n) ELSE f[k]]
    <3>3. \A k \in 0 .. n : k # 0 => k - 1 \in 0 .. (n - 1) /\ k - 1 \in 0 .. n /\ k - 1 # n
      BY <2>3
    <3>4. \A k \in 0 .. n : k # 0 => g[k - 1] = f[k - 1]
      BY <3>3
    <3>5. \A k \in 0 .. n : In(g, k) = In(f, k)
      <4> HIDE DEF g
      <4> QED BY <3>4
    <3>6. \A k \in 0 .. n : k # n => k \in 0 .. (n - 1)
      BY <2>3
    <3>7. \A k \in 0 .. (n - 1) : f[k] = In(f, k)
      <4> HIDE DEF In
      <4> QED BY <3>2
    <3>8. \A k \in 0 .. n : g[k] = In(g, k)
      <4> HIDE DEF In
      <4> QED BY <3>5, <3>6, <3>7
    <3>9. g = [k \in 0 .. n |-> In(g, k)]
      <4>1. g = [k \in 0 .. n |-> g[k]]
        OBVIOUS
      <4> HIDE DEF In, g
      <4> QED BY <3>8, <4>1
    <3> QED BY <2>3, <3>9
  <2> QED BY <2>4, <2>5
<1>2. \E f : f = [k \in Depth |-> In(f, k)]
  <2>1. Walk(Cardinality(Orgs))
    BY <1>1, Depths
  <2> QED BY <2>1, Depths
<1>3. at = [k \in Depth |-> In(at, k)]
  <2> HIDE DEF In
  <2> QED BY <1>2
<1>4. ShownAt = at
  BY DEF ShownAt
<1> HIDE DEF at
<1>5. \A n \in Depth : at[n] = In(at, n)
  <2> HIDE DEF In
  <2> QED BY <1>3
<1> QED BY <1>4, <1>5

\* From an organization and from its parent one comes to the same, one step later.
LEMMA AboveParent ==
    \A o : o # NoOrg => \A n \in Depth : n # 0 => Above(o, n) = Above(ParentOf(o), n - 1)
<1> TAKE o
<1> HAVE o # NoOrg
<1> DEFINE Wrong == {n \in Nat : n \in Depth /\ n # 0 /\ Above(o, n) # Above(ParentOf(o), n - 1)}
<1> SUFFICES ASSUME Wrong # {} PROVE FALSE
  BY Depths
<1>1. Wrong \in SUBSET Nat
  OBVIOUS
<1> HIDE DEF Wrong
<1>2. PICK n \in Wrong : \A m \in Wrong : n <= m
  BY <1>1, Least
<1> USE DEF Wrong
<1>3. n \in Depth /\ n # 0 /\ n - 1 \in Depth /\ n \in Nat
  BY Depths
<1>4. Above(o, n) = ParentOf(Above(o, n - 1))
  BY <1>3, AboveSteps DEF Climbs
<1>5. CASE n = 1
  <2>1. Above(o, n - 1) = o /\ Above(ParentOf(o), n - 1) = ParentOf(o)
    BY <1>5, AboveSteps DEF Climbs
  <2> QED BY <1>4, <2>1
<1>6. CASE n # 1
  <2>1. n - 1 # 0 /\ (n - 1) - 1 \in Depth /\ ~ (n <= n - 1) /\ n - 1 \in Nat
    BY <1>3, <1>6, Depths
  <2>2. n - 1 \notin Wrong
    <3> HIDE DEF Wrong
    <3> QED BY <1>2, <2>1
  <2>3. Above(o, n - 1) = Above(ParentOf(o), (n - 1) - 1)
    BY <1>3, <2>1, <2>2
  <2>4. Above(ParentOf(o), n - 1) = ParentOf(Above(ParentOf(o), (n - 1) - 1))
    BY <1>3, <2>1, AboveSteps DEF Climbs
  <2> QED BY <1>4, <2>3, <2>4
<1> QED BY <1>5, <1>6

\* An organization whose walk up ends is shown, at most as deep.
LEMMA EndsShown ==
    ASSUME OrgTreeTypeOK
    PROVE  \A n \in Depth : \A o \in Existing : Above(o, n) = NoOrg =>
              \E m \in Depth : m <= n /\ o \in ShownAt[m]
<1> DEFINE Lost == {n \in Nat : n \in Depth /\ \E o \in Existing :
                       Above(o, n) = NoOrg /\ \A m \in Depth : m <= n => o \notin ShownAt[m]}
<1> SUFFICES ASSUME Lost # {} PROVE FALSE
  BY Depths
<1>1. Lost \in SUBSET Nat
  OBVIOUS
<1> HIDE DEF Lost
<1>2. PICK n \in Lost : \A m \in Lost : n <= m
  BY <1>1, Least
<1> USE DEF Lost
<1>3. n \in Depth /\ n \in Nat
  OBVIOUS
<1>4. PICK o \in Existing : Above(o, n) = NoOrg /\ \A m \in Depth : m <= n => o \notin ShownAt[m]
  BY <1>2
<1>5. o \in Orgs /\ o # NoOrg
  BY OrgTreeAssumption DEF Existing
<1>6. n # 0
  BY <1>4, <1>5, AboveSteps DEF Climbs
<1>7. ~ IsCyclic(o)
  BY <1>3, <1>4 DEF IsCyclic
<1>8. CASE org[o].parent = NoOrg
  <2>1. ShownUnder(o) = NoOrg
    BY <1>8 DEF ShownUnder
  <2>2. o \in ShownAt[0]
    BY <2>1, ShownSteps, Depths
  <2> QED BY <1>3, <1>4, <2>2, Depths
<1>9. CASE org[o].parent # NoOrg
  <2> DEFINE p == org[o].parent
  <2>1. ShownUnder(o) = p
    BY <1>7 DEF ShownUnder
  <2>2. p \in Existing
    BY <1>5, <1>9 DEF Existing, OrgTreeTypeOK, OrgRow
  <2>3. n - 1 \in Depth /\ n - 1 \in Nat /\ ~ (n <= n - 1)
    BY <1>3, <1>6, Depths
  <2>4. Above(p, n - 1) = NoOrg
    BY <1>3, <1>4, <1>5, <1>6, AboveParent DEF ParentOf
  <2>5. n - 1 \notin Lost
    <3> HIDE DEF Lost
    <3> QED BY <1>2, <2>3
  <2>6. PICK m \in Depth : m <= n - 1 /\ p \in ShownAt[m]
    BY <2>2, <2>3, <2>4, <2>5
  <2>7. m + 1 \in Depth /\ m + 1 <= n /\ m + 1 # 0 /\ (m + 1) - 1 = m
    BY <1>3, <2>6, Depths
  <2>8. o \in ShownAt[m + 1]
    BY <2>1, <2>6, <2>7, ShownSteps
  <2> QED BY <1>4, <2>7, <2>8
<1> QED BY <1>8, <1>9

\* Every organization is shown.
LEMMA AllShown ==
    ASSUME OrgTreeTypeOK
    PROVE  TreeShowsAll
<1>1. ASSUME NEW o \in Existing PROVE \E n \in Depth : o \in ShownAt[n]
  <2>1. CASE IsCyclic(o)
    <3>1. ShownUnder(o) = NoOrg
      BY <2>1 DEF ShownUnder
    <3> QED BY <3>1, ShownSteps, Depths
  <2>2. CASE ~ IsCyclic(o)
    BY <2>2, EndsShown DEF IsCyclic
  <2> QED BY <2>1, <2>2
<1>2. \A n \in Depth : ShownAt[n] \subseteq Existing
  BY ShownSteps
<1> QED BY <1>1, <1>2 DEF TreeShowsAll

\* getHierarchyTree shows every organization, those on a cycle and below one too, whatever
\* moves have raced.
THEOREM TreeIsWhole == Spec => []TreeShowsAll
<1>1. PartsInv => TreeShowsAll
  BY AllShown DEF PartsInv
<1> QED BY <1>1, PartsInvariant, PTL

\* The organizations of V are those one comes to from them.
Closed(V) == \A v \in V : org[v].parent \in V \cup {NoOrg}

\* What a move that ran alone so far has found above its new parent: not the organization
\* it moves.
OrgKnown(r) ==
    /\ \A q \in Requests \ {r} : At(q, "idle")
    /\ At(r, "read") => req[r].visited = {}
    /\ At(r, "climb") =>
          /\ req[r].parent # NoOrg /\ req[r].id \notin req[r].visited
          /\ req[r].parent \in req[r].visited \cup {req[r].current}
          /\ \A v \in req[r].visited : org[v].parent \in req[r].visited \cup {req[r].current}
    /\ At(r, "move") /\ req[r].parent # NoOrg =>
          \E V \in SUBSET Orgs : req[r].parent \in V /\ req[r].id \notin V /\ Closed(V)

OrgAloneOK ==
    /\ alone = [r \in Requests |-> alone[r]]
    /\ \A r \in Requests : alone[r] => OrgKnown(r)

OrgAloneInv == area = "organizations" => OrgAloneOK

\* A step of the organizations keeps what a move that ran alone so far has found.
LEMMA OrgAloneStep == OrgTreeOK /\ OrgAloneOK /\ OrgTreeNext => OrgAloneOK'
<1> SUFFICES ASSUME OrgTreeOK, OrgAloneOK, OrgTreeNext PROVE OrgAloneOK'
  OBVIOUS
<1>1. /\ Idle \in OrgTask /\ MoveTask \subseteq OrgTask /\ DeleteOrgTask \subseteq OrgTask
      /\ \A r \in Requests : At(r, "read") \/ At(r, "climb") \/ At(r, "move") => req[r] \in MoveTask
  BY DEF OrgTask, Doing, Idle, MoveTask, DeleteOrgTask, OrgTreeOK, At
\* A handler begins: it alone can be alone.
<1>2. ASSUME NEW r \in Requests, NEW task \in OrgTask, Begin(r, task), task.pc \in {"read", "delete"},
             task.pc = "read" => task.visited = {}
      PROVE  OrgAloneOK'
  <2>1. req'[r] = task /\ \A q \in Requests \ {r} : req'[q] = req[q]
    BY <1>2, ContinueDoing DEF OrgTreeOK
  <2>2. alone' = [q \in Requests |-> q = r /\ \A p \in Requests \ {r} : At(p, "idle")]
    BY <1>2 DEF Begin
  <2>3. \A q \in Requests : alone'[q] => q = r /\ OrgKnown(r)'
    BY <1>2, <2>1, <2>2 DEF OrgKnown, At
  <2> QED BY <2>2, <2>3 DEF OrgAloneOK
\* A handler goes on or ends; the others were idle if it was alone.
<1>3. ASSUME NEW r \in Requests, ~ At(r, "idle"), NEW task \in OrgTask,
             Continue(r, task) \/ (Finish(r) /\ task = Idle), alone[r] => OrgKnown(r)'
      PROVE  OrgAloneOK'
  <2>1. alone' = [q \in Requests |-> alone'[q]] /\ \A q \in Requests : alone'[q] => alone[q]
    BY <1>3 DEF Continue, Finish, OrgAloneOK
  <2>2. \A q \in Requests \ {r} : ~ alone[q]
    BY <1>3 DEF OrgAloneOK, OrgKnown
  <2> QED BY <1>3, <2>1, <2>2 DEF OrgAloneOK
<1>4. ASSUME NEW r \in Requests, ~ At(r, "idle"), Finish(r) PROVE OrgAloneOK'
  <2>1. req'[r] = Idle /\ \A q \in Requests \ {r} : req'[q] = req[q]
    BY <1>1, <1>4, FinishDoing DEF OrgTreeOK
  <2>2. alone[r] => OrgKnown(r)'
    BY <2>1 DEF OrgAloneOK, OrgKnown, At, Idle
  <2> QED BY <1>1, <1>3, <1>4, <2>2
<1>5. ASSUME NEW o \in Orgs, NEW p \in Orgs \cup {NoOrg}, CreateOrg(o, p) PROVE OrgAloneOK'
  BY <1>5 DEF CreateOrg, Instant, OrgAloneOK
<1>6. ASSUME NEW r \in Requests, NEW o \in Orgs, NEW p \in Orgs \cup {NoOrg}, StartMove(r, o, p)
      PROVE  OrgAloneOK'
  <2> DEFINE task == [pc |-> "read", id |-> o, parent |-> p, current |-> NoOrg, visited |-> {}]
  <2>1. task \in OrgTask /\ task.pc = "read" /\ task.visited = {}
    BY <1>1 DEF MoveTask
  <2> QED BY <1>2, <1>6, <2>1 DEF StartMove
<1>7. ASSUME NEW r \in Requests, NEW o \in Orgs, StartDeleteOrg(r, o) PROVE OrgAloneOK'
  <2>1. [pc |-> "delete", id |-> o] \in OrgTask
    BY <1>1 DEF DeleteOrgTask
  <2> QED BY <1>2, <1>7, <2>1 DEF StartDeleteOrg
<1>8. ASSUME NEW r \in Requests, FindOrg(r) PROVE OrgAloneOK'
  <2> DEFINE t == req[r]
             step == IF t.parent = NoOrg THEN "move" ELSE "climb"
             task == [t EXCEPT !.pc = step, !.current = t.parent]
  <2>1. t \in MoveTask /\ ~ At(r, "idle") /\ t.pc = "read"
    BY <1>1, <1>8 DEF FindOrg, At
  <2>2. /\ task \in OrgTask /\ task.pc = step /\ task.current = t.parent
        /\ task.parent = t.parent /\ task.id = t.id /\ task.visited = t.visited
    BY <1>1, <2>1 DEF MoveTask
  <2>3. Continue(r, task) /\ UNCHANGED org
    BY <1>8 DEF FindOrg
  <2> HIDE DEF task
  <2>4. req'[r] = task /\ \A q \in Requests \ {r} : req'[q] = req[q]
    BY <2>2, <2>3, ContinueDoing DEF OrgTreeOK
  <2>5. alone[r] => OrgKnown(r)'
    <3> SUFFICES ASSUME alone[r] PROVE OrgKnown(r)'
      OBVIOUS
    <3>1. (\A q \in Requests \ {r} : At(q, "idle")) /\ t.visited = {}
      BY <2>1 DEF OrgAloneOK, OrgKnown, At
    <3> QED BY <2>2, <2>4, <3>1 DEF OrgKnown, At
  <2> QED BY <1>3, <2>1, <2>2, <2>3, <2>5
<1>9. ASSUME NEW r \in Requests, Climb(r) PROVE OrgAloneOK'
  <2> DEFINE t == req[r]
             stop == [t EXCEPT !.pc = "move", !.current = NoOrg, !.visited = {}]
             up == [t EXCEPT !.current = org[t.current].parent, !.visited = @ \cup {t.current}]
  <2>1. t \in MoveTask /\ ~ At(r, "idle") /\ t.pc = "climb"
    BY <1>1, <1>9 DEF Climb, At
  <2>2. UNCHANGED org /\ t.current # t.id
    BY <1>9 DEF Climb
  <2>3. alone[r] => /\ \A q \in Requests \ {r} : At(q, "idle")
                    /\ t.parent # NoOrg /\ t.id \notin t.visited
                    /\ t.parent \in t.visited \cup {t.current}
                    /\ \A v \in t.visited : org[v].parent \in t.visited \cup {t.current}
    BY <2>1 DEF OrgAloneOK, OrgKnown, At
  <2>4. CASE t.current = NoOrg \/ t.current \in t.visited
    <3>1. /\ stop \in OrgTask /\ stop.pc = "move" /\ stop.parent = t.parent /\ stop.id = t.id
      BY <1>1, <2>1 DEF MoveTask
    <3>2. Continue(r, stop)
      BY <1>9, <2>4 DEF Climb
    <3> HIDE DEF stop
    <3>3. req'[r] = stop /\ \A q \in Requests \ {r} : req'[q] = req[q]
      BY <3>1, <3>2, ContinueDoing DEF OrgTreeOK
    <3>4. alone[r] => OrgKnown(r)'
      <4> SUFFICES ASSUME alone[r] PROVE OrgKnown(r)'
        OBVIOUS
      <4>1. PICK V \in SUBSET Orgs : V = t.visited
        BY <2>1 DEF MoveTask
      <4>2. t.parent \in V /\ t.id \notin V /\ Closed(V)'
        BY <2>2, <2>3, <2>4, <4>1 DEF Closed
      <4>3. \A q \in Requests \ {r} : At(q, "idle")'
        BY <2>3, <3>3 DEF At
      <4>4. \E W \in SUBSET Orgs : req'[r].parent \in W /\ req'[r].id \notin W /\ Closed(W)'
        BY <3>1, <3>3, <4>2
      <4>5. req'[r].pc = "move"
        BY <3>1, <3>3
      <4> QED BY <4>3, <4>4, <4>5 DEF OrgKnown, At
    <3> QED BY <1>3, <2>1, <3>1, <3>2, <3>4
  <2>5. CASE ~ (t.current = NoOrg \/ t.current \in t.visited)
    <3>1. t.current \in Orgs /\ org[t.current].parent \in Orgs \cup {NoOrg}
      BY <2>1, <2>5 DEF MoveTask, OrgTreeOK, OrgTreeTypeOK, OrgRow
    <3>2. /\ up \in OrgTask /\ up.pc = "climb" /\ up.parent = t.parent /\ up.id = t.id
          /\ up.current = org[t.current].parent /\ up.visited = t.visited \cup {t.current}
      BY <1>1, <2>1, <3>1 DEF MoveTask
    <3>3. Continue(r, up)
      BY <1>9, <2>5 DEF Climb
    <3> HIDE DEF up
    <3>4. req'[r] = up /\ \A q \in Requests \ {r} : req'[q] = req[q]
      BY <3>2, <3>3, ContinueDoing DEF OrgTreeOK
    <3>5. alone[r] => OrgKnown(r)'
      BY <2>2, <2>3, <3>2, <3>4 DEF OrgKnown, At
    <3> QED BY <1>3, <2>1, <3>2, <3>3, <3>5
  <2> QED BY <2>4, <2>5
<1>10. ASSUME NEW r \in Requests, Move(r) \/ DeleteOrg(r) \/ OrgAbort(r) PROVE OrgAloneOK'
  BY <1>4, <1>10 DEF Move, DeleteOrg, OrgAbort, At
<1> QED BY <1>5, <1>6, <1>7, <1>8, <1>9, <1>10 DEF OrgTreeNext

\* A walk that comes to organizations that are closed stays there.
LEMMA StaysClosed ==
    \A V : Closed(V) => \A o \in V : \A n \in Depth : Above(o, n) \in V \cup {NoOrg}
<1> TAKE V
<1> HAVE Closed(V)
<1> TAKE o \in V
<1> DEFINE Wrong == {n \in Nat : n \in Depth /\ Above(o, n) \notin V \cup {NoOrg}}
<1> SUFFICES ASSUME Wrong # {} PROVE FALSE
  BY Depths
<1>1. Wrong \in SUBSET Nat
  OBVIOUS
<1> HIDE DEF Wrong
<1>2. PICK n \in Wrong : \A m \in Wrong : n <= m
  BY <1>1, Least
<1> USE DEF Wrong
<1>3. n \in Depth /\ n \in Nat /\ n # 0
  BY <1>2, AboveSteps DEF Climbs
<1>4. n - 1 \in Depth /\ n - 1 \in Nat /\ ~ (n <= n - 1)
  BY <1>3, Depths
<1>5. n - 1 \notin Wrong
  <2> HIDE DEF Wrong
  <2> QED BY <1>2, <1>4
<1>6. Above(o, n - 1) \in V \cup {NoOrg}
  BY <1>4, <1>5
<1>7. Above(o, n) = ParentOf(Above(o, n - 1))
  BY <1>3, AboveSteps DEF Climbs
<1> QED BY <1>3, <1>6, <1>7 DEF ParentOf, Closed

\* When one organization outside V moves below V, walks from V are as they were, and the
\* others are or are in V.
LEMMA WalksAfterMove ==
    ASSUME NEW V \in SUBSET Orgs, Closed(V), Closed(Orgs), NEW i, NEW p, i \notin V, p \in V \cup {NoOrg},
           \A x \in Orgs : org'[x].parent = IF x = i THEN p ELSE org[x].parent,
           Climbs', NEW o \in Orgs
    PROVE  \A n \in Depth : Above(o, n)' # Above(o, n) => o \notin V /\ Above(o, n)' \in V \cup {NoOrg}
<1> DEFINE Kept(n) == Above(o, n)' # Above(o, n) => o \notin V /\ Above(o, n)' \in V \cup {NoOrg}
           Wrong == {n \in Nat : n \in Depth /\ ~ Kept(n)}
<1> SUFFICES ASSUME Wrong # {} PROVE FALSE
  BY Depths
<1>1. Wrong \in SUBSET Nat
  OBVIOUS
<1> HIDE DEF Wrong
<1>2. PICK n \in Wrong : \A m \in Wrong : n <= m
  BY <1>1, Least
<1> USE DEF Wrong
<1>3. n \in Depth /\ n \in Nat /\ ~ Kept(n)
  BY <1>2
<1>4. n # 0
  BY <1>3, AboveSteps DEF Climbs
<1>5. n - 1 \in Depth /\ n - 1 \in Nat /\ ~ (n <= n - 1)
  BY <1>3, <1>4, Depths
<1>6. Kept(n - 1)
  <2>1. n - 1 \notin Wrong
    <3> HIDE DEF Wrong
    <3> QED BY <1>2, <1>5
  <2> QED BY <1>5, <2>1
<1>7. PICK x : x = Above(o, n - 1)
  OBVIOUS
<1>8. PICK y : y = Above(o, n - 1)'
  OBVIOUS
<1>9. Above(o, n) = ParentOf(x) /\ x \in Orgs \cup {NoOrg} /\ (o \in V => x \in V \cup {NoOrg})
  BY <1>3, <1>4, <1>5, <1>7, AboveSteps, StaysClosed DEF Climbs
<1>10. Above(o, n)' = ParentOf(y)'
  BY <1>3, <1>4, <1>8 DEF Climbs
<1>11. y # x => o \notin V /\ y \in V \cup {NoOrg}
  BY <1>6, <1>7, <1>8
<1>12. ParentOf(y)' = IF y = NoOrg THEN NoOrg ELSE org'[y].parent
  BY DEF ParentOf
<1>13. CASE y # x
  <2>1. ParentOf(y)' \in V \cup {NoOrg}
    BY <1>11, <1>12, <1>13 DEF Closed
  <2> QED BY <1>3, <1>10, <1>11, <1>13, <2>1
<1>14. CASE y = x
  <2>1. CASE x = i /\ x # NoOrg
    <3>1. ParentOf(y)' = p /\ o \notin V
      BY <1>9, <1>12, <1>14, <2>1
    <3> QED BY <1>3, <1>10, <3>1
  <2>2. CASE x # i \/ x = NoOrg
    <3>1. ParentOf(y)' = ParentOf(x)
      BY <1>9, <1>12, <1>14, <2>2 DEF ParentOf
    <3> QED BY <1>3, <1>9, <1>10, <3>1
  <2> QED BY <2>1, <2>2
<1> QED BY <1>13, <1>14

\* A move that has found its organization nowhere above the new parent makes no cycle.
LEMMA MoveMakesNone ==
    ASSUME OrgTreeOK, NEW r \in Requests, At(r, "move"), OrgKnown(r), Move(r), Climbs'
    PROVE  OnCycle' \subseteq OnCycle
<1> DEFINE i == req[r].id
           p == req[r].parent
<1>1. req[r] \in MoveTask /\ i \in Orgs /\ p \in Orgs \cup {NoOrg}
  BY DEF OrgTreeOK, Doing, OrgTask, Idle, MoveTask, DeleteOrgTask, At
<1>2. org' = [org EXCEPT ![i].parent = p] /\ org \in [Orgs -> OrgRow]
  BY DEF Move, OrgTreeOK, OrgTreeTypeOK
<1>3. \A x \in Orgs : org'[x].parent = (IF x = i THEN p ELSE org[x].parent) /\ org'[x].life = org[x].life
  BY <1>1, <1>2 DEF OrgRow
<1>4. \E V \in SUBSET Orgs : Closed(V) /\ i \notin V /\ p \in V \cup {NoOrg}
  <2>1. CASE p = NoOrg
    <3>1. Closed({})
      BY DEF Closed
    <3> QED BY <2>1, <3>1
  <2>2. CASE p # NoOrg
    BY <2>2 DEF OrgKnown
  <2> QED BY <2>1, <2>2
<1>5. Closed(Orgs)
  BY <1>2 DEF Closed, OrgRow
<1> PICK V \in SUBSET Orgs : Closed(V) /\ i \notin V /\ p \in V \cup {NoOrg}
  BY <1>4
<1> PICK j : j = i
  OBVIOUS
<1> PICK b : b = p
  OBVIOUS
<1>6. /\ Closed(V) /\ j \notin V /\ b \in V \cup {NoOrg}
      /\ \A x \in Orgs : org'[x].parent = IF x = j THEN b ELSE org[x].parent
  BY <1>3
<1> HIDE DEF i, p
<1>7. Existing' = Existing
  BY <1>3 DEF Existing
<1> SUFFICES ASSUME NEW o \in OnCycle' PROVE o \in OnCycle
  OBVIOUS
<1>8. o \in Existing /\ o \in Orgs /\ o # NoOrg
  BY <1>7, OrgTreeAssumption DEF OnCycle, Existing
<1>9. PICK n \in Depth \ {0} : o = Above(o, n)'
  BY DEF OnCycle, Ancestors
<1>10. Above(o, n)' # Above(o, n) => o \notin V /\ Above(o, n)' \in V \cup {NoOrg}
  BY <1>5, <1>6, <1>8, WalksAfterMove
<1>11. o = Above(o, n)
  BY <1>8, <1>9, <1>10
<1> QED BY <1>8, <1>9, <1>11 DEF OnCycle, Ancestors

\* No handler of another part is at the step of a move.
LEMMA OnlyOrganizations ==
    ASSUME StaleInv, PartsInv, StockInv, area \in Areas, NEW r \in Requests, At(r, "move")
    PROVE  area = "organizations"
<1>1. area \in {"settings", "organizations", "roles", "inbox", "records", "licenses", "stock"}
  BY ConsoleAssumption
<1>2. area # "settings"
  BY DEF StaleInv, SettingsOK, Doing, SettingsTask, Idle, ReadTask, FillTask, UpdateTask, At
<1>3. area # "roles"
  BY DEF PartsInv, RolesOK, Doing, RoleTask, Idle, CreateTask, SaveTask, RemoveTask, At
<1>4. area # "inbox"
  BY DEF PartsInv, InboxOK, Doing, InboxTask, Idle, PruneTask, VictimsTask, NoteTask, StepTask,
     ClearedTask, PushTask, At
<1>5. area \notin {"records", "licenses"}
  BY DEF StaleInv, Doing, ScansTask, Idle, ScanTask, ThingTask, ClearTask, At
<1>6. area # "stock"
  BY DEF StockInv, StockOK, StockHandlers, At
<1> QED BY <1>1, <1>2, <1>3, <1>4, <1>5, <1>6

\* It holds in every state.
LEMMA OrgAloneInvariant == Spec => []OrgAloneInv
<1>1. Init => OrgAloneInv
  BY DEF Init, HandlersInit, OrgAloneInv, OrgAloneOK
<1>2. PartsInv /\ OrgAloneInv /\ [Next]_vars => OrgAloneInv'
  <2> SUFFICES ASSUME PartsInv, OrgAloneInv, [Next]_vars PROVE OrgAloneInv'
    OBVIOUS
  <2>1. CASE area = "organizations" /\ OrgTreeNext /\ UNCHANGED area
    BY <2>1, OrgAloneStep DEF PartsInv, OrgTreeOK, OrgAloneInv
  <2>2. CASE area # "organizations" /\ UNCHANGED area
    BY <2>2 DEF OrgAloneInv
  <2>3. CASE UNCHANGED vars
    BY <2>3 DEF vars, handlers, OrgAloneInv, OrgAloneOK, OrgKnown, At, Closed
  <2> QED BY <2>1, <2>2, <2>3 DEF Next
<1> QED BY <1>1, <1>2, PartsInvariant, PTL DEF Spec

\* A move that no other request overlapped makes no organization its own ancestor, whatever
\* cycles moves that raced have left (OrganizationService.updateOrganization).
THEOREM AloneMoveMakesNoCycle == Spec => AloneMakesNoCycle
<1>1. Climbs
  BY AboveSteps
<1>2. StaleInv /\ PartsInv /\ StockInv /\ OrgAloneInv /\ area \in Areas /\ Climbs'
      => [\A r \in Requests : alone[r] /\ Move(r) => OnCycle' \subseteq OnCycle]_<<org, handlers>>
  <2> SUFFICES ASSUME StaleInv, PartsInv, StockInv, OrgAloneInv, area \in Areas, Climbs',
                      NEW r \in Requests, alone[r], Move(r)
               PROVE  OnCycle' \subseteq OnCycle
    OBVIOUS
  <2>1. At(r, "move")
    BY DEF Move
  <2>2. area = "organizations"
    BY <2>1, OnlyOrganizations
  <2>3. OrgTreeOK /\ OrgKnown(r)
    BY <2>2 DEF PartsInv, OrgTreeOK, OrgAloneInv, OrgAloneOK
  <2> QED BY <2>1, <2>3, MoveMakesNone
<1> QED BY <1>1, <1>2, StaleInvariant, PartsInvariant, StockInvariant, OrgAloneInvariant,
           AreaInvariant, PTL DEF AloneMakesNoCycle
=============================================================================
