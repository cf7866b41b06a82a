--------------------------- MODULE HashtableProof ---------------------------
(***************************************************************************)
(* Proofs about Hashtable, for any number of threads, keys, values, blocks *)
(* and calls, and for every hash function.                                 *)
(***************************************************************************)
EXTENDS Hashtable, FiniteSetTheorems, TLAPS

-----------------------------------------------------------------------------
(* The lock. *)

LEMMA LockModes ==
  ASSUME NEW op \in Operation
  PROVE  LockMode(op) \in {"read", "write"}
BY DEF LockMode

LEMMA TypeOKInit == Init => TypeOK
BY HashtableAssumption DEF Init, TypeOK, Operation, Entry

LEMMA InvInit == Init => HashInv
<1>1. Init => LockInv
  BY DEF Init, LockInv
<1>2. Init => CallInv
  BY DEF Init, CallInv, Copied, KeyOf
<1>3. Init => MemoryInv
  BY DEF Init, MemoryInv, Copied, Owners, Erasing
<1>. QED BY <1>1, <1>2, <1>3, TypeOKInit DEF HashInv

LEMMA TypeOKNext ==
  ASSUME TypeOK, CallInv, [Next]_vars
  PROVE  TypeOK'
<1>. USE HashtableAssumption DEF TypeOK
<1>1. CASE UNCHANGED vars
  BY <1>1 DEF vars, Entry
<1>2. ASSUME NEW t \in Thread, NEW op \in Operation, NEW k \in Key \cup {NULL},
             NEW v \in Value, Call(t, op, k, v)
      PROVE  TypeOK'
  BY <1>2 DEF Call
<1>3. ASSUME NEW t \in Thread, Step(t)
      PROVE  TypeOK'
  <2>0. call[t] \in Operation \X (Key \cup {NULL}) \X (Value \cup {NULL})
    BY <1>3
  <2>1. CASE Acquire(t)
    <3>1. Op(t) \in Operation
      BY <2>0 DEF Op
    <3>. QED BY <2>1, <3>1, LockModes DEF Acquire
  <2>2. CASE Copy(t)
    BY <2>0, <2>2 DEF Copy, KeyOf
  <2>. DEFINE Returned == /\ lock' \in [Thread -> {"none", "read", "write"}]
                          /\ pc' \in [Thread -> {"idle", "lock", "copy", "work", "erase"}]
                          /\ DOMAIN ret' = Thread
  <2>r. ASSUME NEW result, Return(t, result)
        PROVE  Returned
    BY <2>r DEF Return
  <2>. HIDE DEF Returned
  <2>3. CASE Get(t) \/ InsertNull(t) \/ Entries(t)
    <3>1. Returned
      BY <2>3, <2>r DEF Get, InsertNull, Entries
    <3>2. UNCHANGED <<variant, table, memory, call, skey, refused, calls>>
      BY <2>3 DEF Get, InsertNull, Entries
    <3>. QED BY <3>1, <3>2 DEF Returned
  <2>4. CASE InsertNew(t)
    <3>1. NewEntry(t) \in Entry
      <4>1. skey[t] \in Block /\ KeyOf(t) \in Key /\ ValueOf(t) \in Value
        BY <1>3, <2>4 DEF InsertNew, CallInv
      <4>2. SDBMHash[KeyOf(t)] \in Nat
        BY <4>1
      <4>. QED BY <4>1, <4>2 DEF NewEntry, Entry
    <3>. QED BY <2>4, <3>1 DEF InsertNew, Return
  <2>5. CASE InsertRefused(t)
    BY <2>5 DEF InsertRefused, Return
  <2>6. CASE Update(t)
    <3>1. ASSUME NEW e \in table PROVE [e EXCEPT !.value = ValueOf(t)] \in Entry
      BY <1>3, <2>6, <3>1 DEF Update, Entry, CallInv
    <3>2. Found(KeyOf(t)) \subseteq table
      BY DEF Found
    <3>3. table' \subseteq Entry
      BY <2>6, <3>1, <3>2 DEF Update
    <3>4. Returned
      BY <2>6, <2>r DEF Update
    <3>5. UNCHANGED <<variant, memory, call, skey, refused, calls>>
      BY <2>6 DEF Update
    <3>. QED BY <3>3, <3>4, <3>5 DEF Returned
  <2>7. CASE Remove(t)
    <3>1. \A e \in Found(KeyOf(t)) : e.block \in Block
      BY DEF Found, Entry
    <3>. QED BY <2>7, <3>1 DEF Remove, Return
  <2>8. CASE Erase(t)
    BY <2>8 DEF Erase, Return
  <2>. QED BY <1>3, <2>1, <2>2, <2>3, <2>4, <2>5, <2>6, <2>7, <2>8 DEF Step
<1>. QED BY <1>1, <1>2, <1>3 DEF Next, Finished

LEMMA LockInvNext ==
  ASSUME TypeOK, CallInv, LockInv, [Next]_vars
  PROVE  LockInv'
<1>. USE DEF LockInv
<1>1. CASE UNCHANGED vars
  BY <1>1 DEF vars, Op, LockMode
<1>2. ASSUME NEW t \in Thread, NEW op \in Operation, NEW k \in Key \cup {NULL},
             NEW v \in Value, Call(t, op, k, v)
      PROVE  LockInv'
  BY <1>2 DEF Call, Op, LockMode, TypeOK
<1>3. ASSUME NEW t \in Thread, Step(t)
      PROVE  LockInv'
  <2>1. CASE Acquire(t)
    <3>1. /\ call' = call /\ variant' = variant /\ lock[t] = "none"
          /\ \A u \in Thread : lock'[u] = IF u = t THEN LockMode(Op(t)) ELSE lock[u]
          /\ \A u \in Thread \ {t} : pc'[u] = pc[u]
          /\ pc'[t] = IF variant = "lock_stl" /\ Op(t) = "Insert" THEN "copy" ELSE "work"
          /\ LockIsFree(t, LockMode(Op(t)))
      BY <1>3, <2>1 DEF Acquire, TypeOK
    <3>2. \A u, w \in Thread : u # w /\ lock'[u] = "write" => lock'[w] = "none"
      BY <3>1 DEF LockIsFree, TypeOK
    <3>. QED BY <3>1, <3>2 DEF Op, LockMode
  <2>2. CASE Copy(t)
    BY <1>3, <2>2 DEF Copy, Op, LockMode, TypeOK
  <2>3. ASSUME lock' = [lock EXCEPT ![t] = "none"], pc' = [pc EXCEPT ![t] = "idle"],
               UNCHANGED <<call, variant>>
        PROVE  LockInv'
    <3>1. /\ \A u \in Thread : lock'[u] = IF u = t THEN "none" ELSE lock[u]
          /\ \A u \in Thread : pc'[u] = IF u = t THEN "idle" ELSE pc[u]
      BY <2>3 DEF TypeOK
    <3>. QED BY <2>3, <3>1 DEF Op, LockMode
  <2>4. CASE Get(t) \/ InsertNull(t) \/ Entries(t)
    BY <2>3, <2>4 DEF Get, InsertNull, Entries, Return
  <2>5. CASE InsertNew(t) \/ InsertRefused(t) \/ Update(t) \/ Erase(t)
    BY <2>3, <2>5 DEF InsertNew, InsertRefused, Update, Erase, Return
  <2>6. CASE Remove(t)
    <3>1. CASE Return(t, NULL)
      BY <2>3, <2>6, <3>1 DEF Remove, Return
    <3>2. CASE pc' = [pc EXCEPT ![t] = "erase"] /\ UNCHANGED lock
      BY <1>3, <2>6, <3>2 DEF Remove, Op, LockMode, TypeOK
    <3>. QED BY <2>6, <3>1, <3>2 DEF Remove
  <2>. QED BY <1>3, <2>1, <2>2, <2>4, <2>5, <2>6 DEF Step
<1>. QED BY <1>1, <1>2, <1>3 DEF Next, Finished

LEMMA CallInvNext ==
  ASSUME TypeOK, LockInv, CallInv, [Next]_vars
  PROVE  CallInv'
<1>. USE DEF CallInv
<1>1. CASE UNCHANGED vars
  BY <1>1 DEF vars, Op, KeyOf, ValueOf, Copied
<1>2. ASSUME NEW t \in Thread, NEW op \in Operation, NEW k \in Key \cup {NULL},
             NEW v \in Value, Call(t, op, k, v)
      PROVE  CallInv'
  <2>1. /\ UNCHANGED <<variant, skey>> /\ skey[t] = NULL /\ pc[t] = "idle"
        /\ \A u \in Thread : call'[u] = IF u = t THEN <<op, k, v>> ELSE call[u]
        /\ \A u \in Thread \ {t} : pc'[u] = pc[u]
        /\ pc'[t] = IF variant = "tbb_scan" /\ op = "Insert" THEN "copy" ELSE "lock"
        /\ k = NULL => op \in {"Insert", "Entries"}
    BY <1>2 DEF Call, TypeOK, Copied
  <2>. QED BY <2>1 DEF Op, KeyOf, ValueOf, Copied, TypeOK
<1>3. ASSUME NEW t \in Thread, Step(t)
      PROVE  CallInv'
  <2>. USE DEF Op, KeyOf, ValueOf
  <2>1. CASE Acquire(t)
    <3>1. /\ UNCHANGED <<variant, call, skey>> /\ pc[t] = "lock"
          /\ \A u \in Thread \ {t} : pc'[u] = pc[u]
          /\ pc'[t] = IF variant = "lock_stl" /\ Op(t) = "Insert" THEN "copy" ELSE "work"
      BY <1>3, <2>1 DEF Acquire, TypeOK
    <3>2. variant \in {"lock_stl", "tbb_scan"}
      BY DEF TypeOK
    <3>3. Op(t) = "Insert" /\ variant = "lock_stl" => skey[t] = NULL
      BY <3>1 DEF Copied
    <3>. QED BY <1>3, <3>1, <3>2, <3>3 DEF Copied
  <2>2. CASE Copy(t)
    <3>1. PICK b \in Block : skey' = [skey EXCEPT ![t] = b]
      BY <2>2 DEF Copy
    <3>2. Op(t) = "Insert" /\ call[t][2] \in Key /\ b # NULL
      BY <1>3, <2>2, HashtableAssumption DEF Copy, LockInv, TypeOK
    <3>. QED BY <1>3, <2>2, <3>1, <3>2 DEF Copy, Copied, TypeOK
  <2>3. ASSUME pc' = [pc EXCEPT ![t] = "idle"], UNCHANGED <<variant, call>>,
               \/ skey' = skey /\ skey[t] = NULL
               \/ skey' = [skey EXCEPT ![t] = NULL]
        PROVE  CallInv'
    <3>1. /\ \A u \in Thread : pc'[u] = IF u = t THEN "idle" ELSE pc[u]
          /\ \A u \in Thread : skey'[u] = IF u = t THEN NULL ELSE skey[u]
      BY <2>3 DEF TypeOK
    <3>. QED BY <2>3, <3>1 DEF Copied
  <2>4. CASE Get(t) \/ Entries(t)
    <3>1. pc[t] = "work" /\ Op(t) # "Insert" /\ UNCHANGED <<variant, call, skey>>
      BY <2>4 DEF Get, Entries
    <3>2. pc' = [pc EXCEPT ![t] = "idle"]
      BY <2>4 DEF Get, Entries, Return
    <3>. QED BY <1>3, <2>3, <3>1, <3>2 DEF Copied
  <2>5. CASE InsertNull(t)
    BY <1>3, <2>3, <2>5 DEF InsertNull, Return, Copied
  <2>6. CASE InsertNew(t) \/ InsertRefused(t) \/ Erase(t)
    BY <2>3, <2>6 DEF InsertNew, InsertRefused, Erase, Return
  <2>7. CASE Update(t)
    BY <1>3, <2>3, <2>7 DEF Update, Return, Copied
  <2>8. CASE Remove(t)
    <3>1. CASE Return(t, NULL) /\ UNCHANGED skey
      BY <1>3, <2>3, <2>8, <3>1 DEF Remove, Return, Copied
    <3>2. ASSUME NEW e \in Found(KeyOf(t)), skey' = [skey EXCEPT ![t] = e.block],
                 pc' = [pc EXCEPT ![t] = "erase"]
          PROVE  CallInv'
      <4>1. e.block \in Block /\ e.block # NULL
        BY HashtableAssumption DEF Found, TypeOK, Entry
      <4>. QED BY <1>3, <2>8, <3>2, <4>1 DEF Remove, Copied, TypeOK
    <3>. QED BY <2>8, <3>1, <3>2 DEF Remove
  <2>. QED BY <1>3, <2>1, <2>2, <2>4, <2>5, <2>6, <2>7, <2>8 DEF Step
<1>. QED BY <1>1, <1>2, <1>3 DEF Next, Finished

-----------------------------------------------------------------------------
(* The memory. *)

(* A thread that holds the lock has kept any removal out.                  *)
LEMMA NoneErasing ==
  ASSUME TypeOK, LockInv, NEW t \in Thread, lock[t] # "none", pc[t] # "erase"
  PROVE  Erasing = {} /\ Owners = table
BY DEF LockInv, Erasing, Owners, TypeOK

(* And a writer is alone.                                                  *)
LEMMA WorkHoldsLock ==
  ASSUME TypeOK, LockInv, NEW t \in Thread, pc[t] = "work"
  PROVE  /\ lock[t] # "none" /\ pc[t] # "erase"
         /\ Op(t) \in {"Update", "Remove"} => lock[t] = "write"
<1>1. Op(t) \in Operation
  BY DEF TypeOK, Op
<1>. QED BY <1>1 DEF LockInv, LockMode

(* A step that touches neither the table nor the memory, and in which      *)
(* copies are at most dropped.                                             *)
LEMMA MemoryFrame ==
  ASSUME MemoryInv, UNCHANGED <<table, memory>>, Erasing' = Erasing,
         \A u \in Thread : Copied(u)' => Copied(u),
         \A u \in Thread : Copied(u)' \/ u \in Erasing =>
           skey'[u] = skey[u] /\ KeyOf(u)' = KeyOf(u)
  PROVE  MemoryInv'
<1>1. Owners' = Owners
  BY DEF Owners, Erasing
<1>2. Erasing \subseteq Thread
  BY DEF Erasing
<1>. QED BY <1>1, <1>2 DEF MemoryInv

LEMMA MemoryInvNext ==
  ASSUME TypeOK, LockInv, CallInv, MemoryInv, [Next]_vars
  PROVE  MemoryInv'
<1>1. CASE UNCHANGED vars
  BY <1>1, MemoryFrame DEF vars, KeyOf, Copied, Erasing
<1>2. ASSUME NEW t \in Thread, NEW op \in Operation, NEW k \in Key \cup {NULL},
             NEW v \in Value, Call(t, op, k, v)
      PROVE  MemoryInv'
  <2>1. /\ UNCHANGED <<table, memory, skey>> /\ pc[t] = "idle"
        /\ \A u \in Thread \ {t} : pc'[u] = pc[u] /\ call'[u] = call[u]
        /\ pc'[t] # "erase"
    BY <1>2 DEF Call, TypeOK
  <2>2. Erasing' = Erasing /\ t \notin Erasing
    BY <1>2, <2>1 DEF Erasing
  <2>3. skey[t] = NULL
    BY <2>1 DEF CallInv, Copied
  <2>4. \A u \in Thread : Copied(u)' => Copied(u) /\ u # t
    BY <2>1, <2>3 DEF Copied
  <2>. QED BY <2>1, <2>2, <2>4, MemoryFrame DEF KeyOf
<1>3. ASSUME NEW t \in Thread, Step(t)
      PROVE  MemoryInv'
  <2>1. CASE Acquire(t)
    <3>1. /\ UNCHANGED <<table, memory, skey, call>> /\ pc[t] = "lock"
          /\ \A u \in Thread \ {t} : pc'[u] = pc[u]
          /\ pc'[t] # "erase"
      BY <1>3, <2>1 DEF Acquire, TypeOK
    <3>2. Erasing' = Erasing
      BY <3>1 DEF Erasing
    <3>. QED BY <3>1, <3>2, MemoryFrame DEF KeyOf, Copied
  <2>2. CASE Copy(t)
    <3>1. PICK b \in Block : /\ memory[b] = NULL
                             /\ memory' = [memory EXCEPT ![b] = KeyOf(t)]
                             /\ skey' = [skey EXCEPT ![t] = b]
      BY <2>2 DEF Copy
    <3>2. /\ UNCHANGED <<table, call>> /\ pc[t] = "copy" /\ pc'[t] # "erase"
          /\ \A u \in Thread \ {t} : pc'[u] = pc[u] /\ skey'[u] = skey[u]
          /\ skey'[t] = b
          /\ \A c \in Block : memory'[c] = IF c = b THEN KeyOf(t) ELSE memory[c]
      BY <1>3, <2>2, <3>1 DEF Copy, TypeOK
    <3>3. Erasing' = Erasing /\ t \notin Erasing
      BY <1>3, <3>2 DEF Erasing
    <3>4. Owners' = Owners
      BY <3>2, <3>3 DEF Owners, Erasing
    <3>5. \A e \in Owners : e.block \in Block /\ e.block # b /\ memory'[e.block] = memory[e.block]
      <4>1. NULL \notin Key
        BY HashtableAssumption
      <4>. QED BY <3>1, <3>2, <4>1 DEF MemoryInv, Owners, TypeOK, Entry
    <3>6. \A u \in Thread \ {t} : Copied(u) =>
             skey[u] \in Block /\ skey[u] # b /\ memory'[skey[u]] = memory[skey[u]]
      <4>1. NULL \notin Key
        BY HashtableAssumption
      <4>2. \A u \in Thread : Copied(u) => skey[u] \in Block /\ memory[skey[u]] \in Key
        BY DEF TypeOK, CallInv, MemoryInv, Copied
      <4>. QED BY <3>1, <3>2, <4>1, <4>2
    <3>7. \A u \in Thread : u # t /\ Copied(u)' => Copied(u)
      BY <3>2 DEF Copied
    <3>8. KeyOf(t)' = KeyOf(t) /\ \A u \in Thread : KeyOf(u)' = KeyOf(u)
      BY <3>2 DEF KeyOf
    <3>. QED BY <3>1, <3>2, <3>3, <3>4, <3>5, <3>6, <3>7, <3>8 DEF MemoryInv, Erasing
  <2>3. ASSUME pc' = [pc EXCEPT ![t] = "idle"], UNCHANGED <<table, memory, call>>,
               pc[t] # "erase",
               (skey' = skey /\ ~ Copied(t)) \/ skey' = [skey EXCEPT ![t] = NULL]
        PROVE  MemoryInv'
    <3>1. /\ \A u \in Thread \ {t} : pc'[u] = pc[u] /\ skey'[u] = skey[u]
          /\ pc'[t] = "idle"
          /\ skey'[t] = NULL \/ (skey'[t] = skey[t] /\ ~ Copied(t))
      <4>1. pc \in [Thread -> {"idle", "lock", "copy", "work", "erase"}]
            /\ skey \in [Thread -> Block \cup {NULL}]
        BY DEF TypeOK
      <4>2. CASE skey' = skey /\ ~ Copied(t)
        BY <1>3, <2>3, <4>1, <4>2
      <4>3. CASE skey' = [skey EXCEPT ![t] = NULL]
        BY <1>3, <2>3, <4>1, <4>3
      <4>. QED BY <2>3, <4>2, <4>3
    <3>2. Erasing' = Erasing /\ t \notin Erasing
      BY <1>3, <2>3, <3>1 DEF Erasing
    <3>3. \A u \in Thread : Copied(u)' => Copied(u) /\ u # t
      BY <2>3, <3>1 DEF Copied
    <3>. QED BY <2>3, <3>1, <3>2, <3>3, MemoryFrame DEF KeyOf
  <2>4. CASE Get(t) \/ Entries(t)
    <3>1. /\ pc[t] = "work" /\ Op(t) # "Insert"
          /\ UNCHANGED <<table, memory, call, skey>>
      BY <2>4 DEF Get, Entries
    <3>2. pc' = [pc EXCEPT ![t] = "idle"]
      BY <2>4 DEF Get, Entries, Return
    <3>. QED BY <1>3, <2>3, <3>1, <3>2 DEF CallInv
  <2>5. CASE InsertNull(t)
    BY <1>3, <2>3, <2>5 DEF InsertNull, Return, CallInv
  <2>6. CASE InsertRefused(t)
    BY <1>3, <2>3, <2>6 DEF InsertRefused, Return
  <2>7. CASE InsertNew(t)
    <3>1. /\ pc[t] = "work" /\ Op(t) = "Insert" /\ Found(KeyOf(t)) = {}
          /\ table' = table \cup {NewEntry(t)}
          /\ UNCHANGED <<memory, call>>
          /\ pc'[t] = "idle" /\ skey'[t] = NULL
          /\ \A u \in Thread \ {t} : pc'[u] = pc[u] /\ skey'[u] = skey[u]
      BY <1>3, <2>7 DEF InsertNew, Return, TypeOK
    <3>2. Erasing = {} /\ Owners = table
      BY <1>3, <3>1, WorkHoldsLock, NoneErasing
    <3>3. Erasing' = {} /\ Owners' = table'
      BY <3>1, <3>2 DEF Erasing, Owners
    <3>4. Copied(t) /\ memory[skey[t]] = KeyOf(t) /\ KeyOf(t) \in Key
      BY <1>3, <3>1 DEF Copied, CallInv, MemoryInv
    <3>5. /\ NewEntry(t).block = skey[t] /\ NewEntry(t).hash = SDBMHash[KeyOf(t)]
          /\ memory'[NewEntry(t).block] = KeyOf(t)
      BY <3>1, <3>4 DEF NewEntry
    <3>6. \A e \in table : e.block # skey[t] /\ memory[e.block] # KeyOf(t)
      BY <1>3, <3>1, <3>2, <3>4 DEF MemoryInv, Found, Equal
    <3>7. \A u \in Thread : Copied(u)' => Copied(u) /\ u # t
      BY <3>1 DEF Copied
    <3>8. \A u \in Thread : KeyOf(u)' = KeyOf(u)
      BY <3>1 DEF KeyOf
    <3>9. \A u \in Thread : Copied(u)' =>
             memory'[skey'[u]] = KeyOf(u)' /\ \A e \in table' : e.block # skey'[u]
      BY <1>3, <3>1, <3>2, <3>4, <3>5, <3>7, <3>8 DEF MemoryInv
    <3>. QED
      BY <1>3, <3>1, <3>2, <3>3, <3>4, <3>5, <3>6, <3>7, <3>9 DEF MemoryInv
  <2>8. CASE Update(t)
    <3>1. /\ pc[t] = "work" /\ Op(t) = "Update"
          /\ UNCHANGED <<memory, call, skey>>
          /\ pc' = [pc EXCEPT ![t] = "idle"]
      BY <2>8 DEF Update, Return
    <3>2. CASE table' = table
      BY <1>3, <2>3, <3>1, <3>2 DEF CallInv
    <3>3. ASSUME NEW e \in Found(KeyOf(t)),
                 table' = (table \ {e}) \cup {[e EXCEPT !.value = ValueOf(t)]}
          PROVE  MemoryInv'
      <4>1. Erasing = {} /\ Owners = table
        BY <1>3, <3>1, WorkHoldsLock, NoneErasing
      <4>2. /\ \A u \in Thread \ {t} : pc'[u] = pc[u]
            /\ pc'[t] = "idle"
        BY <1>3, <3>1 DEF TypeOK
      <4>3. Erasing' = {} /\ Owners' = table'
        BY <4>1, <4>2 DEF Erasing, Owners
      <4>4. e \in table /\ e \in Entry
        BY DEF Found, TypeOK
      <4>5. /\ [e EXCEPT !.value = ValueOf(t)].block = e.block
            /\ [e EXCEPT !.value = ValueOf(t)].hash = e.hash
        BY <4>4 DEF Entry
      <4>6. \A d \in table' : \E c \in table :
              c.block = d.block /\ c.hash = d.hash
              /\ (c # e => d = c) /\ (c = e => d = [e EXCEPT !.value = ValueOf(t)])
        BY <3>3, <4>4, <4>5
      <4>7. \A u \in Thread : Copied(u)' => Copied(u) /\ KeyOf(u)' = KeyOf(u)
        BY <3>1, <4>2 DEF Copied, KeyOf, CallInv
      <4>8. \A c, d \in table' :
              c.block = d.block \/ memory[c.block] = memory[d.block] => c = d
        BY <4>1, <4>6 DEF MemoryInv
      <4>9. \A d \in table' : memory[d.block] \in Key /\ d.hash = SDBMHash[memory[d.block]]
        BY <4>1, <4>6 DEF MemoryInv
      <4>10. \A u \in Thread : Copied(u) => \A d \in table' : d.block # skey[u]
        BY <4>1, <4>6 DEF MemoryInv
      <4>. QED BY <3>1, <4>1, <4>3, <4>7, <4>8, <4>9, <4>10 DEF MemoryInv
    <3>. QED BY <2>8, <3>2, <3>3 DEF Update
  <2>9. CASE Remove(t)
    <3>1. pc[t] = "work" /\ Op(t) = "Remove" /\ UNCHANGED <<table, call>> /\ ~ Copied(t)
      BY <1>3, <2>9 DEF Remove, CallInv
    <3>2. CASE Return(t, NULL) /\ UNCHANGED <<memory, skey>>
      BY <1>3, <2>3, <3>1, <3>2 DEF Return
    <3>3. ASSUME NEW e \in Found(KeyOf(t)),
                 memory' = [memory EXCEPT ![e.block] = NULL],
                 skey' = [skey EXCEPT ![t] = e.block],
                 pc' = [pc EXCEPT ![t] = "erase"]
          PROVE  MemoryInv'
      <4>1. Erasing = {} /\ Owners = table
        BY <1>3, <3>1, WorkHoldsLock, NoneErasing
      <4>2. /\ \A u \in Thread \ {t} : pc'[u] = pc[u] /\ skey'[u] = skey[u]
            /\ pc'[t] = "erase" /\ skey'[t] = e.block
        BY <1>3, <3>3 DEF TypeOK
      <4>3. Erasing' = {t}
        BY <1>3, <4>1, <4>2 DEF Erasing
      <4>4. e \in table /\ e.block \in Block /\ memory[e.block] = KeyOf(t)
        BY DEF Found, Equal, TypeOK, Entry
      <4>5. Owners' = table \ {e}
        BY <3>1, <4>1, <4>2, <4>3, <4>4 DEF Owners, MemoryInv
      <4>6. \A d \in table \ {e} : d.block # e.block /\ memory'[d.block] = memory[d.block]
        BY <3>3, <4>4 DEF MemoryInv, TypeOK, Entry
      <4>7. \A u \in Thread : Copied(u)' => Copied(u) /\ u # t
        BY <4>2 DEF Copied
      <4>8. \A u \in Thread : Copied(u)' =>
               /\ skey'[u] = skey[u] /\ skey[u] \in Block
               /\ memory'[skey[u]] = memory[skey[u]]
        <5>1. \A u \in Thread : Copied(u) => skey[u] \in Block /\ skey[u] # e.block
          BY <4>1, <4>4 DEF Copied, MemoryInv, TypeOK
        <5>. QED BY <3>3, <4>2, <4>7, <5>1 DEF TypeOK
      <4>9. \A u \in Thread : KeyOf(u)' = KeyOf(u)
        BY <3>1 DEF KeyOf
      <4>10. \A d \in table \ {e} : memory[d.block] # KeyOf(t)
        BY <4>1, <4>4 DEF MemoryInv
      <4>. QED
        BY <1>3, <3>1, <4>1, <4>2, <4>3, <4>4, <4>5, <4>6, <4>7, <4>8, <4>9, <4>10
           DEF MemoryInv
    <3>. QED BY <2>9, <3>2, <3>3 DEF Remove
  <2>10. CASE Erase(t)
    <3>1. PICK e \in table : e.block = skey[t] /\ table' = table \ {e}
      BY <2>10 DEF Erase
    <3>2. /\ pc[t] = "erase" /\ UNCHANGED <<memory, call>>
          /\ pc'[t] = "idle" /\ skey'[t] = NULL
          /\ \A u \in Thread \ {t} : pc'[u] = pc[u] /\ skey'[u] = skey[u]
      BY <1>3, <2>10 DEF Erase, Return, TypeOK
    <3>3. Erasing = {t}
      BY <1>3, <3>2 DEF Erasing, LockInv
    <3>4. Owners = table \ {e}
      BY <3>1, <3>3 DEF Owners, MemoryInv
    <3>5. Erasing' = {} /\ Owners' = table'
      BY <3>2, <3>3 DEF Erasing, Owners
    <3>6. \A u \in Thread : Copied(u)' => Copied(u) /\ u # t
      BY <3>2 DEF Copied
    <3>. QED BY <3>1, <3>2, <3>4, <3>5, <3>6 DEF MemoryInv, KeyOf
  <2>. QED
    BY <1>3, <2>1, <2>2, <2>4, <2>5, <2>6, <2>7, <2>8, <2>9, <2>10 DEF Step
<1>. QED BY <1>1, <1>2, <1>3 DEF Next, Finished

-----------------------------------------------------------------------------
(* The results. *)

(* Each block is free or has one owner whose key it holds, at every step.  *)
THEOREM HashtableInvariance == Spec => []HashInv
<1>1. HashInv /\ [Next]_vars => HashInv'
  BY TypeOKNext, LockInvNext, CallInvNext, MemoryInvNext DEF HashInv
<1>. QED BY <1>1, InvInit, PTL DEF Spec

(* The variables keep their types, whatever the threads call.              *)
THEOREM HashtableTypeCorrect == Spec => []TypeOK
BY HashtableInvariance, PTL DEF HashInv

(* No comparison reads a key copy that was freed.                          *)
THEOREM LiveKeysCorrect == Spec => []WorkSeesLiveKeys
<1>1. HashInv => WorkSeesLiveKeys
  <2>. SUFFICES ASSUME HashInv, NEW t \in Thread, pc[t] = "work"
                PROVE  /\ table = Owners
                       /\ \A e \in table :
                            memory[e.block] # NULL /\ SDBMHash[memory[e.block]] = e.hash
    BY DEF WorkSeesLiveKeys
  <2>1. table = Owners
    BY WorkHoldsLock, NoneErasing DEF HashInv
  <2>. QED BY <2>1, HashtableAssumption DEF HashInv, MemoryInv
<1>. QED BY <1>1, HashtableInvariance, PTL

(* No key is in the table twice, and no two entries share a copy.          *)
THEOREM OneEntryCorrect == Spec => []OneEntryPerKey
<1>1. HashInv => OneEntryPerKey
  BY DEF HashInv, MemoryInv, OneEntryPerKey, Owners
<1>. QED BY <1>1, HashtableInvariance, PTL

-----------------------------------------------------------------------------
(* The key copies. *)

InUse == {b \in Block : memory[b] # NULL}
Holders == {t \in Thread \ Erasing : skey[t] # NULL}

LEMMA HoldersCopied == Holders = {t \in Thread : Copied(t)}
BY DEF Holders, Erasing, Copied

(* There are no more entries and copies than blocks.                       *)
LEMMA CopiesFinite ==
  ASSUME HashInv
  PROVE  IsFiniteSet(InUse) /\ IsFiniteSet(Owners) /\ IsFiniteSet(Holders)
<1>1. IsFiniteSet(Block)
  BY HashtableAssumption
<1>2. IsFiniteSet(InUse)
  BY <1>1, FS_Subset DEF InUse
<1>3. IsFiniteSet(Owners)
  <2>. DEFINE f == [e \in Owners |-> e.block]
  <2>1. f \in Injection(Owners, Block)
    BY DEF Injection, IsInjective, HashInv, MemoryInv, TypeOK, Entry, Owners
  <2>. QED BY <1>1, <2>1, FS_Injection
<1>4. IsFiniteSet(Holders)
  <2>. DEFINE f == [t \in Holders |-> skey[t]]
  <2>1. f \in [Holders -> Block]
    BY DEF Holders, HashInv, TypeOK
  <2>2. \A t, u \in Holders : f[t] = f[u] => t = u
    BY HoldersCopied DEF HashInv, MemoryInv
  <2>3. f \in Injection(Holders, Block)
    BY <2>1, <2>2 DEF Injection, IsInjective
  <2>. QED BY <1>1, <2>3, FS_Injection
<1>. QED BY <1>2, <1>3, <1>4

LEMMA KeyCopiesInit == Init => KeyCopiesAccountedFor
<1>. SUFFICES ASSUME Init PROVE KeyCopiesAccountedFor
  OBVIOUS
<1>1. InUse = {} /\ Owners = {} /\ Holders = {} /\ refused = 0
  BY DEF Init, InUse, Owners, Holders
<1>. QED BY <1>1, FS_EmptySet DEF KeyCopiesAccountedFor, InUse, Holders

(* A step that changes neither the blocks in use nor their owners.         *)
LEMMA KeyCopiesFrame ==
  ASSUME KeyCopiesAccountedFor, UNCHANGED <<table, memory, refused>>,
         \A t \in Thread : skey'[t] = skey[t] /\ (pc'[t] = "erase" <=> pc[t] = "erase")
  PROVE  KeyCopiesAccountedFor'
<1>1. Erasing' = Erasing
  BY DEF Erasing
<1>2. Owners' = Owners
  BY <1>1 DEF Owners, Erasing
<1>3. {t \in Thread \ Erasing : skey[t] # NULL}' = {t \in Thread \ Erasing : skey[t] # NULL}
  BY <1>1
<1>. QED BY <1>2, <1>3 DEF KeyCopiesAccountedFor

(* A copy is made, becomes an entry's, is left behind or is freed, and the *)
(* two sides of the account change by the same number.                     *)
LEMMA KeyCopiesNext ==
  ASSUME HashInv, KeyCopiesAccountedFor, [Next]_vars
  PROVE  KeyCopiesAccountedFor'
<1>. USE DEF InUse, Holders
<1>0. /\ IsFiniteSet(InUse) /\ IsFiniteSet(Owners) /\ IsFiniteSet(Holders)
      /\ Cardinality(InUse) \in Nat /\ Cardinality(Owners) \in Nat
      /\ Cardinality(Holders) \in Nat /\ refused \in Nat
      /\ Cardinality(InUse) = Cardinality(Owners) + refused + Cardinality(Holders)
  BY CopiesFinite, FS_CardinalityType DEF HashInv, TypeOK, KeyCopiesAccountedFor
<1>k. ASSUME Cardinality(InUse') = Cardinality(Owners') + refused' + Cardinality(Holders')
      PROVE  KeyCopiesAccountedFor'
  BY <1>k DEF KeyCopiesAccountedFor
<1>. HIDE DEF InUse, Holders
<1>1. CASE UNCHANGED vars
  BY <1>1, KeyCopiesFrame DEF vars
<1>2. ASSUME NEW t \in Thread, NEW op \in Operation, NEW k \in Key \cup {NULL},
             NEW v \in Value, Call(t, op, k, v)
      PROVE  KeyCopiesAccountedFor'
  <2>1. /\ UNCHANGED <<table, memory, refused, skey>>
        /\ \A u \in Thread : pc'[u] = "erase" <=> pc[u] = "erase"
    BY <1>2 DEF Call, HashInv, TypeOK
  <2>. QED BY <2>1, KeyCopiesFrame
<1>3. ASSUME NEW t \in Thread, Step(t)
      PROVE  KeyCopiesAccountedFor'
  <2>0. /\ HashInv /\ TypeOK /\ LockInv /\ CallInv /\ MemoryInv /\ NULL \notin Key
        /\ pc \in [Thread -> {"idle", "lock", "copy", "work", "erase"}]
        /\ skey \in [Thread -> Block \cup {NULL}]
        /\ \A u \in Thread : u \in Holders <=> Copied(u)
    BY HashtableAssumption, HoldersCopied DEF HashInv, TypeOK
  <2>1. CASE Acquire(t)
    <3>1. /\ UNCHANGED <<table, memory, refused, skey>>
          /\ \A u \in Thread : pc'[u] = "erase" <=> pc[u] = "erase"
      BY <1>3, <2>0, <2>1 DEF Acquire
    <3>. QED BY <3>1, KeyCopiesFrame
  <2>2. ASSUME UNCHANGED <<table, memory, refused>>,
               pc' = [pc EXCEPT ![t] = "idle"], pc[t] # "erase",
               skey' = skey
        PROVE  KeyCopiesAccountedFor'
    <3>1. \A u \in Thread : pc'[u] = "erase" <=> pc[u] = "erase"
      BY <2>0, <2>2
    <3>. QED BY <2>2, <3>1, KeyCopiesFrame
  <2>3. CASE Get(t) \/ InsertNull(t) \/ Entries(t)
    BY <2>2, <2>3 DEF Get, InsertNull, Entries, Return
  <2>4. CASE Copy(t)
    <3>1. PICK b \in Block : /\ memory[b] = NULL
                             /\ memory' = [memory EXCEPT ![b] = KeyOf(t)]
                             /\ skey' = [skey EXCEPT ![t] = b]
      BY <2>4 DEF Copy
    <3>2. /\ UNCHANGED <<table, refused>> /\ pc[t] = "copy" /\ KeyOf(t) # NULL
          /\ pc'[t] # "erase" /\ \A u \in Thread \ {t} : pc'[u] = pc[u]
      BY <1>3, <2>0, <2>4 DEF Copy
    <3>3. Erasing' = Erasing
      BY <1>3, <3>2 DEF Erasing
    <3>4. b # NULL /\ \A u \in Thread : skey'[u] = IF u = t THEN b ELSE skey[u]
      BY <1>3, <2>0, <3>1, HashtableAssumption
    <3>5. Owners' = Owners
      BY <1>3, <3>2, <3>3, <3>4 DEF Owners, Erasing
    <3>6. InUse' = InUse \cup {b} /\ b \notin InUse
      BY <2>0, <3>1, <3>2 DEF InUse, TypeOK
    <3>7. Holders' = Holders \cup {t} /\ t \notin Holders
      <4>1. t \notin Holders
        BY <1>3, <2>0, <3>2 DEF CallInv
      <4>. QED BY <1>3, <3>2, <3>3, <3>4, <4>1 DEF Holders, Erasing
    <3>8. Cardinality(InUse') = Cardinality(InUse) + 1
      BY <1>0, <3>6, FS_AddElement
    <3>9. Cardinality(Holders') = Cardinality(Holders) + 1
      BY <1>0, <3>7, FS_AddElement
    <3>. QED BY <1>0, <1>k, <3>2, <3>5, <3>8, <3>9
  <2>5. ASSUME UNCHANGED memory, pc' = [pc EXCEPT ![t] = "idle"], pc[t] = "work",
               skey' = [skey EXCEPT ![t] = NULL], Op(t) = "Insert"
        PROVE  /\ InUse' = InUse
               /\ Erasing' = Erasing
               /\ Cardinality(Holders') = Cardinality(Holders) - 1
    <3>1. /\ \A u \in Thread : pc'[u] = IF u = t THEN "idle" ELSE pc[u]
          /\ \A u \in Thread : skey'[u] = IF u = t THEN NULL ELSE skey[u]
      BY <2>0, <2>5
    <3>2. Erasing' = Erasing
      BY <1>3, <2>5, <3>1 DEF Erasing
    <3>3. t \in Holders
      BY <1>3, <2>0, <2>5 DEF CallInv, Copied
    <3>4. Holders' = Holders \ {t}
      BY <1>3, <3>1, <3>2 DEF Holders
    <3>5. Cardinality(Holders') = Cardinality(Holders) - 1
      BY <1>0, <3>3, <3>4, FS_RemoveElement
    <3>. QED BY <2>5, <3>2, <3>5 DEF InUse
  <2>6. CASE InsertRefused(t)
    <3>1. /\ UNCHANGED <<table, memory>> /\ refused' = refused + 1
          /\ pc' = [pc EXCEPT ![t] = "idle"] /\ pc[t] = "work" /\ Op(t) = "Insert"
          /\ skey' = [skey EXCEPT ![t] = NULL]
      BY <2>6 DEF InsertRefused, Return
    <3>2. /\ InUse' = InUse /\ Erasing' = Erasing
          /\ Cardinality(Holders') = Cardinality(Holders) - 1
      BY <2>5, <3>1
    <3>3. Owners' = Owners
      <4>1. Owners = table /\ Erasing = {}
        BY <1>3, <2>0, <3>1, WorkHoldsLock, NoneErasing
      <4>. QED BY <3>1, <3>2, <4>1 DEF Owners
    <3>. QED BY <1>0, <1>k, <3>1, <3>2, <3>3
  <2>7. CASE InsertNew(t)
    <3>1. /\ UNCHANGED <<memory, refused>> /\ Found(KeyOf(t)) = {}
          /\ table' = table \cup {NewEntry(t)}
          /\ pc' = [pc EXCEPT ![t] = "idle"] /\ pc[t] = "work" /\ Op(t) = "Insert"
          /\ skey' = [skey EXCEPT ![t] = NULL]
      BY <2>7 DEF InsertNew, Return
    <3>2. /\ InUse' = InUse /\ Erasing' = Erasing
          /\ Cardinality(Holders') = Cardinality(Holders) - 1
      BY <2>5, <3>1
    <3>3. Owners = table /\ Erasing = {}
      BY <1>3, <2>0, <3>1, WorkHoldsLock, NoneErasing
    <3>4. Owners' = Owners \cup {NewEntry(t)}
      BY <3>1, <3>2, <3>3 DEF Owners
    <3>5. NewEntry(t) \notin Owners
      <4>1. NewEntry(t).block = skey[t]
        BY DEF NewEntry
      <4>2. Copied(t)
        BY <1>3, <2>0, <3>1 DEF CallInv, Copied
      <4>. QED BY <1>3, <2>0, <4>1, <4>2 DEF MemoryInv
    <3>6. Cardinality(Owners') = Cardinality(Owners) + 1
      BY <1>0, <3>4, <3>5, FS_AddElement
    <3>. QED BY <1>0, <1>k, <3>1, <3>2, <3>6
  <2>8. CASE Update(t)
    <3>1. /\ pc[t] = "work" /\ Op(t) = "Update"
          /\ UNCHANGED <<memory, skey, refused>>
          /\ pc' = [pc EXCEPT ![t] = "idle"]
      BY <2>8 DEF Update, Return
    <3>2. CASE table' = table
      BY <2>2, <3>1, <3>2
    <3>3. ASSUME NEW e \in Found(KeyOf(t)),
                 table' = (table \ {e}) \cup {[e EXCEPT !.value = ValueOf(t)]}
          PROVE  KeyCopiesAccountedFor'
      <4>. DEFINE new == [e EXCEPT !.value = ValueOf(t)]
      <4>1. Owners = table /\ Erasing = {}
        BY <1>3, <2>0, <3>1, WorkHoldsLock, NoneErasing
      <4>2. Erasing' = {}
        BY <1>3, <2>0, <3>1, <4>1 DEF Erasing
      <4>3. e \in table /\ new.block = e.block
        BY <2>0 DEF Found, TypeOK, Entry
      <4>. HIDE DEF new
      <4>4. Owners' = (Owners \ {e}) \cup {new}
        BY <3>3, <4>1, <4>2 DEF Owners, new
      <4>5. new \notin Owners \ {e}
        BY <2>0, <4>1, <4>3 DEF MemoryInv
      <4>6. /\ IsFiniteSet(Owners \ {e})
            /\ Cardinality(Owners \ {e}) = Cardinality(Owners) - 1
        BY <1>0, <4>1, <4>3, FS_RemoveElement
      <4>7. Cardinality(Owners') = Cardinality(Owners)
        <5>1. Cardinality((Owners \ {e}) \cup {new}) = Cardinality(Owners \ {e}) + 1
          BY <4>5, <4>6, FS_AddElement
        <5>. QED BY <1>0, <4>4, <4>6, <5>1
      <4>8. InUse' = InUse /\ Holders' = Holders
        BY <3>1, <4>1, <4>2 DEF InUse, Holders
      <4>. QED BY <1>0, <1>k, <3>1, <4>7, <4>8
    <3>. QED BY <2>8, <3>2, <3>3 DEF Update
  <2>9. CASE Remove(t)
    <3>1. /\ pc[t] = "work" /\ Op(t) = "Remove" /\ UNCHANGED <<table, refused>>
          /\ ~ Copied(t)
      BY <1>3, <2>0, <2>9 DEF Remove, CallInv
    <3>2. CASE Return(t, NULL) /\ UNCHANGED <<memory, skey>>
      BY <2>2, <3>1, <3>2 DEF Return
    <3>3. ASSUME NEW e \in Found(KeyOf(t)),
                 memory' = [memory EXCEPT ![e.block] = NULL],
                 skey' = [skey EXCEPT ![t] = e.block],
                 pc' = [pc EXCEPT ![t] = "erase"]
          PROVE  KeyCopiesAccountedFor'
      <4>1. Owners = table /\ Erasing = {}
        BY <1>3, <2>0, <3>1, WorkHoldsLock, NoneErasing
      <4>2. /\ \A u \in Thread \ {t} : pc'[u] = pc[u] /\ skey'[u] = skey[u]
            /\ pc'[t] = "erase" /\ skey'[t] = e.block
        BY <1>3, <2>0, <3>3
      <4>3. Erasing' = {t}
        BY <1>3, <4>1, <4>2 DEF Erasing
      <4>4. e \in table /\ e.block \in Block /\ memory[e.block] \in Key
        <5>1. e \in table
          BY DEF Found
        <5>. QED BY <2>0, <4>1, <5>1 DEF MemoryInv, TypeOK, Entry
      <4>5. Owners' = Owners \ {e}
        BY <2>0, <3>1, <4>1, <4>2, <4>3, <4>4 DEF Owners, MemoryInv
      <4>6. InUse' = InUse \ {e.block} /\ e.block \in InUse
        BY <2>0, <3>3, <4>4 DEF InUse, TypeOK
      <4>7. Holders' = Holders
        <5>1. t \notin Holders
          BY <1>3, <2>0, <3>1
        <5>2. \A u \in Thread : u \in Holders' <=> u \in Holders
          BY <4>1, <4>2, <4>3, <5>1 DEF Holders
        <5>. QED BY <5>2 DEF Holders
      <4>8. /\ Cardinality(Owners') = Cardinality(Owners) - 1
            /\ Cardinality(InUse') = Cardinality(InUse) - 1
        BY <1>0, <4>1, <4>4, <4>5, <4>6, FS_RemoveElement
      <4>. QED BY <1>0, <1>k, <3>1, <4>7, <4>8
    <3>. QED BY <2>9, <3>2, <3>3 DEF Remove
  <2>10. CASE Erase(t)
    <3>1. PICK e \in table : e.block = skey[t] /\ table' = table \ {e}
      BY <2>10 DEF Erase
    <3>2. /\ pc[t] = "erase" /\ UNCHANGED <<memory, refused>>
          /\ pc'[t] = "idle" /\ skey'[t] = NULL
          /\ \A u \in Thread \ {t} : pc'[u] = pc[u] /\ skey'[u] = skey[u]
      BY <1>3, <2>0, <2>10 DEF Erase, Return
    <3>3. Erasing = {t} /\ Erasing' = {}
      BY <1>3, <2>0, <3>2 DEF Erasing, LockInv
    <3>4. Owners' = Owners
      BY <2>0, <3>1, <3>3 DEF Owners, MemoryInv
    <3>5. Holders' = Holders
      <4>1. \A u \in Thread : u \in Holders' <=> u \in Holders
        BY <3>2, <3>3 DEF Holders
      <4>. QED BY <4>1 DEF Holders
    <3>. QED BY <1>0, <1>k, <3>2, <3>4, <3>5 DEF InUse
  <2>. QED
    BY <1>3, <2>1, <2>3, <2>4, <2>6, <2>7, <2>8, <2>9, <2>10 DEF Step
<1>. QED BY <1>1, <1>2, <1>3 DEF Next, Finished

(* No copy is freed twice or lost, but one for each refused Insert.        *)
THEOREM KeyCopiesCorrect == Spec => []KeyCopiesAccountedFor
<1>1. HashInv /\ KeyCopiesAccountedFor /\ [Next]_vars => KeyCopiesAccountedFor'
  BY KeyCopiesNext
<1>. QED BY <1>1, KeyCopiesInit, HashtableInvariance, PTL DEF Spec

-----------------------------------------------------------------------------
(* The tables are atomic maps. *)

Map ==
  [k \in {EntryKey(e) : e \in table} |->
     (CHOOSE e \in table : EntryKey(e) = k).value]

Lookup(k) == IF k \in DOMAIN Map THEN Map[k] ELSE NULL

(* What the map takes an entry for.                                        *)
KeysMapped ==
  /\ DOMAIN Map = {EntryKey(e) : e \in table}
  /\ Map = [k \in DOMAIN Map |-> Map[k]]
  /\ \A e \in table : EntryKey(e) \in Key /\ Map[EntryKey(e)] = e.value
  /\ \A d, e \in table : EntryKey(d) = EntryKey(e) => d = e
  /\ \A e \in Owners : EntryKey(e) = memory[e.block]
  /\ \A t \in Erasing, e \in table : e.block = skey[t] => EntryKey(e) = KeyOf(t)

LEMMA HashInvMapsKeys == HashInv => KeysMapped
<1>. SUFFICES ASSUME HashInv PROVE KeysMapped
  OBVIOUS
<1>0. TypeOK /\ LockInv /\ CallInv /\ MemoryInv /\ Erasing \subseteq Thread
  BY DEF HashInv, Erasing
<1>1. \A e \in Owners : EntryKey(e) = memory[e.block] /\ memory[e.block] \in Key
  BY <1>0 DEF EntryKey, Owners, MemoryInv
<1>2. ASSUME NEW t \in Erasing, NEW e \in table, e.block = skey[t]
      PROVE  EntryKey(e) = KeyOf(t) /\ KeyOf(t) \in Key
  <2>1. Erasing = {t}
    BY <1>0 DEF LockInv, Erasing
  <2>2. (CHOOSE u \in Erasing : skey[u] = e.block) = t
    BY <1>2, <2>1
  <2>3. t \in Thread /\ pc[t] = "erase"
    BY DEF Erasing
  <2>. QED BY <1>0, <1>2, <2>2, <2>3 DEF EntryKey, CallInv
<1>3. ASSUME NEW e \in table, e \notin Owners
      PROVE  \E t \in Erasing : skey[t] = e.block
  BY <1>3 DEF Owners
<1>4. \A e \in table : EntryKey(e) \in Key
  BY <1>1, <1>2, <1>3
<1>5. ASSUME NEW d \in table, NEW e \in table, EntryKey(d) = EntryKey(e)
      PROVE  d = e
  <2>1. CASE d \in Owners /\ e \in Owners
    BY <1>0, <1>1, <1>5, <2>1 DEF MemoryInv
  <2>2. CASE d \notin Owners /\ e \notin Owners
    <3>1. \A t, u \in Erasing : t = u
      BY <1>0 DEF LockInv, Erasing
    <3>2. d.block = e.block
      BY <1>3, <2>2, <3>1
    <3>. QED BY <1>0, <3>2 DEF MemoryInv
  <2>3. ASSUME NEW a \in Owners, NEW b \in table, b \notin Owners
        PROVE  EntryKey(a) # EntryKey(b)
    <3>1. PICK t \in Erasing : skey[t] = b.block
      BY <1>3, <2>3
    <3>2. EntryKey(b) = KeyOf(t)
      BY <1>2, <3>1
    <3>. QED BY <1>0, <1>1, <3>2 DEF MemoryInv
  <2>. QED BY <1>5, <2>1, <2>2, <2>3
<1>6. DOMAIN Map = {EntryKey(e) : e \in table} /\ Map = [k \in DOMAIN Map |-> Map[k]]
  BY DEF Map
<1>7. ASSUME NEW e \in table
      PROVE  Map[EntryKey(e)] = e.value
  <2>. DEFINE k == EntryKey(e)
              c == CHOOSE d \in table : EntryKey(d) = k
  <2>1. c \in table /\ EntryKey(c) = k
    OBVIOUS
  <2>2. c = e
    BY <1>5, <2>1
  <2>3. Map[k] = c.value
    BY DEF Map
  <2>. QED BY <2>2, <2>3
<1>. QED BY <1>1, <1>2, <1>4, <1>5, <1>6, <1>7 DEF KeysMapped

(* What each operation of the abstract map is in terms of Map.             *)
LEMMA AbstractStutter ==
  ASSUME Map' = Map, ret' = ret
  PROVE  UNCHANGED CMap!vars
BY DEF CMap!vars, Map

LEMMA AbstractInit == Init => CMap!Init
<1>. SUFFICES ASSUME Init PROVE CMap!Init
  OBVIOUS
<1>1. table = {} /\ ret = [t \in Thread |-> <<"None", NULL>>]
  BY DEF Init
<1>2. {EntryKey(e) : e \in table} = {}
  BY <1>1
<1>. QED BY <1>1, <1>2 DEF CMap!Init

LEMMA AbstractGet ==
  ASSUME NEW t \in Thread, NEW k \in Key,
         ret' = [ret EXCEPT ![t] = <<"Get", Lookup(k)>>], Map' = Map
  PROVE  CMap!Next
<1>1. CMap!Get(t, k)
  BY DEF CMap!Get, CMap!Return, CMap!Lookup, Lookup, Map
<1>. QED BY <1>1 DEF CMap!Next

LEMMA AbstractInsert ==
  ASSUME NEW t \in Thread, NEW k \in Key, NEW v \in Value,
         k \notin DOMAIN Map, ret' = [ret EXCEPT ![t] = <<"Insert", TRUE>>],
         Map' = [x \in DOMAIN Map \cup {k} |-> IF x = k THEN v ELSE Map[x]]
  PROVE  CMap!Next
<1>1. CMap!Insert(t, k, v)
  BY DEF CMap!Insert, CMap!Return, Map
<1>. QED BY <1>1 DEF CMap!Next

LEMMA AbstractInsertRefused ==
  ASSUME NEW t \in Thread, NEW k \in Key \cup {NULL}, NEW v \in Value,
         k \notin Key \ DOMAIN Map, ret' = [ret EXCEPT ![t] = <<"Insert", FALSE>>],
         Map' = Map
  PROVE  CMap!Next
<1>1. CMap!Insert(t, k, v)
  BY DEF CMap!Insert, CMap!Return, Map
<1>. QED BY <1>1 DEF CMap!Next

LEMMA AbstractUpdate ==
  ASSUME NEW t \in Thread, NEW k \in Key, NEW v \in Value,
         ret' = [ret EXCEPT ![t] = <<"Update", Lookup(k)>>],
         Map' = [x \in DOMAIN Map |-> IF x = k THEN v ELSE Map[x]]
  PROVE  CMap!Next
<1>1. CMap!Update(t, k, v)
  BY DEF CMap!Update, CMap!Return, CMap!Lookup, Lookup, Map
<1>. QED BY <1>1 DEF CMap!Next

LEMMA AbstractRemove ==
  ASSUME NEW t \in Thread, NEW k \in Key,
         ret' = [ret EXCEPT ![t] = <<"Remove", Lookup(k)>>],
         Map' = [x \in DOMAIN Map \ {k} |-> Map[x]]
  PROVE  CMap!Next
<1>1. CMap!Remove(t, k)
  BY DEF CMap!Remove, CMap!Return, CMap!Lookup, Lookup, Map
<1>. QED BY <1>1 DEF CMap!Next

LEMMA AbstractEntries ==
  ASSUME NEW t \in Thread, NEW present \in SUBSET DOMAIN Map,
         ret' = [ret EXCEPT ![t] = <<"Entries", {<<k, Map[k]>> : k \in present}>>],
         Map' = Map
  PROVE  CMap!Next
<1>1. CMap!Entries(t)
  BY DEF CMap!Entries, CMap!Return, Map
<1>. QED BY <1>1 DEF CMap!Next

(* A step that leaves the entries and their keys alone.                    *)
LEMMA SameMap ==
  ASSUME KeysMapped, KeysMapped', table' = table,
         \A e \in table : EntryKey(e)' = EntryKey(e)
  PROVE  Map' = Map
<1>1. DOMAIN Map' = DOMAIN Map
  BY DEF KeysMapped
<1>2. \A k \in DOMAIN Map : Map'[k] = Map[k]
  BY DEF KeysMapped
<1>. QED BY <1>1, <1>2 DEF KeysMapped

(* A thread at work sees the map as it is.                                 *)
LEMMA WorkFinds ==
  ASSUME HashInv, KeysMapped, NEW t \in Thread, pc[t] = "work", NEW k \in Key
  PROVE  /\ Erasing = {} /\ Owners = table
         /\ \A e \in table : e \in Found(k) <=> EntryKey(e) = k
         /\ \A e \in Found(k) : e \in table /\ Lookup(k) = e.value
         /\ Found(k) = {} <=> k \notin DOMAIN Map
         /\ Found(k) = {} => Lookup(k) = NULL
<1>1. Erasing = {} /\ Owners = table
  BY WorkHoldsLock, NoneErasing DEF HashInv
<1>2. \A e \in table : e \in Found(k) <=> EntryKey(e) = k
  BY <1>1 DEF HashInv, MemoryInv, KeysMapped, Found, Equal
<1>3. Found(k) \subseteq table
  BY DEF Found
<1>4. \A e \in Found(k) : e \in table /\ Lookup(k) = e.value
  BY <1>2, <1>3 DEF KeysMapped, Lookup
<1>5. Found(k) = {} <=> k \notin DOMAIN Map
  BY <1>2, <1>3 DEF KeysMapped
<1>. QED BY <1>1, <1>2, <1>4, <1>5 DEF Lookup

(* Each call has its effect at one of its steps, and all others leave the  *)
(* map alone: also a removal, which takes the key's copy out of the memory *)
(* before the entry out of the table.                                      *)
LEMMA MapNext ==
  ASSUME HashInv, KeysMapped, KeysMapped', [Next]_vars
  PROVE  [CMap!Next]_(CMap!vars)
<1>0. /\ TypeOK /\ LockInv /\ CallInv /\ MemoryInv
      /\ pc \in [Thread -> {"idle", "lock", "copy", "work", "erase"}]
      /\ skey \in [Thread -> Block \cup {NULL}]
      /\ call \in [Thread -> Operation \X (Key \cup {NULL}) \X (Value \cup {NULL})]
      /\ NULL \notin Key
  BY HashtableAssumption DEF HashInv, TypeOK
<1>1. ASSUME Map' = Map, ret' = ret
      PROVE  [CMap!Next]_(CMap!vars)
  BY <1>1, AbstractStutter
<1>2. ASSUME UNCHANGED <<table, memory, skey>>, Erasing' = Erasing,
             \A t \in Erasing : KeyOf(t)' = KeyOf(t)
      PROVE  Map' = Map
  <2>1. \A e \in table : EntryKey(e)' = EntryKey(e)
    <3>. SUFFICES ASSUME NEW e \in table PROVE EntryKey(e)' = EntryKey(e)
      OBVIOUS
    <3>1. CASE e \in Owners
      <4>1. e \in Owners'
        BY <1>2, <3>1 DEF Owners, Erasing
      <4>. QED BY <1>2, <3>1, <4>1 DEF KeysMapped
    <3>2. CASE e \notin Owners
      <4>1. PICK t \in Erasing : skey[t] = e.block
        BY <3>2 DEF Owners
      <4>2. t \in Erasing' /\ skey'[t] = e.block /\ KeyOf(t)' = KeyOf(t)
        BY <1>2, <4>1
      <4>. QED BY <1>2, <4>1, <4>2 DEF KeysMapped
    <3>. QED BY <3>1, <3>2
  <2>. QED BY <1>2, <2>1, SameMap
<1>3. CASE UNCHANGED vars
  <2>1. Erasing' = Erasing /\ \A t \in Erasing : KeyOf(t)' = KeyOf(t)
    BY <1>3 DEF vars, Erasing, KeyOf
  <2>. QED BY <1>1, <1>2, <1>3, <2>1 DEF vars
<1>4. ASSUME NEW t \in Thread, NEW op \in Operation, NEW k \in Key \cup {NULL},
             NEW v \in Value, Call(t, op, k, v)
      PROVE  [CMap!Next]_(CMap!vars)
  <2>1. /\ UNCHANGED <<table, memory, skey, ret>> /\ pc[t] = "idle"
        /\ \A u \in Thread \ {t} : pc'[u] = pc[u] /\ call'[u] = call[u]
        /\ pc'[t] # "erase"
    BY <1>0, <1>4 DEF Call
  <2>2. Erasing' = Erasing /\ \A u \in Erasing : KeyOf(u)' = KeyOf(u)
    BY <1>4, <2>1 DEF Erasing, KeyOf
  <2>. QED BY <1>1, <1>2, <2>1, <2>2
<1>5. ASSUME NEW t \in Thread, Step(t)
      PROVE  [CMap!Next]_(CMap!vars)
  <2>1. CASE Acquire(t)
    <3>1. /\ UNCHANGED <<table, memory, skey, call, ret>> /\ pc[t] = "lock"
          /\ \A u \in Thread \ {t} : pc'[u] = pc[u]
          /\ pc'[t] # "erase"
      BY <1>0, <1>5, <2>1 DEF Acquire
    <3>2. Erasing' = Erasing /\ \A u \in Erasing : KeyOf(u)' = KeyOf(u)
      BY <1>5, <3>1 DEF Erasing, KeyOf
    <3>. QED BY <1>1, <1>2, <3>1, <3>2
  <2>2. CASE Copy(t)
    <3>1. PICK b \in Block : /\ memory[b] = NULL
                             /\ memory' = [memory EXCEPT ![b] = KeyOf(t)]
                             /\ skey' = [skey EXCEPT ![t] = b]
      BY <2>2 DEF Copy
    <3>2. /\ UNCHANGED <<table, call, ret>> /\ pc[t] = "copy" /\ pc'[t] # "erase"
          /\ \A u \in Thread \ {t} : pc'[u] = pc[u] /\ skey'[u] = skey[u]
      BY <1>0, <1>5, <2>2, <3>1 DEF Copy
    <3>3. Erasing' = Erasing /\ t \notin Erasing
      BY <1>5, <3>2 DEF Erasing
    <3>4. \A u \in Erasing : u \in Thread /\ u # t
      BY <3>3 DEF Erasing
    <3>5. \A e \in table : EntryKey(e)' = EntryKey(e)
      <4>. SUFFICES ASSUME NEW e \in table PROVE EntryKey(e)' = EntryKey(e)
        OBVIOUS
      <4>1. CASE e \in Owners
        <5>1. e \in Owners'
          BY <3>2, <3>3, <3>4, <4>1 DEF Owners
        <5>2. e.block \in Block /\ e.block # b
          BY <1>0, <3>1, <4>1 DEF MemoryInv, TypeOK, Entry
        <5>3. memory'[e.block] = memory[e.block]
          BY <1>0, <3>1, <5>2 DEF TypeOK
        <5>. QED BY <4>1, <5>1, <5>3 DEF KeysMapped
      <4>2. CASE e \notin Owners
        <5>1. PICK u \in Erasing : skey[u] = e.block
          BY <4>2 DEF Owners
        <5>2. u \in Erasing' /\ skey'[u] = e.block /\ KeyOf(u)' = KeyOf(u)
          BY <3>2, <3>3, <3>4, <5>1 DEF KeyOf
        <5>3. e \in table'
          BY <3>2
        <5>. QED BY <5>1, <5>2, <5>3 DEF KeysMapped
      <4>. QED BY <4>1, <4>2
    <3>. QED BY <1>1, <3>2, <3>5, SameMap
  <2>3. ASSUME UNCHANGED <<table, memory, call>>, pc' = [pc EXCEPT ![t] = "idle"],
               skey' = skey \/ skey' = [skey EXCEPT ![t] = NULL],
               pc[t] = "work"
        PROVE  Map' = Map
    <3>1. Erasing = {} /\ Owners = table
      BY <1>0, <1>5, <2>3, WorkHoldsLock, NoneErasing
    <3>2. Erasing' = {}
      BY <1>0, <1>5, <2>3, <3>1 DEF Erasing
    <3>3. Owners' = Owners
      BY <2>3, <3>1, <3>2 DEF Owners
    <3>4. \A e \in table : EntryKey(e)' = EntryKey(e)
      BY <2>3, <3>1, <3>3 DEF KeysMapped
    <3>. QED BY <2>3, <3>4, SameMap
  <2>4. CASE Get(t)
    <3>1. pc[t] = "work" /\ Op(t) = "Get" /\ UNCHANGED <<table, memory, call, skey>>
      BY <2>4 DEF Get
    <3>2. KeyOf(t) \in Key
      BY <1>0, <1>5, <3>1 DEF CallInv
    <3>3. Return(t, Lookup(KeyOf(t)))
      BY <1>5, <2>4, <3>1, <3>2, WorkFinds DEF Get
    <3>4. Map' = Map
      BY <2>3, <3>1, <3>3 DEF Return
    <3>. QED BY <1>5, <3>1, <3>2, <3>3, <3>4, AbstractGet DEF Return
  <2>5. CASE InsertNull(t)
    <3>1. /\ pc[t] = "copy" /\ KeyOf(t) = NULL /\ Return(t, FALSE)
          /\ UNCHANGED <<table, memory, call, skey>>
      BY <2>5 DEF InsertNull
    <3>2. Op(t) = "Insert" /\ ValueOf(t) \in Value
      BY <1>0, <1>5, <3>1 DEF LockInv, CallInv
    <3>3. Erasing' = Erasing /\ \A u \in Erasing : KeyOf(u)' = KeyOf(u)
      <4>1. \A u \in Thread : pc'[u] = "erase" <=> pc[u] = "erase"
        BY <1>0, <1>5, <3>1 DEF Return
      <4>. QED BY <3>1, <4>1 DEF Erasing, KeyOf
    <3>4. Map' = Map
      BY <1>2, <3>1, <3>3
    <3>5. NULL \in Key \cup {NULL} /\ NULL \notin Key \ DOMAIN Map
      BY <1>0
    <3>. QED BY <1>5, <3>1, <3>2, <3>4, <3>5, AbstractInsertRefused DEF Return
  <2>6. CASE InsertRefused(t)
    <3>1. /\ pc[t] = "work" /\ Op(t) = "Insert" /\ Return(t, FALSE)
          /\ Found(KeyOf(t)) # {}
          /\ UNCHANGED <<table, memory, call>> /\ skey' = [skey EXCEPT ![t] = NULL]
      BY <2>6 DEF InsertRefused
    <3>2. KeyOf(t) \in Key /\ ValueOf(t) \in Value
      BY <1>0, <1>5, <3>1 DEF CallInv
    <3>3. KeyOf(t) \in DOMAIN Map
      BY <1>5, <3>1, <3>2, WorkFinds
    <3>4. Map' = Map
      BY <2>3, <3>1 DEF Return
    <3>. QED BY <1>5, <3>1, <3>2, <3>3, <3>4, AbstractInsertRefused DEF Return
  <2>7. CASE InsertNew(t)
    <3>1. /\ pc[t] = "work" /\ Op(t) = "Insert" /\ Found(KeyOf(t)) = {}
          /\ table' = table \cup {NewEntry(t)}
          /\ UNCHANGED <<memory, call>> /\ Return(t, TRUE)
      BY <2>7 DEF InsertNew
    <3>2. /\ KeyOf(t) \in Key /\ ValueOf(t) \in Value
          /\ Copied(t) /\ memory[skey[t]] = KeyOf(t)
      BY <1>0, <1>5, <3>1 DEF CallInv, Copied, MemoryInv
    <3>3. Erasing = {} /\ Owners = table /\ KeyOf(t) \notin DOMAIN Map
      BY <1>5, <3>1, <3>2, WorkFinds
    <3>4. Erasing' = {} /\ Owners' = table'
      <4>1. Erasing' = {}
        BY <1>0, <1>5, <3>1, <3>3 DEF Erasing, Return
      <4>. QED BY <4>1 DEF Owners
    <3>5. \A e \in table : e \in table' /\ EntryKey(e)' = EntryKey(e)
      BY <3>1, <3>3, <3>4 DEF KeysMapped
    <3>6. PICK n : n = NewEntry(t)
      OBVIOUS
    <3>7. n \in table' /\ n.block = skey[t] /\ n.value = ValueOf(t)
          /\ table' = table \cup {n}
      BY <3>1, <3>6 DEF NewEntry
    <3>8. \A e \in table' : EntryKey(e)' = IF e = n THEN KeyOf(t) ELSE EntryKey(e)
      <4>1. EntryKey(n)' = KeyOf(t)
        BY <3>1, <3>2, <3>4, <3>7 DEF KeysMapped
      <4>. QED BY <3>5, <3>7, <4>1
    <3>9. \A e \in table : e # n
      BY <3>3, <3>8, <3>5, <3>7 DEF KeysMapped
    <3>10. DOMAIN Map' = DOMAIN Map \cup {KeyOf(t)}
      BY <3>5, <3>7, <3>8, <3>9 DEF KeysMapped
    <3>11. \A x \in DOMAIN Map' :
             Map'[x] = IF x = KeyOf(t) THEN ValueOf(t) ELSE Map[x]
      <4>1. Map'[KeyOf(t)] = ValueOf(t)
        BY <3>7, <3>8 DEF KeysMapped
      <4>2. ASSUME NEW x \in DOMAIN Map PROVE Map'[x] = Map[x]
        <5>1. PICK e \in table : x = EntryKey(e)
          BY <4>2 DEF KeysMapped
        <5>2. Map[x] = e.value /\ Map'[EntryKey(e)'] = e.value
          BY <3>5, <5>1 DEF KeysMapped
        <5>. QED BY <3>5, <5>1, <5>2
      <4>. QED BY <3>3, <3>10, <4>1, <4>2
    <3>12. Map' = [x \in DOMAIN Map \cup {KeyOf(t)} |->
                     IF x = KeyOf(t) THEN ValueOf(t) ELSE Map[x]]
      <4>1. Map' = [x \in DOMAIN Map' |-> Map'[x]]
        BY DEF KeysMapped
      <4>. QED BY <3>10, <3>11, <4>1
    <3>13. ret' = [ret EXCEPT ![t] = <<"Insert", TRUE>>]
      BY <3>1 DEF Return
    <3>. QED BY <1>5, <3>2, <3>3, <3>12, <3>13, AbstractInsert
  <2>8. CASE Update(t)
    <3>1. /\ pc[t] = "work" /\ Op(t) = "Update" /\ UNCHANGED <<memory, call, skey>>
      BY <2>8 DEF Update
    <3>2. KeyOf(t) \in Key /\ ValueOf(t) \in Value
      BY <1>0, <1>5, <3>1 DEF CallInv
    <3>3. Return(t, Lookup(KeyOf(t)))
      BY <1>5, <2>8, <3>1, <3>2, WorkFinds DEF Update
    <3>4. ret' = [ret EXCEPT ![t] = <<"Update", Lookup(KeyOf(t))>>]
      BY <3>1, <3>3 DEF Return
    <3>5. Map' = [x \in DOMAIN Map |-> IF x = KeyOf(t) THEN ValueOf(t) ELSE Map[x]]
      <4>1. CASE Found(KeyOf(t)) = {} /\ UNCHANGED table
        <5>1. Map' = Map
          BY <2>3, <3>1, <3>3, <4>1 DEF Return
        <5>2. KeyOf(t) \notin DOMAIN Map
          BY <1>5, <3>1, <3>2, <4>1, WorkFinds
        <5>3. Map = [x \in DOMAIN Map |-> Map[x]]
          BY DEF KeysMapped
        <5>. QED BY <5>1, <5>2, <5>3
      <4>2. ASSUME NEW e \in Found(KeyOf(t)),
                   table' = (table \ {e}) \cup {[e EXCEPT !.value = ValueOf(t)]}
            PROVE  Map' = [x \in DOMAIN Map |->
                             IF x = KeyOf(t) THEN ValueOf(t) ELSE Map[x]]
        <5>0. PICK n : n = [e EXCEPT !.value = ValueOf(t)]
          OBVIOUS
        <5>1. /\ Erasing = {} /\ Owners = table
              /\ e \in table /\ EntryKey(e) = KeyOf(t)
          BY <1>5, <3>1, <3>2, WorkFinds
        <5>2. n.block = e.block /\ n.value = ValueOf(t)
          BY <1>0, <5>0, <5>1 DEF TypeOK, Entry
        <5>3. table' = (table \ {e}) \cup {n}
          BY <4>2, <5>0
        <5>4. Erasing' = {} /\ Owners' = table'
          <6>1. Erasing' = {}
            BY <1>0, <1>5, <3>1, <3>3, <5>1 DEF Erasing, Return
          <6>. QED BY <6>1 DEF Owners
        <5>5. n \in table' /\ EntryKey(n)' = KeyOf(t)
          BY <3>1, <5>1, <5>2, <5>3, <5>4 DEF KeysMapped
        <5>6. \A d \in table \ {e} : d \in table' /\ EntryKey(d)' = EntryKey(d)
          BY <3>1, <5>1, <5>3, <5>4 DEF KeysMapped
        <5>7. DOMAIN Map' = DOMAIN Map
          <6>1. \A k : k \in DOMAIN Map' <=> k \in DOMAIN Map
            BY <5>1, <5>3, <5>5, <5>6 DEF KeysMapped
          <6>. QED BY <6>1
        <5>8. Map'[KeyOf(t)] = ValueOf(t)
          BY <5>2, <5>5 DEF KeysMapped
        <5>9. ASSUME NEW x \in DOMAIN Map, x # KeyOf(t) PROVE Map'[x] = Map[x]
          <6>1. PICK d \in table : x = EntryKey(d)
            BY <5>9 DEF KeysMapped
          <6>2. d # e /\ Map[x] = d.value
            BY <5>1, <5>9, <6>1 DEF KeysMapped
          <6>3. Map'[EntryKey(d)'] = d.value
            BY <5>6, <6>2 DEF KeysMapped
          <6>. QED BY <5>6, <6>1, <6>2, <6>3
        <5>10. Map' = [x \in DOMAIN Map' |-> Map'[x]]
          BY DEF KeysMapped
        <5>. QED BY <5>7, <5>8, <5>9, <5>10
      <4>. QED BY <2>8, <4>1, <4>2 DEF Update
    <3>. QED BY <1>5, <3>2, <3>4, <3>5, AbstractUpdate
  <2>9. CASE Remove(t)
    <3>1. pc[t] = "work" /\ Op(t) = "Remove" /\ UNCHANGED <<table, call>>
      BY <2>9 DEF Remove
    <3>2. KeyOf(t) \in Key
      BY <1>0, <1>5, <3>1 DEF CallInv
    <3>3. CASE Found(KeyOf(t)) = {} /\ Return(t, NULL) /\ UNCHANGED <<memory, skey>>
      <4>1. Lookup(KeyOf(t)) = NULL /\ KeyOf(t) \notin DOMAIN Map
        BY <1>5, <3>1, <3>2, <3>3, WorkFinds
      <4>2. Map' = Map
        BY <2>3, <3>1, <3>3 DEF Return
      <4>3. Map = [x \in DOMAIN Map |-> Map[x]]
        BY DEF KeysMapped
      <4>4. Map' = [x \in DOMAIN Map \ {KeyOf(t)} |-> Map[x]]
        BY <4>1, <4>2, <4>3
      <4>5. ret' = [ret EXCEPT ![t] = <<"Remove", Lookup(KeyOf(t))>>]
        BY <3>1, <3>3, <4>1 DEF Return
      <4>. QED BY <1>5, <3>2, <4>4, <4>5, AbstractRemove
    <3>4. ASSUME NEW e \in Found(KeyOf(t)),
                 memory' = [memory EXCEPT ![e.block] = NULL],
                 skey' = [skey EXCEPT ![t] = e.block],
                 pc' = [pc EXCEPT ![t] = "erase"], ret' = ret
          PROVE  [CMap!Next]_(CMap!vars)
      <4>1. /\ Erasing = {} /\ Owners = table
            /\ e \in table /\ EntryKey(e) = KeyOf(t)
        BY <1>5, <3>1, <3>2, WorkFinds
      <4>2. /\ \A u \in Thread \ {t} : pc'[u] = pc[u]
            /\ pc'[t] = "erase" /\ skey'[t] = e.block
        BY <1>0, <1>5, <3>4
      <4>3. Erasing' = {t}
        BY <1>5, <4>1, <4>2 DEF Erasing
      <4>4. KeyOf(t)' = KeyOf(t)
        BY <3>1 DEF KeyOf
      <4>5. EntryKey(e)' = EntryKey(e)
        BY <3>1, <4>1, <4>2, <4>3, <4>4 DEF KeysMapped
      <4>6. ASSUME NEW d \in table, d # e PROVE EntryKey(d)' = EntryKey(d)
        <5>1. d.block # e.block /\ d.block \in Block
          BY <1>0, <4>1, <4>6 DEF MemoryInv, TypeOK, Entry
        <5>2. memory'[d.block] = memory[d.block]
          BY <1>0, <3>4, <5>1 DEF TypeOK
        <5>3. d \in Owners'
          BY <3>1, <4>2, <4>3, <5>1 DEF Owners
        <5>. QED BY <4>1, <5>2, <5>3 DEF KeysMapped
      <4>7. Map' = Map
        BY <3>1, <4>5, <4>6, SameMap
      <4>. QED BY <1>1, <3>4, <4>7
    <3>. QED BY <2>9, <3>3, <3>4 DEF Remove
  <2>10. CASE Erase(t)
    <3>1. PICK e \in table : /\ e.block = skey[t] /\ table' = table \ {e}
                             /\ Return(t, e.value)
      BY <2>10 DEF Erase
    <3>2. /\ pc[t] = "erase" /\ UNCHANGED <<memory, call>>
          /\ pc'[t] = "idle" /\ \A u \in Thread \ {t} : pc'[u] = pc[u]
      BY <1>0, <1>5, <2>10 DEF Erase, Return
    <3>3. Erasing = {t} /\ Erasing' = {}
      BY <1>0, <1>5, <3>2 DEF Erasing, LockInv
    <3>4. Owners = table \ {e} /\ Owners' = table'
      BY <1>0, <3>1, <3>3 DEF Owners, MemoryInv
    <3>5. /\ EntryKey(e) = KeyOf(t) /\ Op(t) = "Remove" /\ KeyOf(t) \in Key
      BY <1>0, <1>5, <3>1, <3>2, <3>3 DEF KeysMapped, LockInv
    <3>6. \A d \in table' : d \in table /\ d # e /\ EntryKey(d)' = EntryKey(d)
      BY <3>1, <3>2, <3>4 DEF KeysMapped
    <3>7. \A d \in table : d # e => d \in table'
      BY <3>1
    <3>8. KeyOf(t) \in DOMAIN Map /\ Map[KeyOf(t)] = e.value
      BY <3>5 DEF KeysMapped
    <3>9. DOMAIN Map' = DOMAIN Map \ {KeyOf(t)}
      <4>1. \A k : k \in DOMAIN Map' <=> k \in DOMAIN Map /\ k # KeyOf(t)
        BY <3>5, <3>6, <3>7 DEF KeysMapped
      <4>. QED BY <4>1
    <3>10. ASSUME NEW x \in DOMAIN Map' PROVE Map'[x] = Map[x]
      <4>1. PICK d \in table' : x = EntryKey(d)'
        BY <3>10 DEF KeysMapped
      <4>2. Map'[x] = d.value
        BY <4>1 DEF KeysMapped
      <4>3. Map[EntryKey(d)] = d.value
        BY <3>6 DEF KeysMapped
      <4>. QED BY <3>6, <4>1, <4>2, <4>3
    <3>11. Map' = [x \in DOMAIN Map \ {KeyOf(t)} |-> Map[x]]
      <4>1. Map' = [x \in DOMAIN Map' |-> Map'[x]]
        BY DEF KeysMapped
      <4>. QED BY <3>9, <3>10, <4>1
    <3>12. ret' = [ret EXCEPT ![t] = <<"Remove", Lookup(KeyOf(t))>>]
      BY <3>1, <3>5, <3>8 DEF Return, Lookup
    <3>. QED BY <1>5, <3>5, <3>11, <3>12, AbstractRemove
  <2>11. CASE Entries(t)
    <3>1. /\ pc[t] = "work" /\ Op(t) = "Entries"
          /\ UNCHANGED <<table, memory, call, skey>>
      BY <2>11 DEF Entries
    <3>2. PICK found \in SUBSET table :
            Return(t, {<<memory[e.block], e.value>> : e \in found})
      BY <2>11 DEF Entries
    <3>. DEFINE present == {EntryKey(e) : e \in found}
    <3>3. Owners = table
      BY <1>0, <1>5, <3>1, WorkHoldsLock, NoneErasing
    <3>4. \A e \in found : /\ EntryKey(e) = memory[e.block]
                           /\ Map[EntryKey(e)] = e.value
      BY <3>3 DEF KeysMapped
    <3>5. present \in SUBSET DOMAIN Map
      BY DEF KeysMapped
    <3>6. {<<memory[e.block], e.value>> : e \in found} = {<<k, Map[k]>> : k \in present}
      BY <3>4
    <3>7. ret' = [ret EXCEPT ![t] = <<"Entries", {<<k, Map[k]>> : k \in present}>>]
      BY <3>1, <3>2, <3>6 DEF Return
    <3>8. Map' = Map
      BY <2>3, <3>1, <3>2 DEF Return
    <3>. HIDE DEF present
    <3>. QED BY <1>5, <3>5, <3>7, <3>8, AbstractEntries
  <2>. QED
    BY <1>5, <2>1, <2>2, <2>4, <2>5, <2>6, <2>7, <2>8, <2>9, <2>10, <2>11 DEF Step
<1>6. CASE Finished
  BY <1>3, <1>6 DEF Finished
<1>. QED BY <1>3, <1>4, <1>5, <1>6 DEF Next

(* Whatever the interleaving, both tables behave like a map whose          *)
(* operations take effect one at a time.                                   *)
THEOREM AtomicMapCorrect == Spec => IsConcurrentMap
<1>1. HashInv /\ HashInv' /\ [Next]_vars => [CMap!Next]_(CMap!vars)
  <2>1. HashInv' => KeysMapped'
    BY HashInvMapsKeys, PTL
  <2>. QED BY <2>1, HashInvMapsKeys, MapNext
<1>. QED
  BY <1>1, AbstractInit, HashtableInvariance, PTL DEF Spec, IsConcurrentMap, CMap!Spec

=============================================================================
