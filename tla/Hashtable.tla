------------------------------ MODULE Hashtable ------------------------------
(***************************************************************************)
(* The hash tables of lib/: lock_stl_hashtable.h, which is the table of    *)
(* stl_hashtable.h under a mutex, and tbb_scan_hashtable.h, a concurrent   *)
(* table under a reader-writer lock.  Both own a copy of every key, made   *)
(* with lib/string.h in a block from lib/mem_alloc.h, and free it by hand. *)
(*                                                                         *)
(* A call is the steps that other threads can tell apart: the copy of a    *)
(* key, taking the lock, the work, and for Remove the two halves of it.    *)
(* The lock is released with the last step.                                *)
(***************************************************************************)
EXTENDS Naturals, FiniteSets

CONSTANTS
  Thread,
  Key,        \* strings that are keys
  Value,
  NULL,       \* both the null pointer and the value that is returned for it
  Block,      \* what Malloc can return
  SDBMHash,   \* the hash of each key
  MaxEntries, \* bound: the largest n of Entries
  MaxCalls    \* bound: the number of calls

ASSUME HashtableAssumption ==
  /\ NULL \notin Key \cup Value \cup Block
  /\ SDBMHash \in [Key -> Nat]
  /\ MaxEntries \in Nat
  /\ MaxCalls \in Nat
  /\ IsFiniteSet(Block) /\ Cardinality(Block) >= MaxCalls

Operation == {"Get", "Insert", "Update", "Remove", "Entries"}

VARIABLES
  variant,  \* which of the two tables; it does not change
  table,    \* its entries: the key copy's block, the hash, and the value
  memory,   \* what a block holds: a key, or NULL while it is free
  lock,     \* "none", "read" or "write" for each thread
  pc, call, \* where a thread is, and the operation, key and value it has
  skey,     \* the block of the copy of an Insert
  ret,      \* the last operation of a thread and its result
  refused,  \* the number of Inserts that made a copy in vain
  calls     \* the number of calls so far

vars == <<variant, table, memory, lock, pc, call, skey, ret, refused, calls>>

Entry == [block : Block, hash : Nat, value : Value]

Init ==
  /\ variant \in {"lock_stl", "tbb_scan"}
  /\ table = {}
  /\ memory = [b \in Block |-> NULL]
  /\ lock = [t \in Thread |-> "none"]
  /\ pc = [t \in Thread |-> "idle"]
  /\ call = [t \in Thread |-> <<"Get", NULL, NULL>>]
  /\ skey = [t \in Thread |-> NULL]
  /\ ret = [t \in Thread |-> <<"None", NULL>>]
  /\ refused = 0
  /\ calls = 0

Op(t) == call[t][1]
KeyOf(t) == call[t][2]
ValueOf(t) == call[t][3]

-----------------------------------------------------------------------------
(* Mutant: strings with the same hash are taken to be equal. *)
EqualHash(e, k) == e.hash = SDBMHash[k]

(* lib/string.h: two strings are equal if their hashes are, and then the   *)
(* characters, which are read from the block.                              *)
Equal(e, k) == e.hash = SDBMHash[k] /\ memory[e.block] = k

Found(k) == {e \in table : Equal(e, k)}

(* Mutant: the readers of the table let a removal in. *)
LockModeMutant(op) ==
  IF variant = "lock_stl" THEN "write"
  ELSE IF op = "Update" THEN "write" ELSE "read"

(* A mutex for every operation, or a lock that readers and inserts share.  *)
LockMode(op) ==
  IF variant = "lock_stl" \/ op \in {"Update", "Remove"} THEN "write" ELSE "read"

LockIsFree(t, mode) ==
  \A u \in Thread \ {t} :
    /\ lock[u] # "write"
    /\ mode = "write" => lock[u] = "none"

(* The end of a call: its result, and the destructor of the lock guard.    *)
Return(t, result) ==
  /\ ret' = [ret EXCEPT ![t] = <<Op(t), result>>]
  /\ lock' = [lock EXCEPT ![t] = "none"]
  /\ pc' = [pc EXCEPT ![t] = "idle"]

-----------------------------------------------------------------------------
(* A caller: a key, which only Insert and Entries allow to be NULL.  The   *)
(* copy of Insert is made under the lock or before it.                     *)
Call(t, op, k, v) ==
  /\ pc[t] = "idle"
  /\ calls < MaxCalls
  /\ k = NULL => op \in {"Insert", "Entries"}
  /\ calls' = calls + 1
  /\ call' = [call EXCEPT ![t] = <<op, k, v>>]
  /\ pc' = [pc EXCEPT ![t] =
              IF variant = "tbb_scan" /\ op = "Insert" THEN "copy" ELSE "lock"]
  /\ UNCHANGED <<variant, table, memory, lock, skey, ret, refused>>

Acquire(t) ==
  /\ pc[t] = "lock"
  /\ LockIsFree(t, LockMode(Op(t)))
  /\ lock' = [lock EXCEPT ![t] = LockMode(Op(t))]
  /\ pc' = [pc EXCEPT ![t] =
              IF variant = "lock_stl" /\ Op(t) = "Insert" THEN "copy" ELSE "work"]
  /\ UNCHANGED <<variant, table, memory, call, skey, ret, refused, calls>>

(* if (!key) return false, before the copy                                 *)
InsertNull(t) ==
  /\ pc[t] = "copy" /\ KeyOf(t) = NULL
  /\ Return(t, FALSE)
  /\ UNCHANGED <<variant, table, memory, call, skey, refused, calls>>

(* String::Copy.                                                           *)
Copy(t) ==
  /\ pc[t] = "copy" /\ KeyOf(t) # NULL
  /\ \E b \in Block :
       /\ memory[b] = NULL
       /\ memory' = [memory EXCEPT ![b] = KeyOf(t)]
       /\ skey' = [skey EXCEPT ![t] = b]
  /\ pc' = [pc EXCEPT ![t] = IF variant = "lock_stl" THEN "work" ELSE "lock"]
  /\ UNCHANGED <<variant, table, lock, call, ret, refused, calls>>

Get(t) ==
  /\ pc[t] = "work" /\ Op(t) = "Get"
  /\ \/ \E e \in Found(KeyOf(t)) : Return(t, e.value)
     \/ Found(KeyOf(t)) = {} /\ Return(t, NULL)
  /\ UNCHANGED <<variant, table, memory, call, skey, refused, calls>>

(* Mutant: Wrap in place of Copy. *)
NewEntryWrapped(t) ==
  [block |-> KeyOf(t), hash |-> SDBMHash[KeyOf(t)], value |-> ValueOf(t)]

NewEntry(t) ==
  [block |-> skey[t], hash |-> SDBMHash[KeyOf(t)], value |-> ValueOf(t)]

(* Mutant: the value is put in without a look whether the key is there. *)
InsertAgain(t) ==
  /\ pc[t] = "work" /\ Op(t) = "Insert"
  /\ table' = table \cup {NewEntry(t)}
  /\ skey' = [skey EXCEPT ![t] = NULL]
  /\ Return(t, TRUE)
  /\ UNCHANGED <<variant, memory, call, refused, calls>>

InsertNew(t) ==
  /\ pc[t] = "work" /\ Op(t) = "Insert"
  /\ Found(KeyOf(t)) = {}
  /\ table' = table \cup {NewEntry(t)}
  /\ skey' = [skey EXCEPT ![t] = NULL]
  /\ Return(t, TRUE)
  /\ UNCHANGED <<variant, memory, call, refused, calls>>

(* The key is there: the copy is dropped, but not freed.                   *)
InsertRefused(t) ==
  /\ pc[t] = "work" /\ Op(t) = "Insert"
  /\ Found(KeyOf(t)) # {}
  /\ skey' = [skey EXCEPT ![t] = NULL]
  /\ refused' = refused + 1
  /\ Return(t, FALSE)
  /\ UNCHANGED <<variant, table, memory, call, calls>>

Update(t) ==
  /\ pc[t] = "work" /\ Op(t) = "Update"
  /\ \/ \E e \in Found(KeyOf(t)) :
          /\ table' = (table \ {e}) \cup {[e EXCEPT !.value = ValueOf(t)]}
          /\ Return(t, e.value)
     \/ Found(KeyOf(t)) = {} /\ Return(t, NULL) /\ UNCHANGED table
  /\ UNCHANGED <<variant, memory, call, skey, refused, calls>>

(* The key's copy is freed while its entry is still in the table ...       *)
Remove(t) ==
  /\ pc[t] = "work" /\ Op(t) = "Remove"
  /\ \/ \E e \in Found(KeyOf(t)) :
          /\ memory' = [memory EXCEPT ![e.block] = NULL]
          /\ skey' = [skey EXCEPT ![t] = e.block]
          /\ pc' = [pc EXCEPT ![t] = "erase"]
          /\ UNCHANGED <<lock, ret>>
     \/ Found(KeyOf(t)) = {} /\ Return(t, NULL) /\ UNCHANGED <<memory, skey>>
  /\ UNCHANGED <<variant, table, call, refused, calls>>

(* Mutant: the entry stays in the table. *)
EraseKeepsEntry(t) ==
  /\ pc[t] = "erase"
  /\ \E e \in table : e.block = skey[t] /\ Return(t, e.value)
  /\ skey' = [skey EXCEPT ![t] = NULL]
  /\ UNCHANGED <<variant, table, memory, call, refused, calls>>

(* ... and the iterator that erases it is the one that found it.           *)
Erase(t) ==
  /\ pc[t] = "erase"
  /\ \E e \in table :
       /\ e.block = skey[t]
       /\ table' = table \ {e}
       /\ Return(t, e.value)
  /\ skey' = [skey EXCEPT ![t] = NULL]
  /\ UNCHANGED <<variant, memory, call, refused, calls>>

(* At most n entries: the first ones of the table, or from the key on, in  *)
(* the table's own order.                                                  *)
Entries(t) ==
  /\ pc[t] = "work" /\ Op(t) = "Entries"
  /\ \E n \in 0 .. MaxEntries, found \in SUBSET table :
       /\ KeyOf(t) = NULL =>
            Cardinality(found) = IF n < Cardinality(table) THEN n ELSE Cardinality(table)
       /\ KeyOf(t) # NULL =>
            /\ Cardinality(found) <= n
            /\ IF n = 0 THEN found = {} ELSE Found(KeyOf(t)) \subseteq found
            /\ Found(KeyOf(t)) = {} => found = {}
       /\ Return(t, {<<memory[e.block], e.value>> : e \in found})
  /\ UNCHANGED <<variant, table, memory, call, skey, refused, calls>>

(* Every call has returned and the bound is reached.                       *)
Finished ==
  /\ calls = MaxCalls
  /\ \A t \in Thread : pc[t] = "idle"
  /\ UNCHANGED vars

Step(t) ==
  \/ Acquire(t) \/ Copy(t) \/ Get(t) \/ InsertNull(t) \/ InsertNew(t)
  \/ InsertRefused(t) \/ Update(t) \/ Remove(t) \/ Erase(t) \/ Entries(t)

Next ==
  \/ \E t \in Thread :
       \/ Step(t)
       \/ \E op \in Operation, k \in Key \cup {NULL}, v \in Value : Call(t, op, k, v)
  \/ Finished

Spec == Init /\ [][Next]_vars

-----------------------------------------------------------------------------
(* What the variables hold.                                                *)
TypeOK ==
  /\ variant \in {"lock_stl", "tbb_scan"}
  /\ table \subseteq Entry
  /\ memory \in [Block -> Key \cup {NULL}]
  /\ lock \in [Thread -> {"none", "read", "write"}]
  /\ pc \in [Thread -> {"idle", "lock", "copy", "work", "erase"}]
  /\ call \in [Thread -> Operation \X (Key \cup {NULL}) \X (Value \cup {NULL})]
  /\ skey \in [Thread -> Block \cup {NULL}]
  /\ DOMAIN ret = Thread
  /\ refused \in Nat
  /\ calls \in 0 .. MaxCalls

Erasing == {t \in Thread : pc[t] = "erase"}

(* The entries but the one that Remove is taking out: its block is free,   *)
(* and may hold the next copy already.                                     *)
Owners == {e \in table : \A t \in Erasing : skey[t] # e.block}

(* A thread at work in the table sees no entry whose key copy is freed, or *)
(* holds another key since: the block that Remove frees before it takes    *)
(* the entry out, and that a copy made without the lock may use at once,   *)
(* is not read by any comparison.                                          *)
WorkSeesLiveKeys ==
  \A t \in Thread : pc[t] = "work" =>
    /\ table = Owners
    /\ \A e \in table : memory[e.block] # NULL /\ SDBMHash[memory[e.block]] = e.hash

(* No key is in the table twice and no two entries share a copy, also when *)
(* inserts of one key, in the table that lets inserts run together, both   *)
(* made their copies first.                                                *)
OneEntryPerKey ==
  \A d, e \in Owners :
    d.block = e.block \/ memory[d.block] = memory[e.block] => d = e

(* No copy is freed twice or lost, except that every refused Insert leaves *)
(* one behind: the blocks in use are those of the entries, the copies of   *)
(* the Inserts under way, and one for each refusal.                        *)
KeyCopiesAccountedFor ==
  Cardinality({b \in Block : memory[b] # NULL}) =
    Cardinality(Owners) + refused
      + Cardinality({t \in Thread \ Erasing : skey[t] # NULL})

-----------------------------------------------------------------------------
(* The inductive invariant behind these properties. *)

Copied(t) == skey[t] # NULL /\ pc[t] # "erase"

(* Who holds the lock, and how, follows from where the threads are.        *)
LockInv ==
  /\ \A t, u \in Thread : t # u /\ lock[t] = "write" => lock[u] = "none"
  /\ \A t \in Thread :
       /\ pc[t] \in {"idle", "lock"} => lock[t] = "none"
       /\ pc[t] = "copy" =>
            /\ Op(t) = "Insert"
            /\ lock[t] = IF variant = "lock_stl" THEN "write" ELSE "none"
       /\ pc[t] = "work" => lock[t] = LockMode(Op(t))
       /\ pc[t] = "erase" => lock[t] = "write" /\ Op(t) = "Remove"

(* Which calls have a key, and which have a copy of it.                    *)
CallInv ==
  \A t \in Thread :
    /\ pc[t] # "idle" => ValueOf(t) \in Value
    /\ skey[t] # NULL => KeyOf(t) \in Key
    /\ pc[t] = "erase" => skey[t] # NULL
    /\ Copied(t) =>
         /\ Op(t) = "Insert"
         /\ pc[t] = "work" \/ (pc[t] = "lock" /\ variant = "tbb_scan")
    /\ pc[t] = "work" /\ Op(t) = "Insert" => skey[t] # NULL
    /\ pc[t] = "lock" /\ Op(t) = "Insert" /\ variant = "tbb_scan" => skey[t] # NULL
    /\ pc[t] \in {"lock", "work"} /\ Op(t) \in {"Get", "Update", "Remove"} =>
         KeyOf(t) \in Key

(* What the blocks hold, and whose they are.                               *)
MemoryInv ==
  /\ \A d, e \in table : d.block = e.block => d = e
  /\ \A e \in Owners :
       memory[e.block] \in Key /\ e.hash = SDBMHash[memory[e.block]]
  /\ \A d, e \in Owners : memory[d.block] = memory[e.block] => d = e
  /\ \A t \in Thread : Copied(t) =>
       memory[skey[t]] = KeyOf(t) /\ \A e \in Owners : e.block # skey[t]
  /\ \A t, u \in Thread : Copied(t) /\ Copied(u) /\ skey[t] = skey[u] => t = u
  /\ \A t \in Erasing :
       /\ \E e \in table : e.block = skey[t]
       /\ \A e \in Owners : memory[e.block] # KeyOf(t)

(* Together: at every step of every call, each block is free or has one    *)
(* owner, an entry or an Insert under way, whose key it holds.             *)
HashInv == TypeOK /\ LockInv /\ CallInv /\ MemoryInv

-----------------------------------------------------------------------------
(* The key of an entry: of the one that is being erased, the key that its  *)
(* copy had.                                                               *)
EntryKey(e) ==
  IF \E t \in Erasing : skey[t] = e.block
  THEN KeyOf(CHOOSE t \in Erasing : skey[t] = e.block)
  ELSE memory[e.block]

CMap == INSTANCE ConcurrentMap WITH
  map <- [k \in {EntryKey(e) : e \in table} |->
            (CHOOSE e \in table : EntryKey(e) = k).value]

(* Whatever the interleaving, each operation returns what an atomic map    *)
(* would at some moment of the call, and leaves what such a map would.     *)
IsConcurrentMap == CMap!Spec
=============================================================================
