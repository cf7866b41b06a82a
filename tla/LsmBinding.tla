----------------------------- MODULE LsmBinding -----------------------------
(***************************************************************************)
(* The database bindings db/splitlsm_db.cc and db/unifiedlsm_db.cc (the    *)
(* same code over two engines), and what they use of the lsm-tree engine.  *)
(*                                                                         *)
(* The engine is outside this repository: it is a map from keys to         *)
(* strings whose calls are atomic and may throw.  A stored string is       *)
(* abstracted to a number that is 0 when, and only when, it is empty: the  *)
(* bindings tell nothing else apart.                                       *)
(***************************************************************************)
EXTENDS Integers

CONSTANT Throwing   \* the engine calls that may throw, a subset of EngineCall

EngineCall == {"Get", "Put", "Delete", "Scan"}

ASSUME ThrowingAssumption == Throwing \subseteq EngineCall

VARIABLE lsm        \* the engine's content, a function on the keys it holds

kOK == 0
kErrorNoData == 1

NoBytes == 0

LsmInit == lsm = [k \in {} |-> NoBytes]

-----------------------------------------------------------------------------
(* The engine. *)

Put(key, value) ==
  lsm' = [k \in DOMAIN lsm \cup {key} |-> IF k = key THEN value ELSE lsm[k]]

Remove(key) == lsm' = [k \in DOMAIN lsm \ {key} |-> lsm[k]]

-----------------------------------------------------------------------------
(* The bindings.  Each operation is an action with the status it returns.  *)
(* An exception of the engine is turned into kErrorNoData, and says        *)
(* nothing of whether a write took effect.                                 *)

Found(key) == key \in DOMAIN lsm /\ lsm[key] # NoBytes

Read(key, status) ==
  /\ \/ status = kOK /\ Found(key)
     \/ status = kErrorNoData /\ ~ Found(key)
     \/ status = kErrorNoData /\ "Get" \in Throwing
  /\ UNCHANGED lsm

Scan(key, status) ==
  /\ \/ status = kOK
     \/ status = kErrorNoData /\ "Scan" \in Throwing
  /\ UNCHANGED lsm

Update(key, value, status) ==
  \/ status = kOK /\ Put(key, value)
  \/ /\ status = kErrorNoData
     /\ "Put" \in Throwing
     /\ Put(key, value) \/ UNCHANGED lsm

Insert(key, value, status) == Update(key, value, status)

(* Mutant: a record is deleted by writing an empty value over it. *)
DeleteMutant(key, status) == Update(key, NoBytes, status)

Delete(key, status) ==
  \/ status = kOK /\ Remove(key)
  \/ /\ status = kErrorNoData
     /\ "Delete" \in Throwing
     /\ Remove(key) \/ UNCHANGED lsm
=============================================================================
