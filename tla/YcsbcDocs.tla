------------------------------ MODULE YcsbcDocs ------------------------------
(***************************************************************************)
(* What the comments and documents of the repository say of the benchmark, *)
(* stated over the model of the code in Ycsbc.                             *)
(***************************************************************************)
EXTENDS Ycsbc

(* workloads.md:10: an insert "adds a brand-new sequential key at the tail *)
(* of the keyspace".                                                       *)
InsertsAddBrandNewKeys ==
  \A c \in Client :
    op[c] = "INSERT" /\ pc[c] = "insert" => BuildKeyName(key[c]) \notin DOMAIN lsm

(* workloads.md:6: the "load phase inserts recordcount records".           *)
LoadInsertsRecordCount ==
  main = "load" /\ AllJoined => sum = RecordCount

(* workloads.md:7 and :42: transaction keys come from "the range of keys   *)
(* that have been inserted so far", and "insert proportions grow the key   *)
(* range": a key that was handed out and inserted passes the test of       *)
(* NextTransactionKey.                                                     *)
InsertsGrowTheKeyRange ==
  main = "run" =>
    \A num \in InsertStart .. (key_generator - 1) :
      BuildKeyName(num) \in DOMAIN lsm => Acceptable(num)

(* zipfian_generator.h:83: base_ is the minimum of what the generator      *)
(* yields; the workload makes one with the base 1 for field lengths.       *)
FieldsHaveMinimumLength == \A k \in DOMAIN lsm : lsm[k] >= 1

(* workloads.md:9: an update "rewrites one or all fields of the chosen     *)
(* key; does not change the key set".                                      *)
UpdatesKeepKeySet ==
  [][\A c \in Client :
       op[c] = "UPDATE" /\ pc[c] = "call" /\ pc'[c] = "loop"
         => DOMAIN lsm' = DOMAIN lsm]_vars
=============================================================================
