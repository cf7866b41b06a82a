---------------------------- MODULE CoreWorkload ----------------------------
(***************************************************************************)
(* core/core_workload.{h,cc}: the workload object that all client threads  *)
(* share.  Of its state only two counters change after Init: key_generator,*)
(* from which new keys are taken, and insert_key_sequence, which bounds    *)
(* the keys of transactions.                                               *)
(***************************************************************************)
EXTENDS Generators

CONSTANTS
  RecordCount,      \* recordcount
  OperationCount,   \* operationcount
  InsertStart,      \* insertstart
  Proportion,       \* the operation proportions, in percent
  RequestDist,      \* requestdistribution
  FieldLenDist,     \* field_len_dist
  FieldLength,      \* fieldlength
  OrderedInserts    \* insertorder is not "hashed"

VARIABLES key_generator, insert_key_sequence

workloadVars == <<key_generator, insert_key_sequence>>

Operation == {"READ", "UPDATE", "DELETE", "INSERT", "SCAN", "READMODIFYWRITE"}

ASSUME WorkloadAssumption ==
  /\ RecordCount \in KeyNum
  /\ OperationCount \in Nat
  /\ InsertStart \in KeyNum
  /\ Proportion \in [Operation -> 0 .. 100]
  /\ \E o \in Operation : Proportion[o] > 0
  /\ RequestDist \in {"uniform", "zipfian", "latest"}
  /\ FieldLenDist \in {"constant", "uniform", "zipfian"}
  /\ FieldLength \in Nat \ {0}
  /\ OrderedInserts \in BOOLEAN

-----------------------------------------------------------------------------
(* The operations that DiscreteGenerator::Next can return: those that Init *)
(* added to op_chooser_, each under the test that its proportion is        *)
(* positive.                                                               *)
Mix == DiscreteValues({o \in Operation : Proportion[o] > 0})

(* The zipfian request distribution reserves room for the keys that the    *)
(* run is expected to insert, times a fudge factor of two.                 *)
NewKeys == (OperationCount * Proportion["INSERT"] * 2) \div 100

(* The assertions of the zipfian generators: at least two items, and fewer *)
(* than a fraction of the words.                                           *)
ASSUME ChooserAssumption ==
  /\ RequestDist = "zipfian" => RecordCount + NewKeys \in 2 .. (Word - 1)
  /\ RequestDist = "latest" => RecordCount >= 3

(* The numbers that key_chooser_->Next() can return.                       *)
ChosenKeys ==
  CASE RequestDist = "uniform" -> UniformValues(0, CounterLast(RecordCount))
    [] RequestDist = "zipfian" -> ScrambledZipfianValues(RecordCount + NewKeys)
    [] RequestDist = "latest" ->
         SkewedLatestValues(CounterLast(insert_key_sequence))

(* The lengths that field_len_generator_->Next() can return, which are the *)
(* lengths of the strings in BuildValues and BuildUpdate.                  *)
FieldLengths ==
  CASE FieldLenDist = "constant" -> ConstValues(FieldLength)
    [] FieldLenDist = "uniform" -> UniformValues(1, FieldLength)
    [] FieldLenDist = "zipfian" -> ZipfianValues(1, FieldLength)

(* A record's key: a prefix and the number, hashed unless inserts are      *)
(* ordered.  Zero padding changes how a key is spelt, not which key it is. *)
BuildKeyName(num) == <<"user", IF OrderedInserts THEN num ELSE Hash(num)>>

KeyName == {BuildKeyName(num) : num \in KeyNum}

(* What the benchmark relies on and the hash does not promise: distinct    *)
(* numbers give distinct keys.                                             *)
KeyNamesDistinct ==
  \A m, n \in KeyNum : BuildKeyName(m) = BuildKeyName(n) => m = n

-----------------------------------------------------------------------------
(* CoreWorkload::Init, on the object that the constructor left.            *)
WorkloadConstructed == key_generator = 0 /\ insert_key_sequence = 3

(* Mutant: the first key is 1. *)
WorkloadInitMutant == key_generator' = 1 /\ insert_key_sequence' = RecordCount

WorkloadInit ==
  /\ key_generator' = InsertStart
  /\ insert_key_sequence' = RecordCount

(* Mutant: a load and a store in place of fetch_add can lose an increment. *)
NextSequenceKeyMutant(num) ==
  /\ num = key_generator
  /\ key_generator' \in {key_generator, CounterNext(key_generator)}
  /\ UNCHANGED insert_key_sequence

(* NextSequenceKey takes the number num from the counter, in one atomic    *)
(* fetch_add.                                                              *)
NextSequenceKey(num) ==
  /\ num = key_generator
  /\ key_generator' = CounterNext(key_generator)
  /\ UNCHANGED insert_key_sequence

(* Mutants: any draw is taken; the bound is one too high. *)
AcceptableMutant(num) == num \in KeyNum
AcceptableOffByOne(num) == num <= insert_key_sequence

(* The test that ends the loop of NextTransactionKey.                      *)
Acceptable(num) == num <= CounterLast(insert_key_sequence)
=============================================================================
