----------------------------- MODULE Generators -----------------------------
(***************************************************************************)
(* The number generators of core/*_generator.h.                            *)
(*                                                                         *)
(* A random generator is represented by the SET of values its Next() can   *)
(* return: the distribution over that set is left out, because no          *)
(* correctness property of the benchmark depends on it.  A counter is      *)
(* represented exactly, with the wrap-around of its uint64_t.              *)
(***************************************************************************)
EXTENDS Integers

CONSTANTS
  Word,     \* the number of values of a uint64_t: 2^64 in the program
  Hash(_)   \* utils::Hash, which is FNVHash64

ASSUME WordAssumption == Word \in Nat /\ Word >= 4

KeyNum == 0 .. (Word - 1)

ASSUME HashAssumption == \A num \in KeyNum : Hash(num) \in KeyNum

(***************************************************************************)
(* CounterGenerator.  Next() is fetch_add(1): it returns the counter and   *)
(* leaves its successor.  Last() is the counter minus one, so a counter    *)
(* that holds 0 has the largest word as its last value.                    *)
(***************************************************************************)
CounterNext(counter) == IF counter = Word - 1 THEN 0 ELSE counter + 1

(* Mutant: the last value is the counter itself. *)
CounterLastMutant(counter) == counter

CounterLast(counter) == IF counter = 0 THEN Word - 1 ELSE counter - 1

(***************************************************************************)
(* UniformGenerator: both bounds are inclusive.                            *)
(***************************************************************************)
UniformValues(min, max) == min .. max

(***************************************************************************)
(* ZipfianGenerator::Next(num).  The two most popular ranks are returned   *)
(* as the constants 0 and 1, WITHOUT the base; only the other ranks are    *)
(* offset by it.                                                           *)
(***************************************************************************)
ZipfianValues(base, num) == {0, 1} \cup (base .. (base + num - 1))

(***************************************************************************)
(* ScrambledZipfianGenerator: the hash of a zipfian value, modulo the      *)
(* number of items.  Ranks may meet in one value, and values may have no   *)
(* rank at all.                                                            *)
(***************************************************************************)
ScrambledZipfianValues(num) == { Hash(z) % num : z \in ZipfianValues(0, num) }

(***************************************************************************)
(* SkewedLatestGenerator: a zipfian distance, below max, back from max.    *)
(***************************************************************************)
SkewedLatestValues(max) == { max - z : z \in ZipfianValues(0, max) }

ConstValues(constant) == {constant}

(***************************************************************************)
(* DiscreteGenerator: one of the values that AddValue was called with.     *)
(* That is also so when rounding leaves the draw above the last weight:    *)
(* Next then returns last_, which AddValue set and only Next changes.      *)
(***************************************************************************)
DiscreteValues(values) == values
=============================================================================
