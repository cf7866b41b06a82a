------------------------------- MODULE MCYcsbc -------------------------------
(***************************************************************************)
(* Values of the constants of Ycsbc for model checking: the shapes of      *)
(* invocation that the program and its scripts use, and the mixes of the   *)
(* workload specifications.                                                *)
(***************************************************************************)
EXTENDS YcsbcInv, YcsbcDocs

(* ycsbc -load -run -threads 2                                             *)
LoadAndRun == <<[threads |-> 2, load |-> TRUE, run |-> TRUE]>>

(* ycsbc -threads 3, which does both phases                                *)
ThreeThreads == <<[threads |-> 3, load |-> FALSE, run |-> FALSE]>>

(* run_ycsb.sh: a load with one thread, then runs with 1 and 2 threads     *)
Script ==
  <<[threads |-> 1, load |-> TRUE, run |-> FALSE],
    [threads |-> 1, load |-> FALSE, run |-> TRUE],
    [threads |-> 2, load |-> FALSE, run |-> TRUE]>>

(* Operation mixes, in percent                                             *)
OnlyThese(weights) ==
  [o \in Operation |-> IF o \in DOMAIN weights THEN weights[o] ELSE 0]

WorkloadA == OnlyThese([READ |-> 50, UPDATE |-> 50])
WorkloadD == OnlyThese([READ |-> 50, INSERT |-> 50])
ReadScanDelete == OnlyThese([READ |-> 40, SCAN |-> 20, DELETE |-> 40])
WriteDelete == OnlyThese([READ |-> 10, UPDATE |-> 50, DELETE |-> 40])
NoDelete ==
  OnlyThese([READ |-> 20, UPDATE |-> 20, INSERT |-> 20, SCAN |-> 20,
             READMODIFYWRITE |-> 20])
Everything ==
  OnlyThese([READ |-> 20, UPDATE |-> 20, INSERT |-> 30, SCAN |-> 10,
             READMODIFYWRITE |-> 10, DELETE |-> 10])

(* A stand-in for the 64-bit hash on the numbers of the model: with an odd *)
(* multiplier it permutes the words of a power of two, but modulo the five *)
(* items of the run script two ranks meet and one item is never drawn.     *)
MCHash(num) == (num * 7 + 4) % Word

(* Every call of the engine may throw                                      *)
AnyThrow == EngineCall
=============================================================================
