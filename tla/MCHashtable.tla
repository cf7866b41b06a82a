----------------------------- MODULE MCHashtable -----------------------------
(* Values of the constants of Hashtable for model checking: two keys have  *)
(* the same hash.                                                          *)
EXTENDS Hashtable, TLC

CONSTANTS t1, t2, k1, k2, v1, v2, b1, b2, b3, b4

MCThread == {t1, t2}
MCKey == {k1, k2}
MCValue == {v1, v2}
MCBlock == {b1, b2, b3, b4}
MCSDBMHash == [k \in MCKey |-> 7]

Symmetry == Permutations(MCThread) \cup Permutations(MCKey)
              \cup Permutations(MCValue) \cup Permutations(MCBlock)
=============================================================================
