---------------------------- MODULE ConcurrentMap ----------------------------
(***************************************************************************)
(* What lib/string_hashtable.h promises of a hash table that threads share:*)
(* a map whose operations take effect one at a time, each with the result  *)
(* that its own moment calls for.                                          *)
(***************************************************************************)
EXTENDS Naturals, FiniteSets

CONSTANTS Thread, Key, Value, NULL

VARIABLES
  map,   \* a function from the keys that are present to their values
  ret    \* for each thread, its last operation and the result of that

vars == <<map, ret>>

Init ==
  /\ map = [k \in {} |-> NULL]
  /\ ret = [t \in Thread |-> <<"None", NULL>>]

Lookup(k) == IF k \in DOMAIN map THEN map[k] ELSE NULL

Return(t, op, result) == ret' = [ret EXCEPT ![t] = <<op, result>>]

Get(t, k) == Return(t, "Get", Lookup(k)) /\ UNCHANGED map

Insert(t, k, v) ==
  \/ /\ k \notin DOMAIN map
     /\ map' = [x \in DOMAIN map \cup {k} |-> IF x = k THEN v ELSE map[x]]
     /\ Return(t, "Insert", TRUE)
  \/ /\ k \notin Key \ DOMAIN map
     /\ Return(t, "Insert", FALSE)
     /\ UNCHANGED map

Update(t, k, v) ==
  /\ Return(t, "Update", Lookup(k))
  /\ map' = [x \in DOMAIN map |-> IF x = k THEN v ELSE map[x]]

Remove(t, k) ==
  /\ Return(t, "Remove", Lookup(k))
  /\ map' = [x \in DOMAIN map \ {k} |-> map[x]]

(* Some of the pairs that are present.                                     *)
Entries(t) ==
  /\ \E present \in SUBSET DOMAIN map :
       Return(t, "Entries", {<<k, map[k]>> : k \in present})
  /\ UNCHANGED map

Next ==
  \E t \in Thread :
    \/ \E k \in Key : Get(t, k) \/ Remove(t, k)
    \/ \E k \in Key, v \in Value : Insert(t, k, v) \/ Update(t, k, v)
    \/ \E v \in Value : Insert(t, NULL, v)
    \/ Entries(t)

Spec == Init /\ [][Next]_vars
=============================================================================
