----------------------------- MODULE LoadThenRun -----------------------------
(***************************************************************************)
(* What a benchmark promises of the database it drives, without threads,   *)
(* counters or processes: first every record is inserted once, into a      *)
(* database that holds nothing else; only then is the database opened to   *)
(* transactions, which write any key and remove records.                   *)
(***************************************************************************)
CONSTANTS
  Record,   \* the keys of the records to load
  Key,      \* all the keys an operation may name
  Value

VARIABLES stage, lsm

vars == <<stage, lsm>>

Init == stage = "loading" /\ lsm = [k \in {} |-> {}]

Store(k, v) ==
  lsm' = [x \in DOMAIN lsm \cup {k} |-> IF x = k THEN v ELSE lsm[x]]

LoadRecord(k, v) ==
  /\ stage = "loading"
  /\ k \notin DOMAIN lsm
  /\ Store(k, v)
  /\ UNCHANGED stage

Open ==
  /\ stage = "loading"
  /\ DOMAIN lsm = Record
  /\ stage' = "open"
  /\ UNCHANGED lsm

Write(k, v) == stage = "open" /\ Store(k, v) /\ UNCHANGED stage

Remove(k) ==
  /\ stage = "open"
  /\ lsm' = [x \in DOMAIN lsm \ {k} |-> lsm[x]]
  /\ UNCHANGED stage

Next ==
  \/ \E k \in Record, v \in Value : LoadRecord(k, v)
  \/ Open
  \/ \E k \in Key, v \in Value : Write(k, v)
  \/ \E k \in Record : Remove(k)

Spec == Init /\ [][Next]_vars
=============================================================================
