------------------------------ MODULE YcsbcInv ------------------------------
(***************************************************************************)
(* The inductive invariant behind the safety properties of Ycsbc, and the  *)
(* hypotheses under which they hold.                                       *)
(***************************************************************************)
EXTENDS Ycsbc

(* The key counter does not wrap around within one process, and key        *)
(* numbers that differ make keys that differ.                              *)
KeysSuffice ==
  /\ InsertStart + RecordCount + OperationCount <= Word - 1
  /\ KeyNamesDistinct

(* The first process loads exactly the records 0 .. RecordCount - 1, into  *)
(* an engine whose writes do not fail.                                     *)
CleanLoad ==
  /\ DoLoad(1)
  /\ InsertStart = 0
  /\ RecordCount > 0
  /\ RecordCount = Command[1].threads * (RecordCount \div Command[1].threads)
  /\ "Put" \notin Throwing

NoDeletes == "DELETE" \notin Mix
NoEmptyValues == NoBytes \notin FieldLengths

-----------------------------------------------------------------------------
TypeInv == TypeOK /\ insert_key_sequence \in {3, RecordCount}

(* Where main is, and which clients are alive: those whose future is in    *)
(* actual_ops and was not asked for its result.                            *)
MainInv ==
  /\ launched <= Threads
  /\ Len(actual_ops) = launched
  /\ \A n \in 1 .. launched : actual_ops[n] = n - 1
  /\ joined <= launched
  /\ joined > 0 => launched = Threads
  /\ main \in {"start", "exit"} => launched = 0
  /\ \A c \in Client : pc[c] # "absent" <=> joined <= c /\ c < launched
  /\ \A c \in Client : pc[c] # "absent" => is_loading[c] = (main = "load")

(* A loading client only inserts; a transaction's key passed the test.     *)
ClientInv ==
  /\ main \in {"load", "run"} => insert_key_sequence = RecordCount
  /\ main = "load" => DoLoad(job)
  /\ \A c \in Client :
       /\ pc[c] # "absent" /\ is_loading[c] => pc[c] \in {"loop", "insert", "done"}
       /\ op[c] \in Mix \cup {"NONE"}
       /\ pc[c] \in {"call", "update"} => Acceptable(key[c])
  /\ \A k \in DOMAIN lsm : lsm[k] \in FieldLengths

-----------------------------------------------------------------------------
(* The key counter.  It starts a phase at Floor.  Tickets are the rounds   *)
(* of the clients' loops, in this phase, that took a key or were done      *)
(* without one: counting them is what ties the shared counter to the       *)
(* clients' own loops, and bounds it.                                      *)
Phase == main \in {"load", "run"}

LoadOps == RecordCount \div Threads
RunOps == OperationCount \div Threads
PhaseOps == IF main = "load" THEN LoadOps ELSE RunOps

Floor ==
  InsertStart + (IF main = "run" /\ DoLoad(job) THEN Threads * LoadOps ELSE 0)

Begun(c) == i[c] + (IF pc[c] \in {"absent", "loop", "done"} THEN 0 ELSE 1)
Claimed(c) == i[c] + (IF pc[c] = "insert" THEN 1 ELSE 0)

Tickets ==
  {t \in (0 .. (Threads - 1)) \X (0 .. (PhaseOps - 1)) :
     t[1] < launched /\ t[2] < Claimed(t[1])}

RoundsInv ==
  Phase => \A c \in Client : c < launched =>
    /\ Begun(c) <= PhaseOps
    /\ pc[c] \in {"done", "absent"} => i[c] = PhaseOps

CounterInv ==
  Phase =>
    /\ key_generator \in Floor .. (Floor + Cardinality(Tickets))
    /\ main = "load" => key_generator = Floor + Cardinality(Tickets)
    /\ \A c \in Client : pc[c] = "insert" => key[c] \in Floor .. (key_generator - 1)
    /\ \A c, d \in Client :
         c # d /\ pc[c] = "insert" /\ pc[d] = "insert" => key[c] # key[d]

-----------------------------------------------------------------------------
(* The database of the first process: it holds the keys that were handed   *)
(* out, but for those whose insert is still under way.                     *)
Inserting(num) == \E c \in Client : pc[c] = "insert" /\ key[c] = num

Stored == {num \in InsertStart .. (key_generator - 1) : ~ Inserting(num)}

Accounted == DOMAIN lsm = {BuildKeyName(num) : num \in Stored}

LoadInv ==
  job = 1 =>
    /\ main = "start" => DOMAIN lsm = {}
    /\ main = "load" => Accounted

(* ... and it goes on to do so, and to hold every record, when a clean     *)
(* load is followed by transactions that delete nothing.                   *)
RunInv ==
  /\ job = 1 /\ main = "run" => Accounted
  /\ Loaded \/ job > 1 => Record \subseteq DOMAIN lsm

IInv ==
  TypeInv /\ MainInv /\ ClientInv /\ RoundsInv /\ CounterInv /\ LoadInv /\ RunInv

-----------------------------------------------------------------------------
(* The first load phase, wherever the counter starts and whatever fails.   *)
(* A number's distance is how often the counter was taken before it came   *)
(* up, and does not reach the word's size: so no number comes up twice.    *)
Distance(num) ==
  IF num >= InsertStart THEN num - InsertStart ELSE num + (Word - InsertStart)

HandedOut == {num \in KeyNum : Distance(num) < Distance(key_generator)}

FirstLoad == job = 1 /\ main = "load"

FirstKeysInv ==
  FirstLoad =>
    /\ Distance(key_generator) <= Cardinality(Tickets)
    /\ \A c \in Client : pc[c] = "insert" => key[c] \in HandedOut
    /\ \A c, d \in Client :
         c # d /\ pc[c] = "insert" /\ pc[d] = "insert" => key[c] # key[d]
    /\ DOMAIN lsm \subseteq
         {BuildKeyName(num) : num \in {n \in HandedOut : ~ Inserting(n)}}

(* The first n clients' operations that returned kOK: what main has added  *)
(* up is those of the clients it joined, and each has left a record.       *)
Rounds == (0 .. (Threads - 1)) \X (0 .. (PhaseOps - 1))

Counted(counts, n) == {t \in Rounds : t[1] < n /\ t[2] < counts[t[1]]}

ResultsInv ==
  /\ \A c \in Client : oks[c] <= i[c]
  /\ job = 1 /\ main = "start" => sum = 0 /\ DOMAIN lsm = {}
  /\ FirstLoad =>
       /\ sum = Cardinality(Counted(oks, joined))
       /\ IsFiniteSet(DOMAIN lsm)
       /\ Cardinality(Counted(oks, launched)) <= Cardinality(DOMAIN lsm)
       /\ Throwing = {} =>
            Cardinality(Counted(oks, launched)) = Cardinality(DOMAIN lsm)

-----------------------------------------------------------------------------
(* The results, as long as no operation of the phase has failed: a client  *)
(* counts each of its rounds, and main has the shares of those it joined.  *)
Tally ==
  /\ sum = joined * PhaseOps
  /\ \A c \in Client : c < launched => oks[c] = i[c]

IdleSum == ~ Phase => sum = 0
RunSum == main = "run" => Tally

(* A run that only reads, scans and deletes has no write under way.        *)
NoWrites == Mix \subseteq {"READ", "SCAN", "DELETE"}
NoWriteInv ==
  main = "run" => \A c \in Client : pc[c] \notin {"sequence", "insert", "update"}
=============================================================================
