------------------------ MODULE YcsbcRefinementProof ------------------------
(***************************************************************************)
(* The proof that Ycsbc, as seen by a reader of the database, implements   *)
(* LoadThenRun, and proofs about what the phases report and about a run    *)
(* that writes nothing.                                                    *)
(***************************************************************************)
EXTENDS YcsbcKeysProof

Stage == IF Loaded \/ job > 1 THEN "open" ELSE "loading"

LoadPart == CounterPart /\ LoadInv

LEMMA LoadPartInvariant ==
  ASSUME KeysSuffice, CleanLoad
  PROVE  Spec => []LoadPart
<1>1. Init => LoadPart
  BY TypeInvInit, MainInvInit, ClientInvInit, RoundsInvInit, CounterInvInit,
     LoadInvInit DEF LoadPart, CounterPart
<1>2. LoadPart /\ [Next]_vars => LoadPart'
  <2>1. "Put" \notin Throwing
    BY DEF CleanLoad
  <2>. QED
    BY <2>1, TypeInvNext, MainInvNext, ClientInvNext, RoundsInvNext, CounterInvNext,
       LoadInvNext DEF LoadPart, CounterPart
<1>. QED BY <1>1, <1>2, PTL DEF Spec

(* An insert of the first load phase is of a record that is not there yet. *)
LEMMA LoadsNewRecord ==
  ASSUME LoadPart, KeysSuffice, CleanLoad, job = 1, main = "load",
         NEW c \in Client, pc[c] = "insert"
  PROVE  BuildKeyName(key[c]) \in Record /\ BuildKeyName(key[c]) \notin DOMAIN lsm
<1>1. TypeInv /\ MainInv /\ CounterInv /\ Phase
  BY DEF LoadPart, CounterPart, Phase
<1>2. Floor = 0 /\ Threads * PhaseOps = RecordCount /\ RecordCount \in Nat
  BY <1>1, LoadShare DEF Floor, PhaseOps
<1>3. Cardinality(Tickets) \in Nat /\ Cardinality(Tickets) <= RecordCount
  <2>1. Tickets \subseteq Rounds
    BY DEF Tickets, Rounds
  <2>. QED BY <1>1, <1>2, <2>1, TicketsFinite, FS_Subset
<1>4. key_generator \in Nat /\ key_generator <= RecordCount
  BY <1>1, <1>2, <1>3 DEF CounterInv
<1>5. key[c] \in 0 .. (key_generator - 1)
  BY <1>1, <1>2 DEF CounterInv
<1>6. key[c] \in 0 .. (RecordCount - 1)
  BY <1>2, <1>4, <1>5
<1>7. BuildKeyName(key[c]) \notin DOMAIN lsm
  <2>. SUFFICES ASSUME BuildKeyName(key[c]) \in DOMAIN lsm PROVE FALSE
    OBVIOUS
  <2>1. PICK num \in Stored : BuildKeyName(key[c]) = BuildKeyName(num)
    BY DEF LoadPart, LoadInv, Accounted
  <2>2. key[c] \in KeyNum /\ key_generator \in KeyNum
    BY <1>1 DEF TypeInv, TypeOK
  <2>3. num \in KeyNum
    BY <1>1, <2>2, PhaseBounds, WordAssumption DEF Stored, KeyNum
  <2>4. num = key[c]
    BY <2>1, <2>2, <2>3 DEF KeysSuffice, KeyNamesDistinct
  <2>. QED BY <2>4 DEF Stored, Inserting
<1>. QED BY <1>6, <1>7 DEF Record

(* When the first load phase ends, the database holds the records.         *)
LEMMA LoadEnds ==
  ASSUME LoadPart, CleanLoad, job = 1, main = "load", AllJoined
  PROVE  DOMAIN lsm = Record
<1>1. TypeInv /\ MainInv /\ RoundsInv /\ CounterInv /\ Phase /\ Accounted
  BY DEF LoadPart, CounterPart, Phase, LoadInv
<1>2. Floor = 0 /\ Threads * PhaseOps = RecordCount /\ InsertStart = 0 /\ RecordCount \in Nat
  BY <1>1, LoadShare DEF Floor, PhaseOps
<1>3. key_generator = RecordCount
  BY <1>1, <1>2, TicketsFull DEF CounterInv
<1>4. \A c \in Client : pc[c] = "absent"
  <2>1. \A c \in Client : c \in Nat
    BY CommandAssumption DEF Client
  <2>2. launched \in Nat /\ joined = launched
    BY <1>1 DEF AllJoined, MainInv, TypeInv, TypeOK
  <2>. QED BY <1>1, <2>1, <2>2 DEF MainInv
<1>5. Stored = 0 .. (RecordCount - 1)
  BY <1>2, <1>3, <1>4 DEF Stored, Inserting
<1>. QED BY <1>1, <1>5 DEF Accounted, Record

LEMMA RefinementInit == Init => Abstract!Init
<1>. SUFFICES ASSUME Init PROVE Abstract!Init
  OBVIOUS
<1>1. lsm = [k \in {} |-> {}]
  BY DEF Init, LsmInit
<1>2. ~ (Loaded \/ job > 1)
  BY DEF Init, Loaded
<1>. QED BY <1>1, <1>2 DEF Abstract!Init

(* Every step loads a new record, opens the database, writes or removes a  *)
(* record of the open database, or leaves stage and database alone.        *)
LEMMA RefinementNext ==
  ASSUME LoadPart, KeysSuffice, CleanLoad, [Next]_vars
  PROVE  [Abstract!Next]_(Abstract!vars)
<1>1. /\ job \in Nat \ {0}
      /\ TypeInv /\ MainInv /\ ClientInv
  <2>1. TypeInv /\ MainInv /\ ClientInv
    BY DEF LoadPart, CounterPart
  <2>. QED BY <2>1, CommandAssumption DEF TypeInv, TypeOK
<1>. DEFINE open == Loaded \/ job > 1
<1>2. CASE open' = open /\ UNCHANGED lsm
  BY <1>2 DEF Abstract!vars
<1>3. CASE StartProcess
  <2>1. /\ main = "start" /\ UNCHANGED <<job, lsm>>
        /\ main' \in {"load", "run"}
        /\ job = 1 => main' = "load"
    BY <1>3 DEF StartProcess, CleanLoad
  <2>2. open' = open
    BY <1>1, <2>1 DEF Loaded
  <2>. QED BY <1>2, <2>1, <2>2
<1>4. CASE Launch \/ GetResult
  <2>1. UNCHANGED <<job, main, lsm>>
    BY <1>4 DEF Launch, GetResult
  <2>. QED BY <1>2, <2>1 DEF Loaded
<1>5. CASE EndLoad
  <2>1. /\ main = "load" /\ AllJoined /\ UNCHANGED lsm
        /\ \/ main' = "run" /\ job' = job
           \/ main' = "start" /\ job' = job + 1
           \/ main' = "exit" /\ job' = job
    BY <1>5 DEF EndLoad, ExitProcess
  <2>2. open'
    BY <1>1, <2>1 DEF Loaded
  <2>3. CASE job = 1
    <3>1. DOMAIN lsm = Record
      BY <2>1, <2>3, LoadEnds
    <3>2. ~ open
      BY <2>1, <2>3 DEF Loaded
    <3>. QED BY <2>1, <2>2, <3>1, <3>2 DEF Abstract!Next, Abstract!Open
  <2>4. CASE job > 1
    BY <1>2, <2>1, <2>2, <2>4
  <2>. QED BY <1>1, <2>3, <2>4
<1>6. CASE EndRun
  <2>1. /\ main = "run" /\ UNCHANGED lsm
        /\ \/ main' = "start" /\ job' = job + 1
           \/ main' = "exit" /\ job' = job
    BY <1>6 DEF EndRun, ExitProcess
  <2>2. open' = open
    BY <1>1, <2>1 DEF Loaded
  <2>. QED BY <1>2, <2>1, <2>2
<1>7. ASSUME NEW c \in Client, ClientStep(c) PROVE [Abstract!Next]_(Abstract!vars)
  <2>1. UNCHANGED <<job, main>> /\ pc[c] # "absent"
    BY <1>1, <1>7, ClientStepFrame DEF mainVars
  <2>2. open' = open
    BY <2>1 DEF Loaded
  <2>3. ~ open => job = 1 /\ main = "load"
    <3>1. main \in {"load", "run"}
      <4>1. c \in Nat
        BY CommandAssumption DEF Client
      <4>2. main \in {"start", "load", "run", "exit"}
        BY <1>1 DEF TypeInv, TypeOK
      <4>. QED BY <1>1, <2>1, <4>1, <4>2 DEF MainInv
    <3>. QED BY <1>1, <3>1 DEF Loaded
  <2>4. BuildKeyName(key[c]) \in KeyName
    BY <1>1 DEF TypeInv, TypeOK, KeyName
  <2>5. CASE UNCHANGED lsm
    BY <1>2, <2>2, <2>5
  <2>6. ASSUME pc[c] \in {"insert", "call", "update"},
               NEW v \in FieldLengths, Put(BuildKeyName(key[c]), v)
        PROVE  Abstract!Next
    <3>1. Abstract!Store(BuildKeyName(key[c]), v)
      BY <2>6 DEF Put, Abstract!Store
    <3>2. CASE open
      BY <2>2, <2>4, <3>1, <3>2 DEF Abstract!Next, Abstract!Write
    <3>3. CASE ~ open
      <4>1. pc[c] = "insert"
        BY <1>1, <2>1, <2>3, <2>6, <3>3 DEF MainInv, ClientInv
      <4>2. BuildKeyName(key[c]) \in Record /\ BuildKeyName(key[c]) \notin DOMAIN lsm
        BY <2>3, <3>3, <4>1, LoadsNewRecord
      <4>. QED BY <2>2, <3>1, <3>3, <4>2 DEF Abstract!Next, Abstract!LoadRecord
    <3>. QED BY <3>2, <3>3
  <2>7. ASSUME pc[c] = "call", Remove(BuildKeyName(key[c])) PROVE Abstract!Next
    <3>1. main = "run" /\ BuildKeyName(key[c]) \in Record
      BY <1>1, <2>7, TransactionKey DEF Record
    <3>2. open
      BY <3>1 DEF Loaded
    <3>3. Abstract!Remove(BuildKeyName(key[c]))
      BY <2>2, <2>7, <3>2 DEF Remove, Abstract!Remove
    <3>. QED BY <3>1, <3>3 DEF Abstract!Next
  <2>. QED BY <1>7, <2>5, <2>6, <2>7, ClientStepLsm
<1>8. CASE UNCHANGED vars
  BY <1>2, <1>8 DEF vars, mainVars, Loaded
<1>. QED
  BY <1>3, <1>4, <1>5, <1>6, <1>7, <1>8 DEF Next, Main, AllExited

(* The benchmark implements LoadThenRun: whatever the number of threads,   *)
(* of records and of processes, each record is inserted once, into a       *)
(* database without it, before the first transaction; from then on the     *)
(* database changes only by writes of keys and removals of records.        *)
THEOREM RefinementCorrect ==
  ASSUME KeysSuffice, CleanLoad
  PROVE  Spec => LoadsThenRuns
<1>1. LoadPart /\ [Next]_vars => [Abstract!Next]_(Abstract!vars)
  BY RefinementNext
<1>. QED
  BY <1>1, RefinementInit, LoadPartInvariant, PTL DEF Spec, LoadsThenRuns, Abstract!Spec

-----------------------------------------------------------------------------
(* The first load phase. *)

(* Distances run once around the word, and the counter goes one further    *)
(* each time it is taken.                                                  *)
LEMMA Distances ==
  /\ Distance(InsertStart) = 0 /\ InsertStart \in KeyNum
  /\ \A n \in KeyNum : Distance(n) \in Nat
  /\ \A m, n \in KeyNum : Distance(m) = Distance(n) => m = n
  /\ \A n \in KeyNum :
       Distance(n) < Word - 1 => Distance(CounterNext(n)) = Distance(n) + 1
BY WordAssumption, WorkloadAssumption DEF Distance, KeyNum, CounterNext

(* A client that loads takes a key, inserts, or leaves its loop.           *)
LEMMA LoadingSteps ==
  ASSUME TypeInv, MainInv, ClientInv, main = "load", NEW c \in Client, ClientStep(c)
  PROVE  \/ TakeSequenceKey(c) /\ pc[c] = "loop"
         \/ InsertRecord(c)
         \/ ReturnOks(c)
<1>1. pc[c] # "absent"
  BY ClientStepFrame
<1>2. is_loading[c] /\ pc[c] \in {"loop", "insert", "done"}
  BY <1>1 DEF MainInv, ClientInv
<1>. QED
  BY <1>2
     DEF ClientStep, InLoop, NextOperation, TakeSequenceKey, DrawKey, TestKey,
         TransactionRead, TransactionScan, TransactionDelete, ReadBeforeWrite,
         TransactionUpdate

(* What the first load phase goes through, and how it begins.              *)
LEMMA FirstLoadSteps ==
  ASSUME TypeInv, FirstLoad', [Next]_vars
  PROVE  \/ StartProcess /\ job = 1
         \/ FirstLoad /\ (Launch \/ GetResult \/ UNCHANGED vars
                            \/ \E c \in Client : ClientStep(c))
<1>1. CASE StartProcess
  BY <1>1 DEF StartProcess, FirstLoad
<1>2. CASE Launch \/ GetResult
  BY <1>2 DEF Launch, GetResult, FirstLoad
<1>3. job \in Nat \ {0}
  BY TypeFacts
<1>4. CASE EndLoad \/ EndRun
  BY <1>3, <1>4 DEF EndLoad, EndRun, ExitProcess, FirstLoad
<1>5. ASSUME NEW c \in Client, ClientStep(c) PROVE FirstLoad
  BY <1>5, ClientStepFrame DEF FirstLoad, mainVars
<1>6. CASE UNCHANGED vars
  BY <1>6 DEF vars, mainVars, FirstLoad
<1>. QED BY <1>1, <1>2, <1>4, <1>5, <1>6 DEF Next, Main, AllExited

LEMMA FirstKeysInit == Init => FirstKeysInv
BY DEF Init, FirstKeysInv, FirstLoad

(* No number comes up twice, and the database holds keys of numbers whose  *)
(* insert is over.                                                         *)
LEMMA FirstKeysNext ==
  ASSUME TypeInv, TypeInv', MainInv, ClientInv, RoundsInv, FirstKeysInv, ResultsInv,
         [Next]_vars
  PROVE  FirstKeysInv'
<1>. SUFFICES ASSUME FirstLoad' PROVE FirstKeysInv'
  BY DEF FirstKeysInv
<1>. DEFINE Over == {n \in HandedOut : ~ Inserting(n)}
            Keys == {BuildKeyName(num) : num \in Over}
<1>1. /\ pc \in [Client -> PcLabel] /\ key \in [Client -> KeyNum]
      /\ key_generator \in KeyNum /\ launched \in Nat /\ joined \in Nat
      /\ \A c \in Client : c \in Nat
  BY TypeFacts DEF TypeInv, TypeOK
<1>2. CASE StartProcess /\ job = 1
  <2>1. \A c \in Client : pc'[c] # "insert"
    BY <1>1, <1>2 DEF StartProcess, MainInv, clientVars
  <2>2. DOMAIN lsm' = {}
    BY <1>2 DEF StartProcess, ResultsInv
  <2>3. Distance(key_generator)' = 0
    <3>1. key_generator' = InsertStart
      BY <1>2 DEF StartProcess, WorkloadInit
    <3>. QED BY <3>1, Distances DEF Distance
  <2>4. Cardinality(Tickets') = 0
    <3>1. \A n \in 0 .. (Threads' - 1) : ~ (n < launched')
      BY <1>2 DEF StartProcess, MainInv
    <3>2. Tickets' = {}
      BY <3>1 DEF Tickets
    <3>. QED BY <3>2, FS_EmptySet
  <2>. QED BY <2>1, <2>2, <2>3, <2>4 DEF FirstKeysInv
<1>3. ASSUME FirstLoad, UNCHANGED <<key, key_generator, lsm>>,
             Tickets' = Tickets,
             \A c \in Client : pc'[c] = "insert" <=> pc[c] = "insert"
      PROVE  FirstKeysInv'
  <2>1. \A n : Inserting(n)' <=> Inserting(n)
    BY <1>3 DEF Inserting
  <2>2. HandedOut' = HandedOut
    BY <1>3 DEF HandedOut, Distance
  <2>3. Distance(key_generator)' = Distance(key_generator)
    BY <1>3 DEF Distance
  <2>. QED BY <1>3, <2>1, <2>2, <2>3 DEF FirstKeysInv
<1>4. CASE FirstLoad /\ (Launch \/ GetResult \/ UNCHANGED vars)
  <2>1. Tickets' = Tickets
    BY <1>4, TicketsKept DEF FirstLoad
  <2>2. UNCHANGED <<key, key_generator, lsm>>
    BY <1>4 DEF Launch, GetResult, vars, clientVars, workloadVars
  <2>3. \A c \in Client : pc'[c] = "insert" <=> pc[c] = "insert"
    BY <1>1, <1>4 DEF Launch, GetResult, vars, clientVars, MainInv
  <2>. QED BY <1>3, <1>4, <2>1, <2>2, <2>3
<1>5. ASSUME NEW c \in Client, FirstLoad, TakeSequenceKey(c) PROVE FirstKeysInv'
  <2>1. /\ pc[c] # "insert"
        /\ pc' = [pc EXCEPT ![c] = "insert"]
        /\ key' = [key EXCEPT ![c] = key_generator]
        /\ key_generator' = CounterNext(key_generator)
        /\ UNCHANGED lsm
    BY <1>1, <1>5 DEF TakeSequenceKey, InLoop, NextSequenceKey, Goto
  <2>2. /\ Distance(key_generator) <= Cardinality(Tickets)
        /\ Cardinality(Tickets) \in Nat
        /\ Cardinality(Tickets') = Cardinality(Tickets) + 1
        /\ Cardinality(Tickets') <= Threads * PhaseOps
    BY <1>5, TicketTaken, TicketsFinite DEF FirstKeysInv
  <2>3. Threads * PhaseOps \in Nat /\ Threads * PhaseOps <= Word - 1
    <3>1. PhaseOps = LoadOps
      BY <1>5 DEF FirstLoad, PhaseOps
    <3>2. RecordCount <= Word - 1 /\ Word \in Nat
      BY WorkloadAssumption, WordAssumption DEF KeyNum
    <3>3. Threads * LoadOps \in Nat /\ Threads * LoadOps <= RecordCount /\ RecordCount \in Nat
      BY PhaseBounds
    <3>. QED BY <3>1, <3>2, <3>3
  <2>4. Distance(key_generator) \in Nat /\ Word \in Nat
    BY <1>1, Distances, WordAssumption
  <2>5. Distance(key_generator) < Word - 1
    BY <2>2, <2>3, <2>4
  <2>6. Distance(key_generator') = Distance(key_generator) + 1
    BY <1>1, <2>1, <2>5, Distances
  <2>7. HandedOut' = HandedOut \cup {key_generator}
    <3>1. \A n \in KeyNum :
            Distance(n) < Distance(key_generator) + 1
              <=> Distance(n) < Distance(key_generator) \/ n = key_generator
      <4>1. \A n \in KeyNum : Distance(n) \in Nat
                /\ (Distance(n) = Distance(key_generator) <=> n = key_generator)
        BY <1>1, Distances
      <4>. QED BY <2>4, <4>1
    <3>2. \A n : Distance(n)' = Distance(n)
      BY DEF Distance
    <3>. QED BY <1>1, <2>6, <3>1 DEF HandedOut
  <2>8. key_generator \notin HandedOut
    BY <2>4 DEF HandedOut
  <2>9. Over' = Over
    <3>1. \A n : Inserting(n)' <=> Inserting(n) \/ n = key_generator
      BY <1>1, <2>1 DEF Inserting
    <3>. QED BY <2>7, <2>8, <3>1
  <2>10. \A d \in Client : pc'[d] = "insert" =>
           IF d = c THEN key'[d] = key_generator
                    ELSE pc[d] = "insert" /\ key'[d] = key[d] /\ key[d] \in HandedOut
    BY <1>1, <1>5, <2>1 DEF FirstKeysInv
  <2>11. \A d \in Client : pc'[d] = "insert" => key'[d] \in HandedOut'
    BY <2>7, <2>10
  <2>12. \A d, e \in Client :
           d # e /\ pc'[d] = "insert" /\ pc'[e] = "insert" => key'[d] # key'[e]
    BY <1>5, <2>8, <2>10 DEF FirstKeysInv
  <2>13. Distance(key_generator') <= Cardinality(Tickets')
    BY <2>2, <2>4, <2>6
  <2>14. DOMAIN lsm' \subseteq Keys'
    BY <1>5, <2>1, <2>9 DEF FirstKeysInv
  <2>. QED BY <2>11, <2>12, <2>13, <2>14 DEF FirstKeysInv, Distance
<1>6. ASSUME NEW c \in Client, FirstLoad, InsertRecord(c) PROVE FirstKeysInv'
  <2>1. /\ pc[c] = "insert"
        /\ pc' = [pc EXCEPT ![c] = "loop"]
        /\ key' = [key EXCEPT ![c] = 0]
        /\ UNCHANGED key_generator
        /\ DOMAIN lsm' \subseteq DOMAIN lsm \cup {BuildKeyName(key[c])}
    BY <1>6 DEF InsertRecord, Insert, Update, Put, Complete, Goto, workloadVars
  <2>2. \A d \in Client : pc'[d] = "insert" =>
          d # c /\ pc[d] = "insert" /\ key'[d] = key[d]
    BY <1>1, <2>1
  <2>3. HandedOut' = HandedOut /\ Distance(key_generator)' = Distance(key_generator)
    BY <2>1 DEF HandedOut, Distance
  <2>4. Over' = Over \cup {key[c]}
    <3>1. \A n : Inserting(n) <=> Inserting(n)' \/ n = key[c]
      BY <1>1, <2>1 DEF Inserting
    <3>2. key[c] \in HandedOut
      BY <1>6, <2>1 DEF FirstKeysInv
    <3>3. \A d \in Client : pc'[d] = "insert" => key'[d] # key[c]
      BY <1>6, <2>1, <2>2 DEF FirstKeysInv
    <3>4. \A n : n = key[c] => ~ Inserting(n)'
      BY <3>3 DEF Inserting
    <3>5. \A n : ~ Inserting(n)' <=> ~ Inserting(n) \/ n = key[c]
      BY <3>1, <3>4
    <3>. QED BY <2>3, <3>2, <3>5
  <2>5. ~ TakeSequenceKey(c) /\ ClientStep(c)
    BY <1>6, <2>1 DEF TakeSequenceKey, InLoop, ClientStep
  <2>6. Tickets' = Tickets
    BY <1>6, <2>5, TicketsKept DEF FirstLoad
  <2>7. DOMAIN lsm' \subseteq Keys'
    BY <1>6, <2>1, <2>4 DEF FirstKeysInv
  <2>. QED BY <1>6, <2>2, <2>3, <2>6, <2>7 DEF FirstKeysInv
<1>7. ASSUME NEW c \in Client, FirstLoad, ReturnOks(c) PROVE FirstKeysInv'
  <2>1. ~ TakeSequenceKey(c) /\ ClientStep(c)
    <3>1. pc'[c] = "done"
      BY <1>1, <1>7 DEF ReturnOks, Goto
    <3>2. TakeSequenceKey(c) => pc'[c] = "insert"
      BY <1>1 DEF TakeSequenceKey, Goto
    <3>. QED BY <1>7, <3>1, <3>2 DEF ClientStep
  <2>2. Tickets' = Tickets
    BY <1>7, <2>1, TicketsKept DEF FirstLoad
  <2>3. UNCHANGED <<key, key_generator, lsm>>
    BY <1>7 DEF ReturnOks, workloadVars
  <2>4. \A d \in Client : pc'[d] = "insert" <=> pc[d] = "insert"
    BY <1>1, <1>7 DEF ReturnOks, Goto
  <2>. QED BY <1>3, <1>7, <2>2, <2>3, <2>4
<1>. QED
  BY <1>2, <1>4, <1>5, <1>6, <1>7, FirstLoadSteps, LoadingSteps DEF FirstLoad

(* Counting results: a success more is a pair more, and the successes of   *)
(* one client are as many as it counts.                                    *)
LEMMA CountedFinite ==
  ASSUME TypeInv, NEW counts, NEW n
  PROVE  IsFiniteSet(Counted(counts, n)) /\ Cardinality(Counted(counts, n)) \in Nat
<1>1. Counted(counts, n) \subseteq Rounds
  BY DEF Counted
<1>. QED BY <1>1, TicketsFinite, FS_Subset, FS_CardinalityType

LEMMA CountedSuccess ==
  ASSUME TypeInv, NEW counts \in [Client -> Nat], NEW c \in Client,
         c < Threads, counts[c] < PhaseOps, NEW n \in Nat,
         NEW more, more = [counts EXCEPT ![c] = @ + 1]
  PROVE  /\ c < n => Cardinality(Counted(more, n)) = Cardinality(Counted(counts, n)) + 1
         /\ ~ (c < n) => Counted(more, n) = Counted(counts, n)
<1>. DEFINE pair == <<c, counts[c]>>
<1>1. /\ Threads \in Nat /\ PhaseOps \in Nat /\ NumClients \in Nat
      /\ Threads <= NumClients /\ c \in Nat
  BY PhaseBounds, TypeFacts, CommandAssumption
<1>2. \A t \in Rounds : t[1] \in Client /\ t[2] \in Nat /\ t = <<t[1], t[2]>>
  BY <1>1 DEF Rounds, Client
<1>3. pair \in Rounds
  BY <1>1 DEF Rounds
<1>4. \A t \in Rounds : t[2] < more[t[1]] <=> t[2] < counts[t[1]] \/ t = pair
  <2>. SUFFICES ASSUME NEW t \in Rounds
                PROVE  t[2] < more[t[1]] <=> t[2] < counts[t[1]] \/ t = pair
    OBVIOUS
  <2>1. CASE t[1] = c
    BY <1>2, <2>1
  <2>2. CASE t[1] # c
    BY <1>2, <2>2
  <2>. QED BY <2>1, <2>2
<1>5. ASSUME c < n
      PROVE  Cardinality(Counted(more, n)) = Cardinality(Counted(counts, n)) + 1
  <2>1. Counted(more, n) = Counted(counts, n) \cup {pair}
    BY <1>3, <1>4, <1>5 DEF Counted
  <2>2. pair \notin Counted(counts, n)
    BY DEF Counted
  <2>. QED BY <2>1, <2>2, CountedFinite, FS_AddElement
<1>6. ASSUME ~ (c < n) PROVE Counted(more, n) = Counted(counts, n)
  BY <1>4, <1>6 DEF Counted
<1>. QED BY <1>5, <1>6

LEMMA CountedJoin ==
  ASSUME TypeInv, NEW counts \in [Client -> Nat], NEW c \in Client,
         c < Threads, counts[c] <= PhaseOps
  PROVE  Cardinality(Counted(counts, c + 1)) = Cardinality(Counted(counts, c)) + counts[c]
<1>. DEFINE own == 0 .. (counts[c] - 1)
            pairs == {c} \X own
<1>1. /\ Threads \in Nat /\ PhaseOps \in Nat /\ c \in Nat /\ counts[c] \in Nat
  BY PhaseBounds, TypeFacts
<1>2. IsFiniteSet(own) /\ Cardinality(own) = counts[c]
  BY <1>1, IntervalSize
<1>3. \A t \in Rounds : t[1] \in Nat /\ t[2] \in Nat /\ t = <<t[1], t[2]>>
  BY <1>1 DEF Rounds
<1>4. pairs \subseteq Rounds
  BY <1>1 DEF Rounds
<1>5. \A t \in Rounds : t \in pairs <=> t[1] = c /\ t[2] < counts[c]
  BY <1>1, <1>3
<1>6. Counted(counts, c + 1) = Counted(counts, c) \cup pairs
  <2>1. \A t \in Rounds : t[1] < c + 1 <=> t[1] < c \/ t[1] = c
    BY <1>1, <1>3
  <2>. HIDE DEF pairs
  <2>. QED BY <1>4, <1>5, <2>1 DEF Counted
<1>7. Counted(counts, c) \cap pairs = {}
  BY <1>1, <1>5 DEF Counted
<1>8. IsFiniteSet(pairs) /\ Cardinality(pairs) = counts[c]
  <2>. HIDE DEF own
  <2>1. IsFiniteSet({c}) /\ Cardinality({c}) = 1
    BY FS_Singleton
  <2>2. IsFiniteSet(pairs) /\ Cardinality(pairs) = 1 * Cardinality(own)
    BY <1>2, <2>1, FS_Product
  <2>. QED BY <1>1, <1>2, <2>2
<1>. HIDE DEF pairs
<1>9. Cardinality({}) = 0
  BY FS_EmptySet
<1>. QED BY <1>1, <1>6, <1>7, <1>8, <1>9, CountedFinite, FS_Union

(* A client counts no more successes than rounds.                          *)
LEMMA ClientStepOks ==
  ASSUME TypeInv, NEW c \in Client, ClientStep(c), \A d \in Client : oks[d] <= i[d]
  PROVE  \A d \in Client : oks'[d] <= i'[d]
<1>1. i \in [Client -> Nat] /\ oks \in [Client -> Nat]
  BY DEF TypeInv, TypeOK
<1>2. ASSUME NEW status, Complete(c, status) PROVE \A d \in Client : oks'[d] <= i'[d]
  BY <1>1, <1>2 DEF Complete
<1>3. CASE UNCHANGED <<i, oks>>
  BY <1>3
<1>. QED
  BY <1>2, <1>3
     DEF ClientStep, NextOperation, TakeSequenceKey, InsertRecord, DrawKey, TestKey,
         TransactionRead, TransactionScan, TransactionDelete, ReadBeforeWrite,
         TransactionUpdate, ReturnOks

LEMMA ResultsInit == Init => ResultsInv
<1>1. Init => DOMAIN lsm = {}
  BY DEF Init, LsmInit
<1>. QED BY <1>1 DEF Init, ResultsInv, FirstLoad

(* Each success of the first load phase has left a record of its own: its  *)
(* key was new, since no number comes up twice.                            *)
LEMMA ResultsNext ==
  ASSUME TypeInv, TypeInv', MainInv, ClientInv, RoundsInv, FirstKeysInv, ResultsInv,
         KeyNamesDistinct, [Next]_vars
  PROVE  ResultsInv'
<1>. DEFINE Results(n) == Counted(oks, n)
<1>1. /\ pc \in [Client -> PcLabel] /\ key \in [Client -> KeyNum]
      /\ i \in [Client -> Nat] /\ oks \in [Client -> Nat]
      /\ job \in Nat \ {0} /\ launched \in Nat /\ joined \in Nat /\ sum \in Nat
      /\ \A c \in Client : c \in Nat
  BY TypeFacts DEF TypeInv, TypeOK
<1>2. Threads \in Nat /\ Threads <= NumClients /\ NumClients \in Nat /\ PhaseOps \in Nat
  BY PhaseBounds, CommandAssumption
<1>3. \A c \in Client : oks'[c] <= i'[c]
  <2>1. CASE Launch
    BY <1>1, <2>1 DEF Launch, ResultsInv
  <2>2. CASE UNCHANGED <<i, oks>>
    BY <2>2 DEF ResultsInv
  <2>3. ASSUME NEW c \in Client, ClientStep(c) PROVE \A d \in Client : oks'[d] <= i'[d]
    BY <2>3, ClientStepOks DEF ResultsInv
  <2>. QED
    BY <2>1, <2>2, <2>3
       DEF Next, Main, StartProcess, GetResult, EndLoad, EndRun, AllExited, vars, clientVars
<1>4. ASSUME job' = 1, main' = "start" PROVE sum' = 0 /\ DOMAIN lsm' = {}
  <2>1. UNCHANGED vars
    <3>1. CASE StartProcess
      BY <1>4, <3>1 DEF StartProcess
    <3>2. CASE Launch \/ GetResult
      BY <1>4, <3>2 DEF Launch, GetResult
    <3>3. CASE EndLoad \/ EndRun
      BY <1>1, <1>4, <3>3 DEF EndLoad, EndRun, ExitProcess
    <3>4. ASSUME NEW c \in Client, ClientStep(c) PROVE FALSE
      <4>1. pc[c] # "absent" /\ main = "start"
        BY <1>4, <3>4, ClientStepFrame DEF mainVars
      <4>. QED BY <1>1, <4>1 DEF MainInv
    <3>5. CASE AllExited
      BY <1>4, <3>5 DEF AllExited, vars, mainVars
    <3>. QED BY <3>1, <3>2, <3>3, <3>4, <3>5 DEF Next, Main
  <2>. QED BY <1>4, <2>1 DEF vars, mainVars, ResultsInv
<1>. DEFINE SumIs == sum = Cardinality(Results(joined))
            Few == Cardinality(Results(launched)) <= Cardinality(DOMAIN lsm)
            Exact == Throwing = {} =>
                       Cardinality(Results(launched)) = Cardinality(DOMAIN lsm)
            Goal == SumIs /\ IsFiniteSet(DOMAIN lsm) /\ Few /\ Exact
<1>5. ASSUME StartProcess, job = 1 PROVE Goal'
  <2>1. sum' = 0 /\ DOMAIN lsm' = {} /\ launched' = 0 /\ joined' = 0
    BY <1>1, <1>5 DEF StartProcess, MainInv, ResultsInv
  <2>2. Results(0)' = {}
    <3>1. \A m \in 0 .. (Threads' - 1) : ~ (m < 0)
      OBVIOUS
    <3>. QED BY <3>1 DEF Counted, Rounds
  <2>3. Results(launched)' = {} /\ Results(joined)' = {}
    BY <2>1, <2>2
  <2>. QED BY <2>1, <2>3, FS_EmptySet
<1>6. ASSUME FirstLoad, Launch PROVE Goal'
  <2>1. /\ launched' = launched + 1 /\ launched < Threads /\ joined <= launched
        /\ oks' = [oks EXCEPT ![launched] = 0]
        /\ UNCHANGED <<job, main, joined, sum, lsm>>
    BY <1>6 DEF Launch, MainInv
  <2>2. Rounds' = Rounds
    BY <2>1 DEF Rounds, Threads, PhaseOps, LoadOps, RunOps
  <2>3. \A t \in Rounds : t[1] \in Client /\ t[2] \in Nat
    BY <1>2 DEF Rounds, Client
  <2>4. Results(launched)' = Results(launched) /\ Results(joined)' = Results(joined)
    <3>1. \A t \in Rounds :
            /\ t[1] < launched' /\ t[2] < oks'[t[1]]
                 <=> t[1] < launched /\ t[2] < oks[t[1]]
            /\ t[1] < joined /\ t[2] < oks'[t[1]]
                 <=> t[1] < joined /\ t[2] < oks[t[1]]
      BY <1>1, <2>1, <2>3
    <3>. QED BY <2>1, <2>2, <3>1 DEF Counted
  <2>. QED BY <1>6, <2>1, <2>4 DEF ResultsInv
<1>7. ASSUME FirstLoad, GetResult PROVE Goal'
  <2>1. /\ launched = Threads /\ joined < launched
        /\ actual_ops[joined + 1] = joined
        /\ sum' = sum + oks[actual_ops[joined + 1]]
        /\ joined' = joined + 1
        /\ pc[actual_ops[joined + 1]] = "done"
        /\ UNCHANGED <<job, main, launched, oks, lsm>>
    BY <1>1, <1>7 DEF GetResult, MainInv
  <2>2. Rounds' = Rounds
    BY <2>1 DEF Rounds, Threads, PhaseOps, LoadOps, RunOps
  <2>3. \A n : Counted(oks, n)' = Counted(oks, n)
    BY <2>1, <2>2 DEF Counted
  <2>4. joined \in Client /\ i[joined] = PhaseOps
    <3>1. joined \in Client
      BY <1>1, <1>2, <2>1 DEF Client
    <3>. QED BY <1>7, <2>1, <3>1 DEF RoundsInv, FirstLoad, Phase
  <2>5. oks[joined] <= PhaseOps
    BY <2>4 DEF ResultsInv
  <2>6. Cardinality(Counted(oks, joined + 1)) = Cardinality(Counted(oks, joined)) + oks[joined]
    BY <1>1, <2>1, <2>4, <2>5, CountedJoin
  <2>7. sum' = Cardinality(Counted(oks, joined + 1))
    BY <1>7, <2>1, <2>6 DEF ResultsInv
  <2>8. Counted(oks, joined)' = Counted(oks, joined + 1)
    BY <2>1, <2>2 DEF Counted
  <2>9. Counted(oks, launched)' = Counted(oks, launched)
    BY <2>1, <2>2 DEF Counted
  <2>. QED BY <1>7, <2>1, <2>7, <2>8, <2>9 DEF ResultsInv
<1>8. ASSUME FirstLoad, UNCHANGED <<job, main, launched, joined, sum, oks, lsm>>
      PROVE  Goal'
  <2>1. Rounds' = Rounds
    BY <1>8 DEF Rounds, Threads, PhaseOps, LoadOps, RunOps
  <2>2. Results(launched)' = Results(launched) /\ Results(joined)' = Results(joined)
    BY <1>8, <2>1 DEF Counted
  <2>. QED BY <1>8, <2>2 DEF ResultsInv
<1>9. ASSUME NEW c \in Client, FirstLoad, InsertRecord(c) PROVE Goal'
  <2>. DEFINE name == BuildKeyName(key[c])
  <2>1. pc[c] = "insert" /\ ClientStep(c)
    BY <1>9 DEF InsertRecord, ClientStep
  <2>2. UNCHANGED <<job, main, launched, joined, sum>>
    BY <2>1, ClientStepFrame DEF mainVars
  <2>3. joined <= c /\ c < launched /\ launched <= Threads /\ c < Threads
    <3>1. joined <= c /\ c < launched /\ launched <= Threads
      BY <2>1 DEF MainInv
    <3>. QED BY <1>1, <1>2, <3>1
  <2>4. oks[c] < PhaseOps
    <3>1. i[c] + 1 <= PhaseOps
      BY <1>9, <2>1, <2>3 DEF RoundsInv, Begun, FirstLoad, Phase
    <3>2. oks[c] <= i[c]
      BY DEF ResultsInv
    <3>. QED BY <1>1, <1>2, <3>1, <3>2
  <2>5. name \notin DOMAIN lsm
    <3>1. ASSUME NEW n \in HandedOut, ~ Inserting(n) PROVE name # BuildKeyName(n)
      <4>1. n # key[c]
        BY <2>1, <3>1 DEF Inserting
      <4>. QED BY <1>1, <4>1 DEF HandedOut, KeyNamesDistinct
    <3>. QED BY <1>9, <3>1 DEF FirstKeysInv
  <2>6. Rounds' = Rounds
    BY <2>2 DEF Rounds, Threads, PhaseOps, LoadOps, RunOps
  <2>7. \/ oks' = [oks EXCEPT ![c] = @ + 1] /\ DOMAIN lsm' = DOMAIN lsm \cup {name}
        \/ /\ oks' = oks /\ Throwing # {}
           /\ DOMAIN lsm' = DOMAIN lsm \cup {name} \/ DOMAIN lsm' = DOMAIN lsm
    <3>1. PICK v \in FieldLengths, status \in {kOK, kErrorNoData} :
            Insert(name, v, status) /\ Complete(c, status)
      BY <1>9 DEF InsertRecord
    <3>2. Put(name, v) => DOMAIN lsm' = DOMAIN lsm \cup {name}
      BY DEF Put
    <3>3. CASE status = kOK /\ Put(name, v)
      BY <1>1, <3>1, <3>2, <3>3 DEF Complete
    <3>4. CASE status # kOK /\ "Put" \in Throwing /\ (Put(name, v) \/ UNCHANGED lsm)
      <4>1. oks' = oks
        BY <1>1, <3>1, <3>4 DEF Complete
      <4>. QED BY <3>2, <3>4, <4>1
    <3>. QED BY <3>1, <3>3, <3>4 DEF Insert, Update, kOK, kErrorNoData
  <2>8. /\ IsFiniteSet(DOMAIN lsm) /\ Cardinality(DOMAIN lsm) \in Nat
        /\ IsFiniteSet(DOMAIN lsm \cup {name})
        /\ Cardinality(DOMAIN lsm \cup {name}) = Cardinality(DOMAIN lsm) + 1
    BY <1>9, <2>5, FS_AddElement, FS_CardinalityType DEF ResultsInv
  <2>9. /\ Counted(oks, launched)' = Counted(oks', launched)
        /\ Counted(oks, joined)' = Counted(oks', joined)
    BY <2>2, <2>6 DEF Counted
  <2>10. CASE /\ oks' = oks /\ Throwing # {}
              /\ DOMAIN lsm' = DOMAIN lsm \cup {name} \/ DOMAIN lsm' = DOMAIN lsm
    <3>1. Cardinality(Counted(oks, launched)) \in Nat
      BY CountedFinite
    <3>2. IsFiniteSet(DOMAIN lsm') /\ Cardinality(Counted(oks, launched)) <= Cardinality(DOMAIN lsm')
      <4>1. Cardinality(Counted(oks, launched)) <= Cardinality(DOMAIN lsm)
        BY <1>9 DEF ResultsInv
      <4>2. \A m, n \in Nat : m <= n => m <= n + 1
        OBVIOUS
      <4>. QED BY <2>8, <2>10, <3>1, <4>1, <4>2
    <3>3. sum' = Cardinality(Counted(oks, joined))
      BY <1>9, <2>2 DEF ResultsInv
    <3>. QED BY <2>9, <2>10, <3>2, <3>3
  <2>11. CASE oks' = [oks EXCEPT ![c] = @ + 1] /\ DOMAIN lsm' = DOMAIN lsm \cup {name}
    <3>1. /\ Cardinality(Counted(oks', launched)) = Cardinality(Counted(oks, launched)) + 1
          /\ Counted(oks', joined) = Counted(oks, joined)
      <4>1. ~ (c < joined) /\ c < launched
        BY <1>1, <2>3
      <4>2. oks' = [oks EXCEPT ![c] = @ + 1] /\ oks \in [Client -> Nat]
        BY <1>1, <2>11
      <4>3. \A n \in Nat :
              /\ c < n => Cardinality(Counted(oks', n)) = Cardinality(Counted(oks, n)) + 1
              /\ ~ (c < n) => Counted(oks', n) = Counted(oks, n)
        BY <2>3, <2>4, <4>2, CountedSuccess
      <4>. QED BY <1>1, <4>1, <4>3
    <3>2. Cardinality(Counted(oks, launched)) \in Nat
      BY CountedFinite
    <3>3. /\ sum = Cardinality(Counted(oks, joined))
          /\ Cardinality(Counted(oks, launched)) <= Cardinality(DOMAIN lsm)
          /\ Throwing = {} => Cardinality(Counted(oks, launched)) = Cardinality(DOMAIN lsm)
      BY <1>9 DEF ResultsInv
    <3>4. \A m, n \in Nat : m <= n => m + 1 <= n + 1
      OBVIOUS
    <3>. QED BY <2>2, <2>8, <2>9, <2>11, <3>1, <3>2, <3>3, <3>4
  <2>. QED BY <2>7, <2>10, <2>11
<1>10. FirstLoad' => Goal'
  <2>. SUFFICES ASSUME FirstLoad' PROVE Goal'
    OBVIOUS
  <2>1. CASE FirstLoad /\ UNCHANGED vars
    BY <1>8, <2>1 DEF vars, mainVars, clientVars
  <2>2. ASSUME NEW c \in Client, FirstLoad, ClientStep(c) PROVE Goal'
    <3>1. UNCHANGED <<job, main, launched, joined, sum>>
      BY <2>2, ClientStepFrame DEF mainVars
    <3>2. CASE TakeSequenceKey(c) \/ ReturnOks(c)
      BY <1>8, <2>2, <3>1, <3>2 DEF TakeSequenceKey, ReturnOks
    <3>. QED BY <1>9, <2>2, <3>2, LoadingSteps DEF FirstLoad
  <2>. QED BY <1>5, <1>6, <1>7, <2>1, <2>2, FirstLoadSteps
<1>. QED BY <1>3, <1>4, <1>10 DEF ResultsInv

(* What the load phase reports is never more than what the database holds, *)
(* and exactly that unless the engine throws: wherever the counter starts, *)
(* also when it wraps around, and whatever share of the records the        *)
(* threads are given.                                                      *)
THEOREM LoadReportCorrect ==
  ASSUME KeyNamesDistinct
  PROVE  Spec => []LoadReportIsTrue
<1>. DEFINE I == TypeInv /\ MainInv /\ ClientInv /\ RoundsInv /\ FirstKeysInv /\ ResultsInv
<1>1. Init => I
  BY TypeInvInit, MainInvInit, ClientInvInit, RoundsInvInit, FirstKeysInit, ResultsInit
<1>2. I /\ [Next]_vars => I'
  BY TypeInvNext, MainInvNext, ClientInvNext, RoundsInvNext, FirstKeysNext, ResultsNext
<1>3. I => LoadReportIsTrue
  <2>. SUFFICES ASSUME I, FirstLoad, AllJoined
                PROVE  /\ sum <= Cardinality(DOMAIN lsm)
                       /\ Throwing = {} => sum = Cardinality(DOMAIN lsm)
    BY DEF LoadReportIsTrue, FirstLoad
  <2>1. joined = launched
    BY DEF AllJoined, MainInv
  <2>. QED BY <2>1 DEF ResultsInv
<1>. QED BY <1>1, <1>2, <1>3, PTL DEF Spec

-----------------------------------------------------------------------------
(* The results of the clients. *)

(* An operation that cannot fail is counted: without exceptions only a     *)
(* read that misses its record returns anything but kOK.                   *)
LEMMA ClientStepCounts ==
  ASSUME TypeInv, NEW c \in Client, ClientStep(c), Throwing = {}, oks[c] = i[c],
         pc[c] = "call" => Found(BuildKeyName(key[c]))
  PROVE  /\ oks'[c] = i'[c]
         /\ \A d \in Client : d # c => oks'[d] = oks[d] /\ i'[d] = i[d]
<1>1. i \in [Client -> Nat] /\ oks \in [Client -> Nat]
  BY DEF TypeInv, TypeOK
<1>2. ASSUME NEW status, status = kOK, Complete(c, status)
      PROVE  /\ oks'[c] = i'[c]
             /\ \A d \in Client : d # c => oks'[d] = oks[d] /\ i'[d] = i[d]
  BY <1>1, <1>2 DEF Complete
<1>3. CASE UNCHANGED <<i, oks>>
  BY <1>3
<1>4. CASE InsertRecord(c)
  <2>1. PICK v \in FieldLengths, status \in {kOK, kErrorNoData} :
          Insert(BuildKeyName(key[c]), v, status) /\ Complete(c, status)
    BY <1>4 DEF InsertRecord
  <2>. QED BY <1>2, <2>1 DEF Insert, Update
<1>5. CASE TransactionRead(c)
  <2>1. PICK status \in {kOK, kErrorNoData} :
          Read(BuildKeyName(key[c]), status) /\ Complete(c, status)
    BY <1>5 DEF TransactionRead
  <2>2. pc[c] = "call"
    BY <1>5 DEF TransactionRead
  <2>. QED BY <1>2, <2>1, <2>2 DEF Read
<1>6. CASE TransactionScan(c)
  <2>1. PICK status \in {kOK, kErrorNoData} :
          Scan(BuildKeyName(key[c]), status) /\ Complete(c, status)
    BY <1>6 DEF TransactionScan
  <2>. QED BY <1>2, <2>1 DEF Scan
<1>7. CASE TransactionDelete(c)
  <2>1. PICK status \in {kOK, kErrorNoData} :
          Delete(BuildKeyName(key[c]), status) /\ Complete(c, status)
    BY <1>7 DEF TransactionDelete
  <2>. QED BY <1>2, <2>1 DEF Delete
<1>8. CASE TransactionUpdate(c)
  <2>1. PICK v \in FieldLengths, status \in {kOK, kErrorNoData} :
          Update(BuildKeyName(key[c]), v, status) /\ Complete(c, status)
    BY <1>8 DEF TransactionUpdate
  <2>. QED BY <1>2, <2>1 DEF Update
<1>9. CASE NextOperation(c) \/ TakeSequenceKey(c) \/ DrawKey(c) \/ TestKey(c)
           \/ ReadBeforeWrite(c) \/ ReturnOks(c)
  BY <1>3, <1>9
     DEF NextOperation, TakeSequenceKey, DrawKey, TestKey, ReadBeforeWrite, ReturnOks
<1>. QED
  BY <1>4, <1>5, <1>6, <1>7, <1>8, <1>9 DEF ClientStep

(* Within a phase in which nothing fails, each step keeps the tally.       *)
LEMMA TallyStep ==
  ASSUME TypeInv, MainInv, RoundsInv, Phase, Tally, Throwing = {},
         \A c \in Client : pc[c] = "call" => Found(BuildKeyName(key[c])),
         Launch \/ GetResult \/ (\E c \in Client : ClientStep(c))
  PROVE  Tally' /\ UNCHANGED main
<1>1. /\ launched \in Nat /\ joined \in Nat /\ sum \in Nat /\ PhaseOps \in Nat
      /\ i \in [Client -> Nat] /\ oks \in [Client -> Nat]
      /\ \A c \in Client : c \in Nat
  <2>1. PhaseOps \in Nat
    BY PhaseBounds
  <2>2. \A c \in Client : c \in Nat
    BY CommandAssumption DEF Client
  <2>. QED BY <2>1, <2>2 DEF TypeInv, TypeOK
<1>2. CASE Launch
  <2>1. /\ launched' = launched + 1
        /\ i' = [i EXCEPT ![launched] = 0]
        /\ oks' = [oks EXCEPT ![launched] = 0]
        /\ UNCHANGED <<job, main, joined, sum>>
    BY <1>2 DEF Launch
  <2>2. PhaseOps' = PhaseOps
    BY <2>1 DEF PhaseOps, LoadOps, RunOps, Threads
  <2>3. \A c \in Client : c < launched' => oks'[c] = i'[c]
    BY <1>1, <2>1 DEF Tally
  <2>. QED BY <2>1, <2>2, <2>3 DEF Tally
<1>3. CASE GetResult
  <2>1. /\ launched = Threads /\ joined < launched
        /\ pc[actual_ops[joined + 1]] = "done"
        /\ sum' = sum + oks[actual_ops[joined + 1]]
        /\ joined' = joined + 1
        /\ UNCHANGED <<job, main, launched, i, oks>>
    BY <1>3 DEF GetResult, MainInv
  <2>2. actual_ops[joined + 1] = joined
    BY <1>1, <2>1 DEF MainInv
  <2>3. joined \in Client
    BY <1>1, <2>1, PhaseBounds, CommandAssumption DEF Client
  <2>4. oks[joined] = PhaseOps
    BY <1>1, <2>1, <2>2, <2>3 DEF RoundsInv, Tally
  <2>5. PhaseOps' = PhaseOps
    BY <2>1 DEF PhaseOps, LoadOps, RunOps, Threads
  <2>6. sum' = joined * PhaseOps + PhaseOps
    BY <2>1, <2>2, <2>4 DEF Tally
  <2>7. (joined + 1) * PhaseOps = joined * PhaseOps + PhaseOps
    BY <1>1
  <2>. QED BY <2>1, <2>5, <2>6, <2>7 DEF Tally
<1>4. ASSUME NEW c \in Client, ClientStep(c) PROVE Tally' /\ UNCHANGED main
  <2>1. UNCHANGED <<job, main, launched, joined, sum>> /\ pc[c] # "absent"
    BY <1>4, ClientStepFrame DEF mainVars
  <2>2. c < launched
    BY <2>1 DEF MainInv
  <2>3. /\ oks'[c] = i'[c]
        /\ \A d \in Client : d # c => oks'[d] = oks[d] /\ i'[d] = i[d]
    BY <1>4, <2>2, ClientStepCounts DEF Tally
  <2>4. PhaseOps' = PhaseOps
    BY <2>1 DEF PhaseOps, LoadOps, RunOps, Threads
  <2>. QED BY <2>1, <2>3, <2>4 DEF Tally
<1>. QED BY <1>2, <1>3, <1>4

(* A phase begins with nothing launched, joined or added up.               *)
LEMMA TallyBegins ==
  ASSUME TypeInv', launched' = 0, joined' = 0, sum' = 0
  PROVE  Tally'
<1>1. job' \in 1 .. Len(Command)
  BY DEF TypeInv, TypeOK
<1>2. Threads' \in 1 .. NumClients
  BY <1>1, ThreadsBounds DEF Threads
<1>3. RecordCount \in Nat /\ OperationCount \in Nat
  BY WorkloadAssumption, WordAssumption DEF KeyNum
<1>4. PhaseOps' \in Nat
  <2>1. Threads' \in Nat \ {0}
    BY <1>2, CommandAssumption
  <2>2. RecordCount \div Threads' \in Nat /\ OperationCount \div Threads' \in Nat
    BY <1>3, <2>1, DivBounds
  <2>. QED BY <2>2 DEF PhaseOps, LoadOps, RunOps
<1>5. \A c \in Client : c \in Nat
  BY CommandAssumption DEF Client
<1>6. sum' = joined' * PhaseOps'
  <2>1. \A n \in Nat : 0 = 0 * n
    OBVIOUS
  <2>. QED BY <1>4, <2>1
<1>7. \A c \in Client : ~ (c < launched')
  BY <1>5
<1>. QED BY <1>6, <1>7 DEF Tally

(* main's steps from one phase to another set the sum to zero.             *)
LEMMA PhaseChange ==
  ASSUME TypeInv, MainInv, IdleSum, StartProcess \/ EndLoad \/ EndRun
  PROVE  launched' = 0 /\ joined' = 0 /\ sum' = 0
<1>1. joined \in Nat /\ launched \in Nat
  BY DEF TypeInv, TypeOK
<1>2. CASE StartProcess
  BY <1>1, <1>2 DEF StartProcess, MainInv, IdleSum, Phase
<1>3. CASE EndLoad \/ EndRun
  BY <1>3 DEF EndLoad, EndRun, ResetPhase
<1>. QED BY <1>2, <1>3

LEMMA SumInit == Init => IdleSum /\ RunSum
BY DEF Init, IdleSum, RunSum

LEMMA IdleSumNext ==
  ASSUME TypeInv, MainInv, IdleSum, [Next]_vars
  PROVE  IdleSum'
<1>1. CASE StartProcess \/ EndLoad \/ EndRun
  BY <1>1, PhaseChange DEF IdleSum
<1>2. CASE Launch \/ GetResult
  BY <1>2 DEF Launch, GetResult, IdleSum, Phase
<1>3. ASSUME NEW c \in Client, ClientStep(c) PROVE IdleSum'
  BY <1>3, ClientStepFrame DEF IdleSum, Phase, mainVars
<1>4. CASE UNCHANGED vars
  BY <1>4 DEF vars, mainVars, IdleSum, Phase
<1>. QED BY <1>1, <1>2, <1>3, <1>4 DEF Next, Main, AllExited

LEMMA RunSumNext ==
  ASSUME TypeInv, TypeInv', MainInv, RoundsInv, IdleSum, RunSum, TransactionsHit,
         Throwing = {}, [Next]_vars
  PROVE  RunSum'
<1>1. CASE StartProcess \/ EndLoad \/ EndRun
  BY <1>1, PhaseChange, TallyBegins DEF RunSum
<1>2. CASE Launch \/ GetResult \/ (\E c \in Client : ClientStep(c))
  <2>1. UNCHANGED main
    BY <1>2, ClientStepFrame DEF Launch, GetResult, mainVars
  <2>2. ASSUME main = "run" PROVE Tally'
    <3>1. Tally /\ Phase
      BY <2>2 DEF RunSum, Phase
    <3>2. \A c \in Client : pc[c] = "call" => Found(BuildKeyName(key[c]))
      BY DEF TransactionsHit
    <3>. QED BY <1>2, <3>1, <3>2, TallyStep
  <2>. QED BY <2>1, <2>2 DEF RunSum
<1>3. CASE UNCHANGED vars
  BY <1>3
     DEF vars, mainVars, clientVars, RunSum, Tally, PhaseOps, LoadOps, RunOps, Threads
<1>. QED BY <1>1, <1>2, <1>3 DEF Next, Main, AllExited

-----------------------------------------------------------------------------
(* What a run reports. *)

(* When the transactions find their records and the engine does not fail,  *)
(* the results of a run add up to the shares of all its clients.           *)
THEOREM RunReportCorrect ==
  ASSUME KeysSuffice, CleanLoad, NoDeletes, NoEmptyValues, Throwing = {}
  PROVE  Spec => []RunReportIsTrue
<1>1. Init => IdleSum /\ RunSum
  BY SumInit
<1>2. IInv /\ IInv' /\ TransactionsHit /\ IdleSum /\ RunSum /\ [Next]_vars
        => IdleSum' /\ RunSum'
  BY IdleSumNext, RunSumNext DEF IInv
<1>3. IInv /\ RunSum => RunReportIsTrue
  BY DEF IInv, MainInv, RunSum, Tally, RunReportIsTrue, AllJoined, PhaseOps, RunOps, NumOps
<1>. QED
  BY <1>1, <1>2, <1>3, Invariance, TransactionsHitCorrect, PTL DEF Spec

-----------------------------------------------------------------------------
(* A run that writes nothing. *)

LEMMA NoWriteInit == Init => NoWriteInv
BY DEF Init, NoWriteInv

LEMMA NoWriteNext ==
  ASSUME TypeInv, TypeInv', MainInv, MainInv', ClientInv, NoWriteInv, NoWrites,
         [Next]_vars
  PROVE  NoWriteInv'
<1>1. pc \in [Client -> PcLabel] /\ joined \in Nat /\ launched \in Nat
  BY DEF TypeInv, TypeOK
<1>2. CASE StartProcess \/ EndLoad \/ EndRun
  <2>1. launched' = 0 /\ joined' \in Nat
    BY <1>1, <1>2 DEF StartProcess, EndLoad, EndRun, ResetPhase, MainInv
  <2>2. \A c \in Client : pc'[c] = "absent"
    BY <2>1, CommandAssumption DEF MainInv, Client
  <2>. QED BY <2>2 DEF NoWriteInv
<1>3. CASE Launch \/ GetResult
  BY <1>1, <1>3 DEF Launch, GetResult, NoWriteInv
<1>4. ASSUME NEW c \in Client, ClientStep(c), main = "run"
      PROVE  pc'[c] \notin {"sequence", "insert", "update"}
  <2>1. pc[c] # "absent" /\ pc[c] \notin {"sequence", "insert", "update"}
    BY <1>4, ClientStepFrame DEF NoWriteInv
  <2>2. ~ is_loading[c] /\ op[c] \in {"READ", "SCAN", "DELETE", "NONE"}
    BY <1>4, <2>1 DEF MainInv, ClientInv, NoWrites
  <2>3. CASE NextOperation(c)
    <3>1. PICK o \in Mix : Goto(c, IF o = "INSERT" THEN "sequence" ELSE "choose")
      BY <2>3 DEF NextOperation
    <3>. QED BY <1>1, <3>1 DEF Goto, NoWrites
  <2>4. CASE ~ NextOperation(c)
    BY <1>1, <1>4, <2>1, <2>2, <2>4
       DEF ClientStep, TakeSequenceKey, InsertRecord, DrawKey, TestKey, TransactionRead,
           TransactionScan, TransactionDelete, ReadBeforeWrite, TransactionUpdate,
           ReturnOks, Goto, Complete
  <2>. QED BY <2>3, <2>4
<1>5. ASSUME NEW c \in Client, ClientStep(c) PROVE NoWriteInv'
  <2>1. /\ UNCHANGED main
        /\ \A d \in Client : d # c => pc'[d] = pc[d]
    BY <1>1, <1>5, ClientStepFrame DEF mainVars
  <2>. QED BY <1>4, <1>5, <2>1 DEF NoWriteInv
<1>6. CASE UNCHANGED vars
  BY <1>6 DEF vars, mainVars, clientVars, NoWriteInv
<1>. QED BY <1>2, <1>3, <1>5, <1>6 DEF Next, Main, AllExited

(* What a step of such a run may do: a delete that succeeds removes its    *)
(* record, one that fails removes it or not, and no step does anything     *)
(* else to the database.                                                   *)
OnlyDeletes ==
  main = "run" =>
    /\ \A k \in DOMAIN lsm' : k \in DOMAIN lsm /\ lsm'[k] = lsm[k]
    /\ \A k \in DOMAIN lsm \ DOMAIN lsm' :
         \E c \in Client :
           pc[c] = "call" /\ op[c] = "DELETE" /\ k = BuildKeyName(key[c])
    /\ \A c \in Client :
         op[c] = "DELETE" /\ oks'[c] > oks[c] =>
           BuildKeyName(key[c]) \notin DOMAIN lsm'

LEMMA OnlyDeletesStep ==
  ASSUME TypeInv, MainInv, ClientInv, NoWriteInv, NoWrites, main = "run",
         NEW c \in Client, ClientStep(c)
  PROVE  OnlyDeletes
<1>1. op[c] \in {"READ", "SCAN", "DELETE", "NONE"}
  BY DEF ClientInv, NoWrites
<1>2. ~ InsertRecord(c) /\ ~ TransactionUpdate(c)
  BY <1>1 DEF NoWriteInv, InsertRecord, TransactionUpdate
<1>3. oks \in [Client -> Nat]
  BY DEF TypeInv, TypeOK
<1>4. CASE TransactionDelete(c)
  <2>1. PICK status \in {kOK, kErrorNoData} :
          Delete(BuildKeyName(key[c]), status) /\ Complete(c, status)
    BY <1>4 DEF TransactionDelete
  <2>2. pc[c] = "call" /\ op[c] = "DELETE"
    BY <1>4 DEF TransactionDelete
  <2>3. Remove(BuildKeyName(key[c])) \/ (UNCHANGED lsm /\ status = kErrorNoData)
    BY <2>1 DEF Delete
  <2>4. /\ \A k \in DOMAIN lsm' : k \in DOMAIN lsm /\ lsm'[k] = lsm[k]
        /\ \A k \in DOMAIN lsm \ DOMAIN lsm' : k = BuildKeyName(key[c])
    BY <2>3 DEF Remove
  <2>5. ASSUME NEW d \in Client, op[d] = "DELETE", oks'[d] > oks[d]
        PROVE  BuildKeyName(key[d]) \notin DOMAIN lsm'
    <3>1. d = c /\ status = kOK
      BY <1>3, <2>1, <2>5 DEF Complete
    <3>2. Remove(BuildKeyName(key[c]))
      BY <2>3, <3>1 DEF kOK, kErrorNoData
    <3>. QED BY <3>1, <3>2 DEF Remove
  <2>. QED BY <2>2, <2>4, <2>5 DEF OnlyDeletes
<1>5. CASE ~ TransactionDelete(c)
  <2>1. UNCHANGED lsm
    BY <1>2, <1>5
       DEF ClientStep, NextOperation, TakeSequenceKey, DrawKey, TestKey,
           TransactionRead, TransactionScan, ReadBeforeWrite, ReturnOks, Read, Scan
  <2>2. ASSUME NEW d \in Client, op[d] = "DELETE" PROVE oks'[d] = oks[d]
    BY <1>2, <1>3, <1>5, <2>2
       DEF ClientStep, NextOperation, TakeSequenceKey, DrawKey, TestKey,
           TransactionRead, TransactionScan, ReadBeforeWrite, ReturnOks, Complete
  <2>3. \A d \in Client : oks[d] \in Nat
    BY <1>3
  <2>. QED BY <2>1, <2>2, <2>3 DEF OnlyDeletes
<1>. QED BY <1>4, <1>5

(* Without inserts and updates in the mix a step of a run removes the      *)
(* record of a delete, and does nothing else to the database, whatever     *)
(* fails and wherever the key counter stands: what a successful delete     *)
(* removed stays away, and every other record keeps its value.             *)
THEOREM RunOnlyShrinksCorrect ==
  ASSUME NoWrites
  PROVE  Spec => RunOnlyShrinks
<1>. DEFINE I == TypeInv /\ MainInv /\ ClientInv /\ NoWriteInv
<1>1. Init => I
  BY TypeInvInit, MainInvInit, ClientInvInit, NoWriteInit
<1>2. I /\ [Next]_vars => I'
  BY TypeInvNext, MainInvNext, ClientInvNext, NoWriteNext
<1>3. I /\ [Next]_vars => [OnlyDeletes]_vars
  <2>. SUFFICES ASSUME I, [Next]_vars, main = "run" PROVE OnlyDeletes
    BY DEF OnlyDeletes
  <2>1. ASSUME UNCHANGED lsm, \A d \in Client : oks'[d] = oks[d] \/ oks'[d] = 0
        PROVE  OnlyDeletes
    <3>1. \A d \in Client : oks[d] \in Nat
      BY DEF TypeInv, TypeOK
    <3>. QED BY <2>1, <3>1 DEF OnlyDeletes
  <2>2. CASE Main \/ AllExited \/ UNCHANGED vars
    <3>1. oks \in [Client -> Nat]
      BY DEF TypeInv, TypeOK
    <3>. QED
      BY <2>1, <2>2, <3>1
         DEF Main, StartProcess, Launch, GetResult, EndLoad, EndRun, AllExited, vars,
             clientVars
  <2>3. ASSUME NEW c \in Client, ClientStep(c) PROVE OnlyDeletes
    BY <2>3, OnlyDeletesStep
  <2>. QED BY <2>2, <2>3 DEF Next
<1>4. [][OnlyDeletes]_vars => RunOnlyShrinks
  BY DEF OnlyDeletes, RunOnlyShrinks
<1>. QED BY <1>1, <1>2, <1>3, <1>4, PTL DEF Spec
=============================================================================
