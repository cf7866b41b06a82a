----------------------------- MODULE YcsbcProof -----------------------------
(***************************************************************************)
(* Proofs about Ycsbc, for every number of threads, records, operations    *)
(* and invocations, every mix and every distribution.                      *)
(***************************************************************************)
EXTENDS YcsbcInv, FiniteSetTheorems, TLAPS

-----------------------------------------------------------------------------
(* What the generators and the workload yield. *)

(* A step of a counter, and its last value, stay within a uint64_t.        *)
LEMMA CounterBounds ==
  \A n \in KeyNum : CounterNext(n) \in KeyNum /\ CounterLast(n) \in KeyNum
BY WordAssumption DEF KeyNum, CounterNext, CounterLast

(* Every key that a chooser draws is a uint64_t: the bound it draws below  *)
(* is the record count, or the value the constructor left.                 *)
LEMMA ChosenKeysAreWords ==
  ASSUME insert_key_sequence \in {3, RecordCount}
  PROVE  ChosenKeys \subseteq KeyNum
<1>. DEFINE N == RecordCount + NewKeys
            max == CounterLast(insert_key_sequence)
<1>1. RequestDist \in {"uniform", "zipfian", "latest"} /\ RecordCount \in KeyNum
  BY WorkloadAssumption
<1>2. CASE RequestDist = "uniform"
  <2>1. CounterLast(RecordCount) \in KeyNum
    BY <1>1, CounterBounds
  <2>2. ChosenKeys = 0 .. CounterLast(RecordCount)
    BY <1>2 DEF ChosenKeys, UniformValues
  <2>. QED BY <2>1, <2>2, WordAssumption DEF KeyNum
<1>3. CASE RequestDist = "zipfian"
  <2>1. N \in 2 .. (Word - 1)
    BY <1>3, ChooserAssumption
  <2>2. ChosenKeys = {Hash(z) % N : z \in {0, 1} \cup 0 .. (0 + N - 1)}
    BY <1>3 DEF ChosenKeys, ScrambledZipfianValues, ZipfianValues
  <2>. HIDE DEF N
  <2>3. ASSUME NEW z \in {0, 1} \cup 0 .. (0 + N - 1)
        PROVE  Hash(z) % N \in KeyNum
    <3>1. z \in KeyNum
      BY <2>1, WordAssumption DEF KeyNum
    <3>2. Hash(z) \in Nat
      BY <3>1, HashAssumption DEF KeyNum
    <3>3. \A h \in Nat : h % N \in 0 .. (N - 1)
      BY <2>1
    <3>. QED BY <2>1, <3>2, <3>3, WordAssumption DEF KeyNum
  <2>. QED BY <2>2, <2>3
<1>4. CASE RequestDist = "latest"
  <2>1. RecordCount >= 3
    BY <1>4, ChooserAssumption
  <2>2. max \in 2 .. (Word - 1)
    BY <1>1, <2>1, WordAssumption DEF CounterLast, KeyNum
  <2>3. ChosenKeys = {max - z : z \in {0, 1} \cup 0 .. (0 + max - 1)}
    BY <1>4 DEF ChosenKeys, SkewedLatestValues, ZipfianValues
  <2>. HIDE DEF max
  <2>. QED BY <2>2, <2>3, WordAssumption DEF KeyNum
<1>. QED BY <1>1, <1>2, <1>3, <1>4

LEMMA FieldLengthsAreNat == FieldLengths \subseteq Nat
BY WorkloadAssumption
   DEF FieldLengths, ConstValues, UniformValues, ZipfianValues

LEMMA SeqElement ==
  ASSUME NEW S, NEW s \in Seq(S), NEW n \in 1 .. Len(s)
  PROVE  s[n] \in S
OBVIOUS

LEMMA ThreadsBounds ==
  \A n \in 1 .. Len(Command) : Command[n].threads \in 1 .. NumClients
<1>. DEFINE Invocation ==
       [threads : 1 .. NumClients, load : BOOLEAN, run : BOOLEAN]
<1>1. Command \in Seq(Invocation)
  BY CommandAssumption
<1>2. \A n \in 1 .. Len(Command) : Command[n] \in Invocation
  <2>. HIDE DEF Invocation
  <2>. QED BY <1>1, SeqElement
<1>. QED BY <1>2

-----------------------------------------------------------------------------
(* Type correctness. *)

LsmTypeOK ==
  /\ DOMAIN lsm \subseteq KeyName
  /\ \A k \in DOMAIN lsm : lsm[k] \in Nat

(* Completing an operation keeps the types of the client's variables.      *)
LEMMA CompleteType ==
  ASSUME TypeInv, NEW c \in Client, NEW status, Complete(c, status), LsmTypeOK'
  PROVE  TypeInv'
<1>. DEFINE gain == IF status = kOK THEN 1 ELSE 0
<1>1. gain \in Nat
  OBVIOUS
<1>2. oks' = [oks EXCEPT ![c] = @ + gain]
  BY DEF Complete
<1>3. oks' \in [Client -> Nat]
  <2>. HIDE DEF gain
  <2>. QED BY <1>1, <1>2 DEF TypeInv, TypeOK
<1>4. 0 \in KeyNum
  BY WordAssumption DEF KeyNum
<1>. QED
  BY <1>3, <1>4
     DEF TypeInv, TypeOK, LsmTypeOK, Complete, Goto, PcLabel, mainVars, workloadVars

(* A write, and the failure of one, keep the type of the database.         *)
LEMMA UpdateType ==
  ASSUME LsmTypeOK, NEW num \in KeyNum, NEW v \in FieldLengths, NEW status,
         Update(BuildKeyName(num), v, status)
  PROVE  LsmTypeOK'
<1>1. BuildKeyName(num) \in KeyName
  BY DEF KeyName
<1>2. Put(BuildKeyName(num), v) \/ UNCHANGED lsm
  BY DEF Update
<1>. QED BY <1>1, <1>2, FieldLengthsAreNat DEF LsmTypeOK, Put

LEMMA DeleteType ==
  ASSUME LsmTypeOK, NEW num \in KeyNum, NEW status, Delete(BuildKeyName(num), status)
  PROVE  LsmTypeOK'
BY DEF Delete, Remove, LsmTypeOK

LEMMA TypeInvInit == Init => TypeInv
<1>. SUFFICES ASSUME Init PROVE TypeInv
  OBVIOUS
<1>1. 0 \in KeyNum /\ 3 \in KeyNum
  BY WordAssumption DEF KeyNum
<1>2. Len(Command) \in Nat /\ Len(Command) >= 1
  BY CommandAssumption
<1>3. DOMAIN lsm = {}
  BY DEF Init, LsmInit
<1>. QED
  BY <1>1, <1>2, <1>3, CommandAssumption
     DEF Init, TypeInv, TypeOK, WorkloadConstructed, PcLabel

LEMMA TypeInvNext == TypeInv /\ [Next]_vars => TypeInv'
<1>. SUFFICES ASSUME TypeInv, [Next]_vars PROVE TypeInv'
  OBVIOUS
<1>. USE DEF TypeInv, TypeOK
<1>1. CASE StartProcess
  BY <1>1, WorkloadAssumption DEF StartProcess, WorkloadInit, clientVars
<1>2. CASE Launch
  <2>1. launched \in Client /\ launched + 1 \in 0 .. NumClients
    BY <1>2, ThreadsBounds, CommandAssumption DEF Launch, Client, Threads
  <2>2. actual_ops' \in Seq(Client)
    BY <1>2, <2>1 DEF Launch
  <2>3. /\ pc' \in [Client -> PcLabel] /\ is_loading' \in [Client -> BOOLEAN]
        /\ i' \in [Client -> Nat] /\ oks' \in [Client -> Nat]
    BY <1>2 DEF Launch, PcLabel
  <2>. QED BY <1>2, <2>1, <2>2, <2>3 DEF Launch, workloadVars
<1>3. CASE GetResult
  <2>. DEFINE c == actual_ops[joined + 1]
  <2>1. c \in Client
    BY <1>3, SeqElement DEF GetResult
  <2>2. sum' = sum + oks[c] /\ pc' = [pc EXCEPT ![c] = "absent"]
    BY <1>3 DEF GetResult
  <2>3. sum' \in Nat /\ pc' \in [Client -> PcLabel]
    <3>. HIDE DEF c
    <3>. QED BY <2>1, <2>2 DEF PcLabel
  <2>4. /\ joined' = joined + 1
        /\ UNCHANGED <<job, main, launched, actual_ops, printed, is_loading, i,
                       op, key, oks, workloadVars, lsm>>
    BY <1>3 DEF GetResult
  <2>. QED BY <2>3, <2>4 DEF workloadVars
<1>4. CASE EndLoad
  BY <1>4, CommandAssumption
     DEF EndLoad, ExitProcess, ResetPhase, clientVars, workloadVars
<1>5. CASE EndRun
  BY <1>5, CommandAssumption, WorkloadAssumption
     DEF EndRun, ExitProcess, ResetPhase, clientVars, workloadVars
<1>6. ASSUME NEW c \in Client, ClientStep(c) PROVE TypeInv'
  <2>. USE DEF mainVars, workloadVars
  <2>1. CASE NextOperation(c)
    BY <2>1 DEF NextOperation, Goto, PcLabel, Mix, DiscreteValues
  <2>2. CASE TakeSequenceKey(c)
    BY <2>2, CounterBounds DEF TakeSequenceKey, NextSequenceKey, Goto, PcLabel
  <2>3. CASE InsertRecord(c)
    BY <2>3, UpdateType, CompleteType DEF InsertRecord, Insert, LsmTypeOK
  <2>4. CASE DrawKey(c)
    BY <2>4, ChosenKeysAreWords DEF DrawKey, Goto, PcLabel
  <2>5. CASE TestKey(c)
    BY <2>5 DEF TestKey, Goto, PcLabel
  <2>6. CASE TransactionRead(c)
    BY <2>6, CompleteType DEF TransactionRead, Read, LsmTypeOK
  <2>7. CASE TransactionScan(c)
    BY <2>7, CompleteType DEF TransactionScan, Scan, LsmTypeOK
  <2>8. CASE TransactionDelete(c)
    BY <2>8, DeleteType, CompleteType DEF TransactionDelete, LsmTypeOK
  <2>9. CASE ReadBeforeWrite(c)
    BY <2>9 DEF ReadBeforeWrite, Read, Goto, PcLabel
  <2>10. CASE TransactionUpdate(c)
    BY <2>10, UpdateType, CompleteType DEF TransactionUpdate, LsmTypeOK
  <2>11. CASE ReturnOks(c)
    BY <2>11 DEF ReturnOks, Goto, PcLabel
  <2>. QED
    BY <1>6, <2>1, <2>2, <2>3, <2>4, <2>5, <2>6, <2>7, <2>8, <2>9, <2>10, <2>11
       DEF ClientStep
<1>7. CASE UNCHANGED vars
  BY <1>7 DEF vars, mainVars, clientVars, workloadVars
<1>. QED
  BY <1>1, <1>2, <1>3, <1>4, <1>5, <1>6, <1>7 DEF Next, Main, AllExited

(* Every variable keeps its type, whatever the clients interleave.         *)
THEOREM TypeCorrect == Spec => []TypeOK
<1>1. TypeInv => TypeOK
  BY DEF TypeInv
<1>. QED BY <1>1, TypeInvInit, TypeInvNext, PTL DEF Spec


-----------------------------------------------------------------------------
(* main and its futures. *)

(* What every step of a client leaves alone: main's variables, the phase   *)
(* it was launched for and the other clients' place.                       *)
LEMMA ClientStepFrame ==
  ASSUME TypeInv, NEW c \in Client, ClientStep(c)
  PROVE  /\ UNCHANGED <<mainVars, is_loading, insert_key_sequence>>
         /\ pc[c] \notin {"absent", "done"}
         /\ \E l \in PcLabel \ {"absent"} : pc' = [pc EXCEPT ![c] = l]
<1>. USE DEF Goto, Complete, workloadVars, PcLabel
<1>1. CASE NextOperation(c)
  BY <1>1 DEF NextOperation, InLoop
<1>2. CASE TakeSequenceKey(c)
  BY <1>2 DEF TakeSequenceKey, InLoop, NextSequenceKey
<1>3. CASE InsertRecord(c)
  BY <1>3 DEF InsertRecord
<1>4. CASE DrawKey(c)
  BY <1>4 DEF DrawKey
<1>5. CASE TestKey(c)
  BY <1>5 DEF TestKey
<1>6. CASE TransactionRead(c) \/ TransactionScan(c) \/ TransactionDelete(c)
  BY <1>6 DEF TransactionRead, TransactionScan, TransactionDelete
<1>7. CASE ReadBeforeWrite(c)
  BY <1>7 DEF ReadBeforeWrite
<1>8. CASE TransactionUpdate(c)
  BY <1>8 DEF TransactionUpdate
<1>9. CASE ReturnOks(c)
  BY <1>9 DEF ReturnOks
<1>. QED
  BY <1>1, <1>2, <1>3, <1>4, <1>5, <1>6, <1>7, <1>8, <1>9 DEF ClientStep

LEMMA MainInvInit == Init => MainInv
<1>. SUFFICES ASSUME Init PROVE MainInv
  OBVIOUS
<1>1. Threads \in 1 .. NumClients
  <2>1. job \in 1 .. Len(Command)
    BY TypeInvInit DEF TypeInv, TypeOK
  <2>. QED BY <2>1, ThreadsBounds DEF Threads
<1>. QED BY <1>1, CommandAssumption DEF Init, MainInv, Client

LEMMA MainInvNext == TypeInv /\ MainInv /\ [Next]_vars => MainInv'
<1>. SUFFICES ASSUME TypeInv, MainInv, [Next]_vars PROVE MainInv'
  OBVIOUS
<1>1. job \in 1 .. Len(Command) /\ Threads \in 1 .. NumClients
  BY ThreadsBounds DEF TypeInv, TypeOK, Threads
<1>2. job' \in 1 .. Len(Command) /\ Threads' \in 1 .. NumClients
  <2>1. TypeInv'
    BY TypeInvNext
  <2>. QED BY <2>1, ThreadsBounds DEF TypeInv, TypeOK, Threads
<1>3. /\ launched \in Nat /\ joined \in Nat /\ NumClients \in Nat
      /\ actual_ops \in Seq(Client)
      /\ pc \in [Client -> PcLabel]
      /\ is_loading \in [Client -> BOOLEAN]
      /\ \A c \in Client : c \in Nat
  BY CommandAssumption DEF TypeInv, TypeOK, Client
<1>4. CASE StartProcess
  BY <1>4, <1>3 DEF StartProcess, MainInv, clientVars, Threads
<1>5. CASE Launch
  <2>1. launched < Threads /\ launched' = launched + 1 /\ joined = 0
    BY <1>1, <1>3, <1>5 DEF Launch, MainInv
  <2>2. /\ actual_ops' = Append(actual_ops, launched)
        /\ UNCHANGED <<job, joined, main>> /\ main \in {"load", "run"}
        /\ pc' = [pc EXCEPT ![launched] = "loop"]
        /\ is_loading' = [is_loading EXCEPT ![launched] = (main = "load")]
    BY <1>5 DEF Launch
  <2>3. /\ Len(actual_ops') = launched'
        /\ \A n \in 1 .. launched' : actual_ops'[n] = n - 1
    BY <1>3, <2>1, <2>2 DEF MainInv
  <2>4. \A c \in Client :
          /\ pc'[c] # "absent" <=> joined' <= c /\ c < launched'
          /\ pc'[c] # "absent" => is_loading'[c] = (main' = "load")
    BY <1>3, <2>1, <2>2 DEF MainInv
  <2>. QED BY <1>1, <1>3, <2>1, <2>2, <2>3, <2>4 DEF MainInv, Threads
<1>6. CASE GetResult
  <2>1. /\ main \in {"load", "run"}
        /\ launched = Threads
        /\ joined < launched
        /\ pc' = [pc EXCEPT ![actual_ops[joined + 1]] = "absent"]
        /\ joined' = joined + 1
        /\ UNCHANGED <<job, main, launched, actual_ops, is_loading>>
    BY <1>6 DEF GetResult, MainInv
  <2>2. actual_ops[joined + 1] = joined
    BY <1>3, <2>1 DEF MainInv
  <2>3. \A c \in Client : pc'[c] # "absent" <=> joined' <= c /\ c < launched'
    BY <1>3, <2>1, <2>2 DEF MainInv
  <2>. QED BY <1>1, <1>3, <2>1, <2>2, <2>3 DEF MainInv, Threads
<1>7. CASE EndLoad \/ EndRun
  <2>1. /\ launched = joined
        /\ launched' = 0 /\ joined' = 0 /\ actual_ops' = << >>
        /\ UNCHANGED <<pc, is_loading>>
    BY <1>7 DEF EndLoad, EndRun, AllJoined, ResetPhase, MainInv, clientVars
  <2>2. \A c \in Client : pc'[c] = "absent"
    BY <1>3, <2>1 DEF MainInv
  <2>. QED BY <1>2, <1>3, <2>1, <2>2 DEF MainInv
<1>8. ASSUME NEW c \in Client, ClientStep(c) PROVE MainInv'
  <2>1. /\ UNCHANGED <<job, main, launched, actual_ops, joined, is_loading>>
        /\ pc[c] # "absent"
        /\ \E l \in PcLabel \ {"absent"} : pc' = [pc EXCEPT ![c] = l]
    BY <1>8, ClientStepFrame DEF mainVars
  <2>2. \A d \in Client : pc'[d] # "absent" <=> pc[d] # "absent"
    BY <1>3, <2>1
  <2>. QED BY <2>1, <2>2 DEF MainInv, Threads
<1>9. CASE UNCHANGED vars
  BY <1>9 DEF vars, mainVars, clientVars, MainInv, Threads
<1>. QED
  BY <1>4, <1>5, <1>6, <1>7, <1>8, <1>9 DEF Next, Main, AllExited
(* main never mixes the futures of two phases, whatever the threads do.    *)
THEOREM FuturesCorrect == Spec => []FuturesMatchThreads
<1>1. TypeInv /\ MainInv => FuturesMatchThreads
  <2>. SUFFICES ASSUME TypeInv, MainInv, launched = Threads
                PROVE  FuturesMatchThreads
    BY DEF FuturesMatchThreads
  <2>1. Threads \in Nat \ {0}
    BY ThreadsBounds, CommandAssumption DEF TypeInv, TypeOK, Threads
  <2>2. /\ Len(actual_ops) = Threads
        /\ \A n \in 1 .. Threads : actual_ops[n] = n - 1
    BY DEF MainInv
  <2>3. \A m \in 0 .. (Threads - 1) : m + 1 \in 1 .. Threads /\ actual_ops[m + 1] = m
    BY <2>1, <2>2
  <2>4. {actual_ops[n] : n \in 1 .. Len(actual_ops)} = 0 .. (Threads - 1)
    BY <2>1, <2>2, <2>3
  <2>. QED BY <2>2, <2>4 DEF FuturesMatchThreads
<1>. QED BY <1>1, TypeInvInit, TypeInvNext, MainInvInit, MainInvNext, PTL DEF Spec

(* The join loop is a barrier: main leaves a phase only when no client of  *)
(* the phase is alive.                                                     *)
THEOREM BarrierCorrect == Spec => PhasesDoNotOverlap
<1>1. ASSUME TypeInv, MainInv, [Next]_vars
      PROVE  [main' # main => \A c \in Client : pc[c] = "absent"]_vars
  <2>. SUFFICES ASSUME main' # main PROVE \A c \in Client : pc[c] = "absent"
    OBVIOUS
  <2>1. StartProcess \/ EndLoad \/ EndRun
    <3>1. \A c \in Client : ~ ClientStep(c)
      BY <1>1, ClientStepFrame DEF mainVars
    <3>. QED
      BY <1>1, <3>1
         DEF Next, Main, Launch, GetResult, AllExited, vars, mainVars
  <2>2. joined = launched
    BY <1>1, <2>1 DEF StartProcess, EndLoad, EndRun, AllJoined, MainInv, TypeInv, TypeOK
  <2>. QED
    BY <1>1, <2>2, CommandAssumption DEF MainInv, TypeInv, TypeOK, Client
<1>. QED
  BY <1>1, TypeInvInit, TypeInvNext, MainInvInit, MainInvNext, PTL
     DEF Spec, PhasesDoNotOverlap

=============================================================================
