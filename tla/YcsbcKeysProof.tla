--------------------------- MODULE YcsbcKeysProof ---------------------------
(***************************************************************************)
(* Proofs about the keys of Ycsbc: what the shared counter hands out, and  *)
(* what the database holds of it.                                          *)
(***************************************************************************)
EXTENDS YcsbcProof

-----------------------------------------------------------------------------
(* Arithmetic, and the sizes of the sets that count. *)

LEMMA DivBounds ==
  ASSUME NEW a \in Nat, NEW b \in Nat \ {0}
  PROVE  a \div b \in Nat /\ b * (a \div b) <= a /\ b * (a \div b) \in Nat
OBVIOUS

LEMMA IntervalSize ==
  ASSUME NEW n \in Nat
  PROVE  IsFiniteSet(0 .. (n - 1)) /\ Cardinality(0 .. (n - 1)) = n
<1>1. /\ IsFiniteSet(0 .. (n - 1))
      /\ Cardinality(0 .. (n - 1)) = IF 0 > n - 1 THEN 0 ELSE (n - 1) - 0 + 1
  BY n - 1 \in Int, FS_Interval
<1>. QED BY <1>1

LEMMA PhaseBounds ==
  ASSUME TypeInv
  PROVE  /\ Threads \in Nat \ {0} /\ Threads <= NumClients
         /\ LoadOps \in Nat /\ RunOps \in Nat /\ PhaseOps \in Nat
         /\ Threads * LoadOps \in Nat /\ Threads * LoadOps <= RecordCount
         /\ Threads * RunOps \in Nat /\ Threads * RunOps <= OperationCount
         /\ RecordCount \in Nat /\ OperationCount \in Nat /\ InsertStart \in Nat
<1>1. Threads \in Nat \ {0} /\ Threads <= NumClients
  BY ThreadsBounds, CommandAssumption DEF TypeInv, TypeOK, Threads
<1>2. RecordCount \in Nat /\ OperationCount \in Nat /\ InsertStart \in Nat
  BY WorkloadAssumption, WordAssumption DEF KeyNum
<1>. QED BY <1>1, <1>2, DivBounds DEF LoadOps, RunOps, PhaseOps

(* There are as many tickets as operations of the phase, at the most.      *)
LEMMA TicketsFinite ==
  ASSUME TypeInv
  PROVE  /\ IsFiniteSet(Rounds) /\ Cardinality(Rounds) = Threads * PhaseOps
         /\ IsFiniteSet(Tickets) /\ Cardinality(Tickets) \in Nat
<1>1. Threads \in Nat \ {0} /\ PhaseOps \in Nat
  BY PhaseBounds
<1>2. /\ IsFiniteSet(0 .. (Threads - 1)) /\ Cardinality(0 .. (Threads - 1)) = Threads
      /\ IsFiniteSet(0 .. (PhaseOps - 1)) /\ Cardinality(0 .. (PhaseOps - 1)) = PhaseOps
  BY <1>1, IntervalSize
<1>3. IsFiniteSet(Rounds) /\ Cardinality(Rounds) = Threads * PhaseOps
  <2>. DEFINE S == 0 .. (Threads - 1)
              T == 0 .. (PhaseOps - 1)
  <2>1. /\ IsFiniteSet(S) /\ Cardinality(S) = Threads
        /\ IsFiniteSet(T) /\ Cardinality(T) = PhaseOps
    BY <1>2
  <2>2. Rounds = S \X T
    BY DEF Rounds
  <2>. HIDE DEF S, T
  <2>. QED BY <2>1, <2>2, FS_Product
<1>4. Tickets \subseteq Rounds
  BY DEF Tickets, Rounds
<1>. QED BY <1>3, <1>4, FS_Subset, FS_CardinalityType

-----------------------------------------------------------------------------
(* The clients' progress. *)

(* What the proofs below use of the types.                                 *)
LEMMA TypeFacts ==
  ASSUME TypeInv
  PROVE  /\ pc \in [Client -> PcLabel] /\ i \in [Client -> Nat]
         /\ key \in [Client -> KeyNum]
         /\ launched \in Nat /\ joined \in Nat /\ job \in Nat \ {0}
         /\ key_generator \in Nat
         /\ KeyNum \subseteq Nat
         /\ \A c \in Client : c \in Nat
<1>1. KeyNum \subseteq Nat
  BY WordAssumption DEF KeyNum
<1>2. \A c \in Client : c \in Nat
  BY CommandAssumption DEF Client
<1>3. job \in Nat \ {0}
  BY DEF TypeInv, TypeOK
<1>4. /\ pc \in [Client -> PcLabel] /\ i \in [Client -> Nat]
      /\ key \in [Client -> KeyNum]
      /\ launched \in Nat /\ joined \in Nat /\ key_generator \in KeyNum
  BY DEF TypeInv, TypeOK
<1>. QED BY <1>1, <1>2, <1>3, <1>4

Busy(label) == label \notin {"absent", "loop", "done"}

(* A step of a client enters an operation, goes on with it, completes it   *)
(* or leaves the loop.                                                     *)
LEMMA ClientStepRounds ==
  ASSUME TypeInv, NEW c \in Client, ClientStep(c)
  PROVE  \/ InLoop(c) /\ Busy(pc'[c]) /\ UNCHANGED i
         \/ Busy(pc[c]) /\ Busy(pc'[c]) /\ UNCHANGED i
         \/ Busy(pc[c]) /\ pc'[c] = "loop" /\ i' = [i EXCEPT ![c] = @ + 1]
         \/ /\ pc[c] = "loop" /\ i[c] >= NumOps(is_loading[c])
            /\ pc'[c] = "done" /\ UNCHANGED i
<1>. USE DEF Goto, Complete, Busy, TypeInv, TypeOK
<1>1. CASE NextOperation(c)
  BY <1>1 DEF NextOperation
<1>2. CASE TakeSequenceKey(c)
  BY <1>2 DEF TakeSequenceKey
<1>3. CASE InsertRecord(c)
  BY <1>3 DEF InsertRecord
<1>4. CASE DrawKey(c)
  BY <1>4 DEF DrawKey
<1>5. CASE TestKey(c)
  BY <1>5 DEF TestKey
<1>6. CASE TransactionRead(c) \/ TransactionScan(c) \/ TransactionDelete(c)
  BY <1>6 DEF TransactionRead, TransactionScan, TransactionDelete
<1>7. CASE ReadBeforeWrite(c)
  BY <1>7 DEF ReadBeforeWrite
<1>8. CASE TransactionUpdate(c)
  BY <1>8 DEF TransactionUpdate
<1>9. CASE ReturnOks(c)
  BY <1>9 DEF ReturnOks
<1>. QED
  BY <1>1, <1>2, <1>3, <1>4, <1>5, <1>6, <1>7, <1>8, <1>9 DEF ClientStep

LEMMA RoundsInvInit == Init => RoundsInv
BY DEF Init, RoundsInv, Phase

(* A client never begins more rounds than its share, and has done all of   *)
(* them when it ends.                                                      *)
LEMMA RoundsInvNext ==
  TypeInv /\ TypeInv' /\ MainInv /\ RoundsInv /\ [Next]_vars => RoundsInv'
<1>. SUFFICES ASSUME TypeInv, TypeInv', MainInv, RoundsInv, [Next]_vars PROVE RoundsInv'
  OBVIOUS
<1>1. /\ launched \in Nat /\ joined \in Nat
      /\ i \in [Client -> Nat] /\ pc \in [Client -> PcLabel]
      /\ \A c \in Client : c \in Nat
      /\ PhaseOps \in Nat
  <2>1. PhaseOps \in Nat
    BY PhaseBounds
  <2>2. \A c \in Client : c \in Nat
    BY CommandAssumption DEF Client
  <2>. QED BY <2>1, <2>2 DEF TypeInv, TypeOK
<1>2. CASE StartProcess
  BY <1>1, <1>2 DEF StartProcess, RoundsInv, MainInv, Client
<1>3. CASE EndLoad \/ EndRun
  BY <1>1, <1>3 DEF EndLoad, EndRun, ResetPhase, RoundsInv
<1>4. CASE Launch
  <2>1. /\ launched' = launched + 1
        /\ pc' = [pc EXCEPT ![launched] = "loop"]
        /\ i' = [i EXCEPT ![launched] = 0]
        /\ UNCHANGED <<job, main>>
    BY <1>4 DEF Launch
  <2>2. PhaseOps' = PhaseOps /\ Phase' = Phase
    BY <2>1 DEF PhaseOps, LoadOps, RunOps, Threads, Phase
  <2>3. \A c \in Client : c < launched' =>
          IF c = launched THEN pc'[c] = "loop" /\ i'[c] = 0
          ELSE c < launched /\ pc'[c] = pc[c] /\ i'[c] = i[c]
    BY <1>1, <2>1
  <2>. QED BY <1>1, <2>2, <2>3 DEF RoundsInv, Begun
<1>5. CASE GetResult
  <2>1. /\ pc[actual_ops[joined + 1]] = "done"
        /\ pc' = [pc EXCEPT ![actual_ops[joined + 1]] = "absent"]
        /\ UNCHANGED <<job, main, launched, i>>
    BY <1>5 DEF GetResult
  <2>. QED
    BY <1>1, <2>1 DEF RoundsInv, Phase, Begun, PhaseOps, LoadOps, RunOps, Threads
<1>6. ASSUME NEW c \in Client, ClientStep(c) PROVE RoundsInv'
  <2>1. /\ UNCHANGED <<job, main, launched, is_loading>>
        /\ pc[c] \notin {"absent", "done"}
        /\ \E l \in PcLabel \ {"absent"} : pc' = [pc EXCEPT ![c] = l]
    BY <1>6, ClientStepFrame DEF mainVars
  <2>2. NumOps(is_loading[c]) = PhaseOps
    BY <2>1 DEF MainInv, PhaseOps, LoadOps, RunOps, NumOps
  <2>3. PhaseOps' = PhaseOps /\ Phase' = Phase
    BY <2>1 DEF PhaseOps, LoadOps, RunOps, Threads, Phase
  <2>4. \A d \in Client : d # c /\ i'[d] = i[d] => pc'[d] = pc[d] /\ Begun(d)' = Begun(d)
    BY <1>1, <2>1 DEF Begun
  <2>5. CASE InLoop(c) /\ Busy(pc'[c]) /\ UNCHANGED i
    BY <1>1, <2>1, <2>2, <2>3, <2>4, <2>5 DEF RoundsInv, Begun, InLoop, Busy
  <2>6. CASE Busy(pc[c]) /\ Busy(pc'[c]) /\ UNCHANGED i
    BY <1>1, <2>1, <2>2, <2>3, <2>4, <2>6 DEF RoundsInv, Begun, Busy
  <2>7. CASE Busy(pc[c]) /\ pc'[c] = "loop" /\ i' = [i EXCEPT ![c] = @ + 1]
    BY <1>1, <2>1, <2>2, <2>3, <2>4, <2>7 DEF RoundsInv, Begun, Busy
  <2>8. CASE pc[c] = "loop" /\ i[c] >= PhaseOps /\ pc'[c] = "done" /\ UNCHANGED i
    BY <1>1, <2>1, <2>2, <2>3, <2>4, <2>8 DEF RoundsInv, Begun
  <2>. QED BY <1>6, <2>2, <2>5, <2>6, <2>7, <2>8, ClientStepRounds
<1>7. CASE UNCHANGED vars
  BY <1>7 DEF vars, mainVars, clientVars, RoundsInv, Phase, Begun, PhaseOps, LoadOps,
     RunOps, Threads
<1>. QED
  BY <1>2, <1>3, <1>4, <1>5, <1>6, <1>7 DEF Next, Main, AllExited

-----------------------------------------------------------------------------
(* What a client may be doing, and to which key. *)

LEMMA ClientStepKey ==
  ASSUME TypeInv, NEW c \in Client, ClientStep(c)
  PROVE  \E n : key' = [key EXCEPT ![c] = n]
<1>. USE DEF TypeInv, TypeOK, Complete
<1>1. CASE NextOperation(c)
  BY <1>1 DEF NextOperation
<1>2. CASE TakeSequenceKey(c)
  BY <1>2 DEF TakeSequenceKey
<1>3. CASE InsertRecord(c)
  BY <1>3 DEF InsertRecord
<1>4. CASE DrawKey(c)
  BY <1>4 DEF DrawKey
<1>5. CASE TestKey(c)
  BY <1>5 DEF TestKey
<1>6. CASE TransactionRead(c) \/ TransactionScan(c) \/ TransactionDelete(c)
  BY <1>6 DEF TransactionRead, TransactionScan, TransactionDelete
<1>7. CASE ReadBeforeWrite(c)
  BY <1>7 DEF ReadBeforeWrite
<1>8. CASE TransactionUpdate(c)
  BY <1>8 DEF TransactionUpdate
<1>9. CASE ReturnOks(c)
  BY <1>9 DEF ReturnOks
<1>. QED
  BY <1>1, <1>2, <1>3, <1>4, <1>5, <1>6, <1>7, <1>8, <1>9 DEF ClientStep

(* What a step of a client does to the database: a write under the key     *)
(* number that it holds, a removal in a delete, or nothing.                *)
LEMMA ClientStepLsm ==
  ASSUME NEW c \in Client, ClientStep(c)
  PROVE  \/ UNCHANGED lsm
         \/ /\ pc[c] \in {"insert", "call", "update"}
            /\ \E v \in FieldLengths : Put(BuildKeyName(key[c]), v)
         \/ /\ pc[c] = "call" /\ op[c] = "DELETE"
            /\ Remove(BuildKeyName(key[c]))
<1>1. CASE NextOperation(c)
  BY <1>1 DEF NextOperation
<1>2. CASE TakeSequenceKey(c)
  BY <1>2 DEF TakeSequenceKey
<1>3. CASE InsertRecord(c)
  BY <1>3 DEF InsertRecord, Insert, Update
<1>4. CASE DrawKey(c)
  BY <1>4 DEF DrawKey
<1>5. CASE TestKey(c)
  BY <1>5 DEF TestKey
<1>6. CASE TransactionRead(c) \/ TransactionScan(c)
  BY <1>6 DEF TransactionRead, TransactionScan, Read, Scan
<1>7. CASE ReadBeforeWrite(c)
  BY <1>7 DEF ReadBeforeWrite, Read
<1>8. CASE TransactionUpdate(c)
  BY <1>8 DEF TransactionUpdate, Update
<1>9. CASE ReturnOks(c)
  BY <1>9 DEF ReturnOks
<1>10. CASE TransactionDelete(c)
  BY <1>10 DEF TransactionDelete, Delete
<1>. QED
  BY <1>1, <1>2, <1>3, <1>4, <1>5, <1>6, <1>7, <1>8, <1>9, <1>10 DEF ClientStep

LEMMA ClientStepLengths ==
  ASSUME NEW c \in Client, ClientStep(c), \A k \in DOMAIN lsm : lsm[k] \in FieldLengths
  PROVE  \A k \in DOMAIN lsm' : lsm'[k] \in FieldLengths
BY ClientStepLsm DEF Put, Remove

LEMMA ClientInvInit == Init => ClientInv
<1>. SUFFICES ASSUME Init PROVE ClientInv
  OBVIOUS
<1>1. DOMAIN lsm = {}
  BY DEF Init, LsmInit
<1>. QED BY <1>1 DEF Init, ClientInv

LEMMA ClientInvNext ==
  TypeInv /\ MainInv /\ ClientInv /\ [Next]_vars => ClientInv'
<1>. SUFFICES ASSUME TypeInv, MainInv, ClientInv, [Next]_vars PROVE ClientInv'
  OBVIOUS
<1>1. /\ pc \in [Client -> PcLabel] /\ is_loading \in [Client -> BOOLEAN]
      /\ key \in [Client -> KeyNum] /\ op \in [Client -> Operation \cup {"NONE"}]
  BY DEF TypeInv, TypeOK
<1>2. CASE StartProcess
  <2>1. \A c \in Client : pc[c] = "absent"
    BY <1>2, CommandAssumption DEF StartProcess, MainInv, TypeInv, TypeOK, Client
  <2>. QED
    BY <1>2, <2>1 DEF StartProcess, WorkloadInit, ClientInv, DoLoad, clientVars
<1>3. CASE EndLoad \/ EndRun
  BY <1>3
     DEF EndLoad, EndRun, ExitProcess, ClientInv, clientVars, workloadVars, Acceptable
<1>4. CASE Launch
  BY <1>1, <1>4 DEF Launch, ClientInv, workloadVars, DoLoad, Acceptable
<1>5. CASE GetResult
  <2>1. /\ pc' = [pc EXCEPT ![actual_ops[joined + 1]] = "absent"]
        /\ UNCHANGED <<job, main, is_loading, op, key, workloadVars, lsm>>
    BY <1>5 DEF GetResult
  <2>. QED BY <1>1, <2>1 DEF ClientInv, workloadVars, DoLoad, Acceptable
<1>6. ASSUME NEW c \in Client, ClientStep(c) PROVE ClientInv'
  <2>1. UNCHANGED <<job, main, is_loading, insert_key_sequence>>
    BY <1>6, ClientStepFrame DEF mainVars
  <2>2. \A k \in DOMAIN lsm' : lsm'[k] \in FieldLengths
    BY <1>6, ClientStepLengths DEF ClientInv
  <2>3. /\ op' \in [Client -> Operation \cup {"NONE"}]
        /\ op'[c] \in Mix \cup {"NONE"}
        /\ \A d \in Client : d # c => op'[d] = op[d]
        /\ pc'[c] # "absent" /\ is_loading[c] => pc'[c] \in {"loop", "insert", "done"}
        /\ pc'[c] \in {"call", "update"} => Acceptable(key'[c])
    <3>. USE <1>1 DEF ClientInv, Goto, Complete, Mix, DiscreteValues
    <3>1. CASE NextOperation(c)
      BY <3>1 DEF NextOperation
    <3>2. CASE TakeSequenceKey(c)
      BY <3>2 DEF TakeSequenceKey
    <3>3. CASE InsertRecord(c)
      BY <3>3 DEF InsertRecord
    <3>4. CASE DrawKey(c)
      BY <3>4 DEF DrawKey
    <3>5. CASE TestKey(c)
      BY <3>5 DEF TestKey
    <3>6. CASE TransactionRead(c) \/ TransactionScan(c) \/ TransactionDelete(c)
      BY <3>6 DEF TransactionRead, TransactionScan, TransactionDelete
    <3>7. CASE ReadBeforeWrite(c)
      BY <3>7 DEF ReadBeforeWrite
    <3>8. CASE TransactionUpdate(c)
      BY <3>8 DEF TransactionUpdate
    <3>9. CASE ReturnOks(c)
      BY <3>9 DEF ReturnOks
    <3>. QED
      BY <1>6, <3>1, <3>2, <3>3, <3>4, <3>5, <3>6, <3>7, <3>8, <3>9 DEF ClientStep
  <2>4. \A d \in Client : d # c => pc'[d] = pc[d] /\ key'[d] = key[d]
    BY <1>1, <1>6, ClientStepFrame, ClientStepKey
  <2>5. \A d \in Client : op'[d] \in Mix \cup {"NONE"}
    BY <2>3 DEF ClientInv
  <2>6. \A d \in Client :
          /\ pc'[d] # "absent" /\ is_loading'[d] => pc'[d] \in {"loop", "insert", "done"}
          /\ pc'[d] \in {"call", "update"} => Acceptable(key[d])'
    BY <2>1, <2>3, <2>4 DEF ClientInv, Acceptable
  <2>7. /\ main' \in {"load", "run"} => insert_key_sequence' = RecordCount
        /\ main' = "load" => DoLoad(job)'
    BY <2>1 DEF ClientInv, DoLoad
  <2>. QED BY <2>2, <2>5, <2>6, <2>7 DEF ClientInv
<1>7. CASE UNCHANGED vars
  BY <1>7
     DEF vars, mainVars, clientVars, workloadVars, ClientInv, DoLoad, Acceptable
<1>. QED
  BY <1>2, <1>3, <1>4, <1>5, <1>6, <1>7 DEF Next, Main, AllExited

-----------------------------------------------------------------------------
(* The key counter. *)

LEMMA FloorBounds ==
  ASSUME TypeInv, KeysSuffice, Phase
  PROVE  /\ Floor \in Nat
         /\ Threads * PhaseOps \in Nat
         /\ Floor + Threads * PhaseOps <= Word - 1
<1>1. InsertStart + RecordCount + OperationCount <= Word - 1 /\ Word \in Nat
  BY WordAssumption DEF KeysSuffice
<1>2. CASE main = "load"
  BY <1>1, <1>2, PhaseBounds DEF Floor, PhaseOps
<1>3. CASE main = "run"
  BY <1>1, <1>3, PhaseBounds DEF Floor, PhaseOps
<1>. QED BY <1>2, <1>3 DEF Phase

(* A round that took no key yet is not a ticket: there is room for one.    *)
LEMMA TicketsRoom ==
  ASSUME TypeInv, MainInv, NEW c \in Client, c < launched,
         Claimed(c) = i[c], i[c] < PhaseOps
  PROVE  Cardinality(Tickets \cup {<<c, i[c]>>}) = Cardinality(Tickets) + 1
<1>1. IsFiniteSet(Tickets)
  BY TicketsFinite
<1>2. <<c, i[c]>> \notin Tickets
  BY DEF Tickets, TypeInv, TypeOK
<1>. QED BY <1>1, <1>2, FS_AddElement

(* When every thread of a phase was joined, every round is a ticket.       *)
LEMMA TicketsFull ==
  ASSUME TypeInv, MainInv, RoundsInv, Phase, AllJoined
  PROVE  Cardinality(Tickets) = Threads * PhaseOps
<1>1. \A c \in 0 .. (Threads - 1) : c \in Client /\ c < launched
  <2>1. Threads \in Nat /\ Threads <= NumClients /\ NumClients \in Nat
    BY PhaseBounds, CommandAssumption
  <2>2. launched = Threads
    BY DEF AllJoined
  <2>. QED BY <2>1, <2>2 DEF Client
<1>2. \A c \in Client : c < launched => pc[c] = "absent" /\ i[c] = PhaseOps
  <2>1. joined = launched
    BY DEF AllJoined, MainInv
  <2>. QED BY <2>1, TypeFacts DEF MainInv, RoundsInv
<1>3. \A c \in 0 .. (Threads - 1) : Claimed(c) = PhaseOps
  <2>1. PhaseOps \in Nat
    BY PhaseBounds
  <2>. QED BY <1>1, <1>2, <2>1 DEF Claimed
<1>4. Tickets = Rounds
  <2>1. PhaseOps \in Nat
    BY PhaseBounds
  <2>. QED BY <1>1, <1>3, <2>1 DEF Tickets, Rounds
<1>. QED BY <1>4, TicketsFinite

(* Steps that leave main, the counter and the inserting clients alone keep *)
(* the invariant, when they lose no ticket and, while loading, gain none.  *)
LEMMA CounterInvFrame ==
  ASSUME TypeInv, TypeInv', CounterInv,
         UNCHANGED <<job, main, key_generator>>,
         Tickets \subseteq Tickets',
         main = "load" => Tickets' = Tickets,
         \A c \in Client : pc'[c] = "insert" => pc[c] = "insert" /\ key'[c] = key[c]
  PROVE  CounterInv'
<1>1. Floor' = Floor /\ Phase' = Phase
  BY DEF Floor, Phase, LoadOps, Threads, DoLoad
<1>2. /\ Cardinality(Tickets) \in Nat /\ Cardinality(Tickets') \in Nat
      /\ Cardinality(Tickets) <= Cardinality(Tickets')
  <2>1. Tickets' \subseteq Rounds
    BY DEF Tickets, Rounds, Threads, PhaseOps, LoadOps, RunOps
  <2>2. IsFiniteSet(Tickets') /\ Cardinality(Tickets') \in Nat
    BY <2>1, TicketsFinite, FS_Subset, FS_CardinalityType
  <2>. QED BY <2>2, TicketsFinite, FS_Subset
<1>3. Phase => Floor \in Int
  BY PhaseBounds DEF Floor
<1>. QED BY <1>1, <1>2, <1>3 DEF CounterInv

LEMMA CounterInvInit == Init => CounterInv
BY DEF Init, CounterInv, Phase

(* Taking a key takes a ticket, and there are no more than operations.     *)
LEMMA TicketTaken ==
  ASSUME TypeInv, MainInv, RoundsInv, NEW c \in Client, TakeSequenceKey(c)
  PROVE  /\ Phase /\ c < launched /\ i[c] < PhaseOps
         /\ Tickets' = Tickets \cup {<<c, i[c]>>}
         /\ Cardinality(Tickets') = Cardinality(Tickets) + 1
         /\ Cardinality(Tickets') <= Threads * PhaseOps
<1>1. /\ UNCHANGED <<job, main, launched, i, is_loading>>
      /\ pc[c] \in {"loop", "sequence"}
      /\ pc' = [pc EXCEPT ![c] = "insert"]
      /\ pc[c] = "loop" => InLoop(c)
  BY DEF TakeSequenceKey, InLoop, Goto, mainVars
<1>. DEFINE bounds == /\ Threads \in Nat /\ PhaseOps \in Nat /\ NumClients \in Nat
                      /\ launched \in Nat /\ joined \in Nat /\ launched <= Threads
                      /\ Threads <= NumClients
<1>0. bounds
  <2>1. Threads \in Nat /\ PhaseOps \in Nat /\ Threads <= NumClients
    BY PhaseBounds
  <2>2. launched \in Nat /\ joined \in Nat
    BY DEF TypeInv, TypeOK
  <2>. QED BY <2>1, <2>2, CommandAssumption DEF MainInv
<1>2. pc \in [Client -> PcLabel] /\ i \in [Client -> Nat]
  BY TypeFacts
<1>3. c \in Nat /\ joined <= c /\ c < launched /\ Phase
  <2>1. c \in Nat /\ joined <= c /\ c < launched
    BY <1>0, <1>1 DEF MainInv, Client
  <2>2. main \in {"start", "load", "run", "exit"} /\ launched # 0
    BY <2>1, <1>0 DEF TypeInv, TypeOK
  <2>. QED BY <2>1, <2>2 DEF MainInv, Phase
<1>4. i[c] < PhaseOps /\ Claimed(c) = i[c]
  <2>1. Claimed(c) = i[c]
    BY <1>1, <1>2 DEF Claimed
  <2>2. CASE pc[c] = "loop"
    BY <1>1, <2>1, <2>2 DEF InLoop, MainInv, PhaseOps, LoadOps, RunOps, NumOps
  <2>3. CASE pc[c] = "sequence"
    BY <1>2, <1>3, <2>1, <2>3, PhaseBounds DEF RoundsInv, Begun
  <2>. QED BY <1>1, <2>1, <2>2, <2>3
<1>. DEFINE T == Tickets \cup {<<c, i[c]>>}
<1>5. /\ IsFiniteSet(Tickets) /\ Cardinality(Tickets) \in Nat
      /\ Cardinality(T) = Cardinality(Tickets) + 1
  BY <1>3, <1>4, TicketsFinite, TicketsRoom
<1>6. Tickets' = T
  <2>1. /\ Claimed(c)' = i[c] + 1
        /\ \A d \in Client : d # c => Claimed(d)' = Claimed(d)
    BY <1>1, <1>2 DEF Claimed
  <2>2. Rounds' = Rounds /\ launched' = launched
    BY <1>1 DEF Rounds, Threads, PhaseOps, LoadOps, RunOps
  <2>3. \A t \in Rounds : t[1] < launched => t[1] \in Client
    BY <1>0 DEF Rounds, Client
  <2>4. <<c, i[c]>> \in Rounds
    BY <1>0, <1>2, <1>3, <1>4 DEF Rounds, Client
  <2>5. \A t \in Rounds :
          t[1] < launched /\ t[2] < Claimed(t[1])'
            <=> (t[1] < launched /\ t[2] < Claimed(t[1])) \/ t = <<c, i[c]>>
    <3>. SUFFICES ASSUME NEW t \in Rounds, t[1] < launched
                  PROVE  t[2] < Claimed(t[1])' <=> t[2] < Claimed(t[1]) \/ t = <<c, i[c]>>
      BY <1>3
    <3>1. t = <<t[1], t[2]>> /\ t[2] \in Nat /\ t[1] \in Client
      BY <2>3, PhaseBounds DEF Rounds
    <3>2. CASE t[1] = c
      BY <1>2, <1>4, <2>1, <3>1, <3>2
    <3>3. CASE t[1] # c
      BY <2>1, <3>1, <3>3
    <3>. QED BY <3>2, <3>3
  <2>. QED BY <2>2, <2>4, <2>5 DEF Tickets, Rounds
<1>7. Cardinality(T) <= Threads * PhaseOps
  <2>1. Tickets \subseteq Rounds /\ <<c, i[c]>> \in Rounds
    BY <1>0, <1>2, <1>3, <1>4 DEF Tickets, Rounds, Client
  <2>2. T \subseteq Rounds
    BY <2>1
  <2>. QED BY <2>2, TicketsFinite, FS_Subset
<1>. HIDE DEF T
<1>. QED BY <1>3, <1>4, <1>5, <1>6, <1>7 DEF T

(* fetch_add: one more ticket and one more key, which no other client has. *)
LEMMA CounterInvTake ==
  ASSUME TypeInv, TypeInv', MainInv, RoundsInv, CounterInv, KeysSuffice,
         NEW c \in Client, TakeSequenceKey(c)
  PROVE  /\ key_generator' = key_generator + 1
         /\ CounterInv'
<1>1. /\ UNCHANGED <<job, main, launched, i, is_loading>>
      /\ pc[c] \in {"loop", "sequence"}
      /\ key' = [key EXCEPT ![c] = key_generator]
      /\ pc' = [pc EXCEPT ![c] = "insert"]
      /\ key_generator' = CounterNext(key_generator)
      /\ pc[c] = "loop" => InLoop(c)
  BY DEF TakeSequenceKey, InLoop, NextSequenceKey, Goto, mainVars
<1>2. /\ pc \in [Client -> PcLabel] /\ key \in [Client -> KeyNum]
      /\ key_generator \in Nat
  BY TypeFacts
<1>3. Phase
  BY TicketTaken
<1>4. /\ Cardinality(Tickets) \in Nat
      /\ Cardinality(Tickets') = Cardinality(Tickets) + 1
      /\ Cardinality(Tickets') <= Threads * PhaseOps
  BY TicketsFinite, TicketTaken
<1>5. Floor' = Floor /\ Phase' = Phase /\ Floor \in Nat
  BY <1>1, <1>3, FloorBounds DEF Floor, Phase, LoadOps, Threads, DoLoad
<1>6. /\ key_generator \in Floor .. (Floor + Cardinality(Tickets))
      /\ main = "load" => key_generator = Floor + Cardinality(Tickets)
  BY <1>3 DEF CounterInv
<1>7. key_generator' = key_generator + 1
  <2>1. key_generator + 1 <= Word - 1
    BY <1>2, <1>3, <1>4, <1>6, FloorBounds, WordAssumption
  <2>. QED BY <1>1, <1>2, <2>1, WordAssumption DEF CounterNext
<1>8. \A d \in Client : pc'[d] = "insert" =>
         key'[d] = IF d = c THEN key_generator ELSE key[d]
  BY <1>1, <1>2
<1>9. \A d \in Client : d # c /\ pc'[d] = "insert" =>
         pc[d] = "insert" /\ key[d] \in Floor .. (key_generator - 1)
  BY <1>1, <1>2, <1>3 DEF CounterInv
<1>10. /\ key_generator' \in Floor' .. (Floor' + Cardinality(Tickets'))
       /\ main' = "load" => key_generator' = Floor' + Cardinality(Tickets')
  BY <1>1, <1>2, <1>4, <1>5, <1>6, <1>7
<1>11. \A d \in Client : pc'[d] = "insert" => key'[d] \in Floor' .. (key_generator' - 1)
  BY <1>2, <1>5, <1>6, <1>7, <1>8, <1>9
<1>12. \A d, e \in Client :
         d # e /\ pc'[d] = "insert" /\ pc'[e] = "insert" => key'[d] # key'[e]
  BY <1>2, <1>3, <1>5, <1>8, <1>9 DEF CounterInv
<1>. QED BY <1>7, <1>10, <1>11, <1>12 DEF CounterInv

(* Every other step of a client leaves the counter alone, and does not     *)
(* give back what the client claimed.                                      *)
LEMMA ClientStepClaims ==
  ASSUME TypeInv, NEW c \in Client, ClientStep(c), ~ TakeSequenceKey(c)
  PROVE  /\ UNCHANGED key_generator
         /\ pc'[c] # "insert"
         /\ Claimed(c)' \in {Claimed(c), Claimed(c) + 1}
         /\ pc[c] \in {"loop", "insert", "done"} /\ is_loading[c] => Claimed(c)' = Claimed(c)
<1>1. pc \in [Client -> PcLabel] /\ i \in [Client -> Nat]
  BY DEF TypeInv, TypeOK
<1>. USE <1>1 DEF Goto, Complete, workloadVars, Claimed
<1>2. CASE NextOperation(c)
  BY <1>2 DEF NextOperation, InLoop
<1>3. CASE InsertRecord(c)
  BY <1>3 DEF InsertRecord
<1>4. CASE DrawKey(c)
  BY <1>4 DEF DrawKey
<1>5. CASE TestKey(c)
  BY <1>5 DEF TestKey
<1>6. CASE TransactionRead(c) \/ TransactionScan(c) \/ TransactionDelete(c)
  BY <1>6 DEF TransactionRead, TransactionScan, TransactionDelete
<1>7. CASE ReadBeforeWrite(c)
  BY <1>7 DEF ReadBeforeWrite
<1>8. CASE TransactionUpdate(c)
  BY <1>8 DEF TransactionUpdate
<1>9. CASE ReturnOks(c)
  BY <1>9 DEF ReturnOks
<1>. QED
  BY <1>2, <1>3, <1>4, <1>5, <1>6, <1>7, <1>8, <1>9 DEF ClientStep

(* Steps within a phase that take no key give no ticket back, and while    *)
(* loading they take none.                                                 *)
LEMMA TicketsKept ==
  ASSUME TypeInv, TypeInv', MainInv, ClientInv,
         \/ Launch \/ GetResult \/ UNCHANGED vars
         \/ \E c \in Client : ClientStep(c) /\ ~ TakeSequenceKey(c)
  PROVE  Tickets \subseteq Tickets' /\ (main = "load" => Tickets' = Tickets)
<1>1. /\ launched \in Nat
      /\ i \in [Client -> Nat] /\ pc \in [Client -> PcLabel]
      /\ \A c \in Client : c \in Nat
  BY TypeFacts
<1>2. Threads \in Nat /\ PhaseOps \in Nat /\ NumClients \in Nat /\ Threads <= NumClients
  BY PhaseBounds, CommandAssumption
<1>3. \A t \in Rounds : t[1] \in Client /\ t[2] \in Nat
  BY <1>2 DEF Rounds, Client
<1>4. CASE Launch
  <2>1. /\ launched' = launched + 1
        /\ pc' = [pc EXCEPT ![launched] = "loop"]
        /\ i' = [i EXCEPT ![launched] = 0]
        /\ UNCHANGED <<job, main>>
    BY <1>4 DEF Launch
  <2>2. Rounds' = Rounds
    BY <2>1 DEF Rounds, Threads, PhaseOps, LoadOps, RunOps
  <2>3. \A t \in Rounds :
          t[1] < launched' /\ t[2] < Claimed(t[1])'
            <=> t[1] < launched /\ t[2] < Claimed(t[1])
    <3>. SUFFICES ASSUME NEW t \in Rounds
                  PROVE  t[1] < launched' /\ t[2] < Claimed(t[1])'
                           <=> t[1] < launched /\ t[2] < Claimed(t[1])
      OBVIOUS
    <3>. QED BY <1>1, <1>3, <2>1 DEF Claimed
  <2>. QED BY <2>2, <2>3 DEF Tickets, Rounds
<1>5. CASE GetResult
  <2>1. /\ pc[actual_ops[joined + 1]] = "done"
        /\ pc' = [pc EXCEPT ![actual_ops[joined + 1]] = "absent"]
        /\ UNCHANGED <<job, main, launched, i>>
    BY <1>5 DEF GetResult
  <2>2. \A c \in Client : Claimed(c)' = Claimed(c)
    BY <1>1, <2>1 DEF Claimed
  <2>. QED
    BY <1>3, <2>1, <2>2 DEF Tickets, Rounds, Threads, PhaseOps, LoadOps, RunOps
<1>6. ASSUME NEW c \in Client, ClientStep(c), ~ TakeSequenceKey(c)
      PROVE  Tickets \subseteq Tickets' /\ (main = "load" => Tickets' = Tickets)
  <2>1. /\ UNCHANGED <<job, main, launched, is_loading>>
        /\ pc[c] \notin {"absent", "done"}
        /\ \E l : pc' = [pc EXCEPT ![c] = l]
        /\ i' = i \/ i' = [i EXCEPT ![c] = @ + 1]
    BY <1>6, ClientStepFrame, ClientStepRounds DEF mainVars
  <2>2. \A d \in Client : d # c => Claimed(d)' = Claimed(d)
    BY <1>1, <2>1 DEF Claimed
  <2>3. \A d \in Client : Claimed(d) <= Claimed(d)'
    <3>1. Claimed(c) \in Nat /\ Claimed(c)' \in {Claimed(c), Claimed(c) + 1}
      BY <1>1, <1>6, ClientStepClaims DEF Claimed
    <3>2. \A d \in Client : Claimed(d) \in Nat
      BY <1>1 DEF Claimed
    <3>. QED BY <2>2, <3>1, <3>2
  <2>4. main = "load" => \A d \in Client : Claimed(d)' = Claimed(d)
    <3>. SUFFICES ASSUME main = "load" PROVE \A d \in Client : Claimed(d)' = Claimed(d)
      OBVIOUS
    <3>1. is_loading[c] /\ pc[c] \in {"loop", "insert", "done"}
      BY <2>1 DEF ClientInv, MainInv
    <3>2. Claimed(c)' = Claimed(c)
      BY <1>6, <3>1, ClientStepClaims
    <3>. QED BY <2>2, <3>2
  <2>5. Rounds' = Rounds
    BY <2>1 DEF Rounds, Threads, PhaseOps, LoadOps, RunOps
  <2>6. \A d \in Client : Claimed(d) \in Nat /\ Claimed(d)' \in Nat
    <3>1. i' \in [Client -> Nat]
      BY DEF TypeInv, TypeOK
    <3>. QED BY <1>1, <3>1 DEF Claimed
  <2>. QED BY <1>3, <2>1, <2>3, <2>4, <2>5, <2>6 DEF Tickets, Rounds
<1>7. CASE UNCHANGED vars
  BY <1>7
     DEF vars, mainVars, clientVars, Tickets, Claimed, Threads, PhaseOps, LoadOps, RunOps
<1>. QED BY <1>4, <1>5, <1>6, <1>7

LEMMA CounterInvNext ==
  ASSUME TypeInv, TypeInv', MainInv, MainInv', ClientInv, RoundsInv, CounterInv,
         KeysSuffice, [Next]_vars
  PROVE  CounterInv'
<1>1. /\ launched \in Nat /\ joined \in Nat
      /\ i \in [Client -> Nat] /\ pc \in [Client -> PcLabel]
      /\ \A c \in Client : c \in Nat
      /\ key_generator \in Nat
  BY TypeFacts
<1>2. Threads \in Nat /\ PhaseOps \in Nat /\ NumClients \in Nat /\ Threads <= NumClients
  BY PhaseBounds, CommandAssumption
<1>3. CASE StartProcess
  <2>1. \A c \in Client : pc'[c] = "absent"
    BY <1>1, <1>3 DEF StartProcess, MainInv, clientVars
  <2>2. launched' = 0 /\ key_generator' = InsertStart
    BY <1>3 DEF StartProcess, MainInv, WorkloadInit
  <2>3. Cardinality(Tickets') = 0
    <3>1. \A n \in 0 .. (Threads' - 1) : ~ (n < launched')
      BY <2>2
    <3>2. Tickets' = {}
      BY <3>1 DEF Tickets
    <3>. QED BY <3>2, FS_EmptySet
  <2>4. Floor' = InsertStart
    BY <1>3, PhaseBounds DEF StartProcess, Floor, DoLoad
  <2>. QED BY <2>1, <2>2, <2>3, <2>4, PhaseBounds DEF CounterInv
<1>4. CASE Launch
  <2>1. /\ launched' = launched + 1
        /\ pc' = [pc EXCEPT ![launched] = "loop"]
        /\ i' = [i EXCEPT ![launched] = 0]
        /\ UNCHANGED <<job, main, key_generator, key>>
    BY <1>4 DEF Launch, workloadVars
  <2>2. Tickets \subseteq Tickets' /\ (main = "load" => Tickets' = Tickets)
    BY <1>4, TicketsKept
  <2>. QED BY <1>1, <2>1, <2>2, CounterInvFrame
<1>5. CASE GetResult
  <2>1. /\ pc[actual_ops[joined + 1]] = "done"
        /\ pc' = [pc EXCEPT ![actual_ops[joined + 1]] = "absent"]
        /\ UNCHANGED <<job, main, launched, i, key, key_generator>>
    BY <1>5 DEF GetResult, workloadVars
  <2>2. Tickets \subseteq Tickets' /\ (main = "load" => Tickets' = Tickets)
    BY <1>5, TicketsKept
  <2>. QED BY <1>1, <2>1, <2>2, CounterInvFrame
<1>6. CASE EndLoad
  <2>1. /\ AllJoined /\ main = "load" /\ launched' = 0
        /\ UNCHANGED <<pc, key_generator>>
        /\ main' = "run" => job' = job
        /\ main' \in {"run", "start", "exit"}
    BY <1>6 DEF EndLoad, ResetPhase, ExitProcess, clientVars, workloadVars
  <2>2. \A c \in Client : pc[c] = "absent"
    BY <1>1, <2>1 DEF AllJoined, MainInv
  <2>3. key_generator = InsertStart + Threads * LoadOps
    <3>1. Cardinality(Tickets) = Threads * LoadOps
      BY <2>1, TicketsFull DEF Phase, PhaseOps
    <3>2. Floor = InsertStart
      BY <2>1, PhaseBounds DEF Floor
    <3>. QED BY <2>1, <3>1, <3>2 DEF CounterInv, Phase
  <2>4. main' = "run" => Floor' = InsertStart + Threads * LoadOps
    BY <2>1 DEF Floor, ClientInv, DoLoad, Threads, LoadOps
  <2>5. Cardinality(Tickets') = 0
    <3>1. \A n \in 0 .. (Threads' - 1) : ~ (n < launched')
      BY <2>1
    <3>2. Tickets' = {}
      BY <3>1 DEF Tickets
    <3>. QED BY <3>2, FS_EmptySet
  <2>. QED BY <1>1, <2>1, <2>2, <2>3, <2>4, <2>5 DEF CounterInv, Phase
<1>7. CASE EndRun
  BY <1>7 DEF EndRun, ExitProcess, CounterInv, Phase
<1>8. ASSUME NEW c \in Client, ClientStep(c), ~ TakeSequenceKey(c) PROVE CounterInv'
  <2>1. /\ UNCHANGED <<job, main, launched, is_loading>>
        /\ pc[c] \notin {"absent", "done"}
        /\ \A d \in Client : d # c => pc'[d] = pc[d] /\ key'[d] = key[d] /\ i'[d] = i[d]
    <3>1. key \in [Client -> KeyNum]
      BY DEF TypeInv, TypeOK
    <3>2. /\ UNCHANGED <<job, main, launched, is_loading>>
          /\ pc[c] \notin {"absent", "done"}
          /\ \E l : pc' = [pc EXCEPT ![c] = l]
      BY <1>8, ClientStepFrame DEF mainVars
    <3>3. \E n : key' = [key EXCEPT ![c] = n]
      BY <1>8, ClientStepKey
    <3>4. i' = i \/ i' = [i EXCEPT ![c] = @ + 1]
      BY <1>8, ClientStepRounds
    <3>. QED BY <1>1, <3>1, <3>2, <3>3, <3>4
  <2>2. /\ UNCHANGED key_generator
        /\ \A d \in Client : pc'[d] = "insert" => pc[d] = "insert" /\ key'[d] = key[d]
    BY <1>8, <2>1, ClientStepClaims
  <2>3. Tickets \subseteq Tickets' /\ (main = "load" => Tickets' = Tickets)
    BY <1>8, TicketsKept
  <2>. QED BY <2>1, <2>2, <2>3, CounterInvFrame
<1>9. ASSUME NEW c \in Client, TakeSequenceKey(c) PROVE CounterInv'
  BY <1>9, CounterInvTake
<1>10. CASE UNCHANGED vars
  <2>1. UNCHANGED <<job, main, launched, i, pc, key, key_generator>>
    BY <1>10 DEF vars, mainVars, clientVars, workloadVars
  <2>2. Tickets' = Tickets
    BY <2>1 DEF Tickets, Claimed, Threads, PhaseOps, LoadOps, RunOps
  <2>. QED BY <2>1, <2>2, CounterInvFrame
<1>. QED
  BY <1>3, <1>4, <1>5, <1>6, <1>7, <1>8, <1>9, <1>10 DEF Next, Main, AllExited

-----------------------------------------------------------------------------
(* What the database holds. *)

(* The database and the inserts under way go on to hold exactly the keys   *)
(* handed out, if a transaction writes only under keys that are stored.    *)
LEMMA AccountedStep ==
  ASSUME TypeInv, TypeInv', MainInv, RoundsInv, CounterInv, KeysSuffice,
         "Put" \notin Throwing, Phase, Accounted, NEW c \in Client, ClientStep(c),
         pc[c] \in {"call", "update"} => op[c] # "DELETE" /\ key[c] \in Stored
  PROVE  Accounted'
<1>1. /\ pc \in [Client -> PcLabel] /\ key \in [Client -> KeyNum]
      /\ key_generator \in Nat /\ KeyNum \subseteq Nat /\ InsertStart \in Nat
  <2>1. KeyNum \subseteq Nat /\ InsertStart \in Nat
    BY WordAssumption, PhaseBounds DEF KeyNum
  <2>. QED BY <2>1 DEF TypeInv, TypeOK
<1>2. /\ \A d \in Client : d # c => pc'[d] = pc[d] /\ key'[d] = key[d]
  <2>1. \E l : pc' = [pc EXCEPT ![c] = l]
    BY ClientStepFrame
  <2>2. \E n : key' = [key EXCEPT ![c] = n]
    BY ClientStepKey
  <2>. QED BY <1>1, <2>1, <2>2
<1>3. CASE TakeSequenceKey(c)
  <2>1. key_generator' = key_generator + 1
    BY <1>3, CounterInvTake
  <2>2. /\ pc[c] # "insert" /\ pc'[c] = "insert" /\ key'[c] = key_generator
        /\ UNCHANGED lsm
    BY <1>1, <1>3 DEF TakeSequenceKey, Goto, InLoop
  <2>3. Stored' = Stored
    BY <1>1, <1>2, <2>1, <2>2 DEF Stored, Inserting
  <2>. QED BY <2>2, <2>3 DEF Accounted
<1>4. CASE InsertRecord(c)
  <2>1. \E v : Put(BuildKeyName(key[c]), v)
    BY <1>4 DEF InsertRecord, Insert, Update
  <2>2. DOMAIN lsm' = DOMAIN lsm \cup {BuildKeyName(key[c])}
    BY <2>1 DEF Put
  <2>3. pc[c] = "insert" /\ pc'[c] # "insert" /\ UNCHANGED key_generator
    BY <1>1, <1>4 DEF InsertRecord, Complete, Goto, workloadVars
  <2>4. key[c] \in InsertStart .. (key_generator - 1)
    BY <1>1, <2>3, PhaseBounds DEF CounterInv, Floor
  <2>5. Stored' = Stored \cup {key[c]}
    BY <1>1, <1>2, <2>3, <2>4 DEF Stored, Inserting, CounterInv
  <2>. QED BY <2>2, <2>5 DEF Accounted
<1>5. CASE ~ TakeSequenceKey(c) /\ ~ InsertRecord(c)
  <2>1. UNCHANGED key_generator /\ pc'[c] # "insert"
    BY <1>5, ClientStepClaims
  <2>2. pc[c] # "insert"
    BY <1>5
       DEF ClientStep, NextOperation, InLoop, DrawKey, TestKey, TransactionRead,
           TransactionScan, TransactionDelete, ReadBeforeWrite, TransactionUpdate,
           ReturnOks
  <2>3. Stored' = Stored
    BY <1>1, <1>2, <2>1, <2>2 DEF Stored, Inserting
  <2>4. DOMAIN lsm' = DOMAIN lsm
    <3>1. CASE UNCHANGED lsm
      BY <3>1
    <3>2. CASE /\ pc[c] \in {"insert", "call", "update"}
               /\ \E v \in FieldLengths : Put(BuildKeyName(key[c]), v)
      BY <2>2, <3>2 DEF Put, Accounted
    <3>. QED BY <3>1, <3>2, ClientStepLsm
  <2>. QED BY <2>3, <2>4 DEF Accounted
<1>. QED BY <1>3, <1>4, <1>5

(* Steps of main leave what is accounted for alone, while it is in a phase.*)
LEMMA AccountedFrame ==
  ASSUME TypeInv, Accounted, UNCHANGED <<key, key_generator, lsm>>,
         \A c \in Client : pc'[c] = "insert" <=> pc[c] = "insert"
  PROVE  Accounted'
<1>1. \A n : Inserting(n)' <=> Inserting(n)
  BY DEF Inserting
<1>2. Stored' = Stored
  BY <1>1 DEF Stored
<1>. QED BY <1>2 DEF Accounted

LEMMA LoadInvInit == Init => LoadInv
<1>1. Init => DOMAIN lsm = {}
  BY DEF Init, LsmInit
<1>. QED BY <1>1 DEF Init, LoadInv

LEMMA LoadInvNext ==
  ASSUME TypeInv, TypeInv', MainInv, ClientInv, RoundsInv, CounterInv, LoadInv,
         KeysSuffice, "Put" \notin Throwing, [Next]_vars
  PROVE  LoadInv'
<1>1. /\ pc \in [Client -> PcLabel] /\ launched \in Nat
      /\ key_generator \in Nat /\ job \in Nat \ {0}
  BY TypeFacts
<1>2. CASE StartProcess
  <2>1. /\ main = "start" /\ main' # "start" /\ key_generator' = InsertStart
        /\ UNCHANGED <<job, lsm>>
    BY <1>2 DEF StartProcess, WorkloadInit
  <2>2. InsertStart .. (key_generator' - 1) = {}
    BY <2>1, PhaseBounds
  <2>3. Stored' = {}
    BY <2>2 DEF Stored
  <2>4. job = 1 => DOMAIN lsm' = {}
    BY <2>1 DEF LoadInv
  <2>5. job = 1 => Accounted'
    BY <2>3, <2>4 DEF Accounted
  <2>. QED BY <2>1, <2>5 DEF LoadInv
<1>3. CASE Launch
  <2>1. /\ pc' = [pc EXCEPT ![launched] = "loop"]
        /\ UNCHANGED <<job, main, key, key_generator, lsm>>
        /\ main # "start"
    BY <1>3 DEF Launch, workloadVars
  <2>2. launched \in Client => pc[launched] = "absent"
    BY <1>1 DEF MainInv
  <2>3. \A c \in Client : pc'[c] = "insert" <=> pc[c] = "insert"
    BY <1>1, <2>1, <2>2
  <2>. QED BY <2>1, <2>3, AccountedFrame DEF LoadInv
<1>4. CASE GetResult
  <2>1. /\ pc[actual_ops[joined + 1]] = "done"
        /\ pc' = [pc EXCEPT ![actual_ops[joined + 1]] = "absent"]
        /\ UNCHANGED <<job, main, key, key_generator, lsm>>
        /\ main # "start"
    BY <1>4 DEF GetResult, workloadVars
  <2>2. \A c \in Client : pc'[c] = "insert" <=> pc[c] = "insert"
    BY <1>1, <2>1
  <2>. QED BY <2>1, <2>2, AccountedFrame DEF LoadInv
<1>5. CASE EndLoad \/ EndRun
  BY <1>1, <1>5 DEF EndLoad, EndRun, ExitProcess, LoadInv
<1>6. ASSUME NEW c \in Client, ClientStep(c) PROVE LoadInv'
  <2>1. UNCHANGED <<job, main>> /\ pc[c] \notin {"absent", "done"}
    BY <1>6, ClientStepFrame DEF mainVars
  <2>2. Phase
    BY <1>1, <2>1 DEF MainInv, TypeInv, TypeOK, Phase, Client
  <2>3. main = "load" => pc[c] \notin {"call", "update"}
    BY <2>1 DEF MainInv, ClientInv
  <2>4. job = 1 /\ main = "load" => Accounted'
    BY <1>6, <2>2, <2>3, AccountedStep DEF LoadInv
  <2>. QED BY <2>1, <2>2, <2>4 DEF LoadInv, Phase
<1>7. CASE UNCHANGED vars
  BY <1>7, AccountedFrame DEF vars, mainVars, clientVars, workloadVars, LoadInv
<1>. QED
  BY <1>2, <1>3, <1>4, <1>5, <1>6, <1>7 DEF Next, Main, AllExited

(* Without deletes the database never loses a key.                         *)
LEMMA LsmGrows ==
  ASSUME TypeInv, ClientInv, NoDeletes, NEW c \in Client, ClientStep(c)
  PROVE  DOMAIN lsm \subseteq DOMAIN lsm'
<1>1. op[c] # "DELETE"
  BY DEF ClientInv, NoDeletes
<1>. QED BY <1>1, ClientStepLsm DEF Put

(* The first process loads as many records as there are.                   *)
LEMMA LoadShare ==
  ASSUME TypeInv, CleanLoad, job = 1
  PROVE  Threads * LoadOps = RecordCount /\ InsertStart = 0 /\ RecordCount \in Nat \ {0}
BY PhaseBounds DEF CleanLoad, LoadOps, Threads

(* A transaction's key is the number of a record.                          *)
LEMMA TransactionKey ==
  ASSUME TypeInv, MainInv, ClientInv, CleanLoad,
         NEW c \in Client, pc[c] \in {"call", "update"}
  PROVE  main = "run" /\ key[c] \in 0 .. (RecordCount - 1)
<1>1. main \in {"load", "run"}
  <2>1. c \in Nat
    BY CommandAssumption DEF Client
  <2>2. main \in {"start", "load", "run", "exit"}
    BY DEF TypeInv, TypeOK
  <2>. QED BY <2>1, <2>2 DEF MainInv
<1>2. ~ is_loading[c] /\ Acceptable(key[c]) /\ insert_key_sequence = RecordCount
  BY <1>1 DEF ClientInv, TypeInv, TypeOK
<1>3. main = "run"
  BY <1>1, <1>2 DEF MainInv
<1>4. RecordCount \in Nat /\ RecordCount > 0
  BY PhaseBounds DEF CleanLoad
<1>5. key[c] \in Nat
  BY TypeFacts
<1>. QED BY <1>2, <1>3, <1>4, <1>5 DEF Acceptable, CounterLast

LEMMA RunInvInit == Init => RunInv
BY DEF Init, RunInv, Loaded

LEMMA RunInvNext ==
  ASSUME TypeInv, TypeInv', MainInv, ClientInv, RoundsInv, CounterInv, LoadInv, RunInv,
         KeysSuffice, CleanLoad, NoDeletes, [Next]_vars
  PROVE  RunInv'
<1>1. /\ pc \in [Client -> PcLabel] /\ launched \in Nat /\ job \in Nat \ {0}
      /\ key_generator \in Nat
  <2>1. job \in Nat \ {0}
    BY CommandAssumption DEF TypeInv, TypeOK
  <2>2. KeyNum \subseteq Nat
    BY WordAssumption DEF KeyNum
  <2>. QED BY <2>1, <2>2 DEF TypeInv, TypeOK
<1>2. Record' = Record
  BY DEF Record
<1>3. CASE StartProcess
  <2>1. /\ main = "start" /\ UNCHANGED <<job, lsm>>
        /\ job = 1 => main' = "load"
    BY <1>3 DEF StartProcess, CleanLoad
  <2>. QED BY <1>1, <1>2, <2>1 DEF RunInv, Loaded
<1>4. CASE Launch
  <2>1. /\ pc' = [pc EXCEPT ![launched] = "loop"]
        /\ UNCHANGED <<job, main, key, key_generator, lsm>>
    BY <1>4 DEF Launch, workloadVars
  <2>2. launched \in Client => pc[launched] = "absent"
    BY <1>1 DEF MainInv
  <2>3. \A c \in Client : pc'[c] = "insert" <=> pc[c] = "insert"
    BY <1>1, <2>1, <2>2
  <2>. QED BY <1>2, <2>1, <2>3, AccountedFrame DEF RunInv, Loaded
<1>5. CASE GetResult
  <2>1. /\ pc[actual_ops[joined + 1]] = "done"
        /\ pc' = [pc EXCEPT ![actual_ops[joined + 1]] = "absent"]
        /\ UNCHANGED <<job, main, key, key_generator, lsm>>
    BY <1>5 DEF GetResult, workloadVars
  <2>2. \A c \in Client : pc'[c] = "insert" <=> pc[c] = "insert"
    BY <1>1, <2>1
  <2>. QED BY <1>2, <2>1, <2>2, AccountedFrame DEF RunInv, Loaded
<1>6. CASE EndLoad
  <2>1. /\ main = "load" /\ AllJoined /\ UNCHANGED <<pc, key, key_generator, lsm>>
        /\ main' = "run" => job' = job
    BY <1>6 DEF EndLoad, ExitProcess, clientVars, workloadVars
  <2>2. job = 1 => Accounted
    BY <2>1 DEF LoadInv
  <2>3. job = 1 => Record \subseteq DOMAIN lsm
    <3>. SUFFICES ASSUME job = 1 PROVE Record \subseteq DOMAIN lsm
      OBVIOUS
    <3>1. Cardinality(Tickets) = Threads * LoadOps
      BY <2>1, TicketsFull DEF Phase, PhaseOps
    <3>2. Floor = InsertStart
      BY <2>1, PhaseBounds DEF Floor
    <3>3. key_generator = RecordCount /\ InsertStart = 0
      BY <2>1, <3>1, <3>2, LoadShare DEF CounterInv, Phase
    <3>4. \A c \in Client : pc[c] = "absent"
      BY <2>1, CommandAssumption DEF AllJoined, MainInv, TypeInv, TypeOK, Client
    <3>5. Stored = 0 .. (RecordCount - 1)
      BY <3>3, <3>4 DEF Stored, Inserting
    <3>. QED BY <2>2, <3>5 DEF Accounted, Record
  <2>4. job > 1 => Record \subseteq DOMAIN lsm
    BY DEF RunInv
  <2>5. job' = 1 /\ main' = "run" => Accounted'
    BY <2>1, <2>2, AccountedFrame
  <2>. QED BY <1>1, <1>2, <2>1, <2>3, <2>4, <2>5 DEF RunInv
<1>7. CASE EndRun
  <2>1. main = "run" /\ main' # "run" /\ UNCHANGED lsm
    BY <1>7 DEF EndRun, ExitProcess
  <2>. QED BY <1>2, <2>1 DEF RunInv, Loaded
<1>8. ASSUME NEW c \in Client, ClientStep(c) PROVE RunInv'
  <2>1. UNCHANGED <<job, main>>
    BY <1>8, ClientStepFrame DEF mainVars
  <2>2. DOMAIN lsm \subseteq DOMAIN lsm'
    BY <1>8, LsmGrows
  <2>3. job = 1 /\ main = "run" /\ pc[c] \in {"call", "update"} => key[c] \in Stored
    <3>. SUFFICES ASSUME job = 1, main = "run", pc[c] \in {"call", "update"}
                  PROVE  key[c] \in Stored
      OBVIOUS
    <3>1. InsertStart = 0 /\ RecordCount \in Nat
      BY LoadShare
    <3>2. Floor = RecordCount
      BY LoadShare DEF Floor, CleanLoad
    <3>3. key_generator >= RecordCount
      BY <1>1, <3>1, <3>2, TicketsFinite DEF CounterInv, Phase
    <3>4. \A d \in Client : pc[d] = "insert" => key[d] >= RecordCount
      BY <1>1, <3>1, <3>2 DEF CounterInv, Phase
    <3>5. key[c] \in 0 .. (RecordCount - 1)
      BY TransactionKey
    <3>. QED BY <1>1, <3>1, <3>3, <3>4, <3>5 DEF Stored, Inserting
  <2>4. op[c] # "DELETE"
    BY DEF ClientInv, NoDeletes
  <2>5. job = 1 /\ main = "run" => Accounted'
    BY <1>8, <2>3, <2>4, AccountedStep DEF RunInv, Phase, CleanLoad
  <2>. QED BY <1>2, <2>1, <2>2, <2>5 DEF RunInv, Loaded
<1>9. CASE UNCHANGED vars
  <2>1. UNCHANGED <<job, main, pc, key, key_generator, lsm>>
    BY <1>9 DEF vars, mainVars, clientVars, workloadVars
  <2>. QED BY <1>2, <2>1, AccountedFrame DEF RunInv, Loaded
<1>. QED
  BY <1>3, <1>4, <1>5, <1>6, <1>7, <1>8, <1>9 DEF Next, Main, AllExited

-----------------------------------------------------------------------------
(* The theorems. *)

CounterPart == TypeInv /\ MainInv /\ ClientInv /\ RoundsInv /\ CounterInv

LEMMA CounterPartInvariant ==
  ASSUME KeysSuffice
  PROVE  Spec => []CounterPart
<1>1. Init => CounterPart
  BY TypeInvInit, MainInvInit, ClientInvInit, RoundsInvInit, CounterInvInit
     DEF CounterPart
<1>2. CounterPart /\ [Next]_vars => CounterPart'
  BY TypeInvNext, MainInvNext, ClientInvNext, RoundsInvNext, CounterInvNext
     DEF CounterPart
<1>. QED BY <1>1, <1>2, PTL DEF Spec

(* A client that has a key to insert runs in a phase.                      *)
LEMMA InsertInPhase ==
  ASSUME TypeInv, MainInv, NEW c \in Client, pc[c] = "insert"
  PROVE  Phase
<1>1. c \in Nat
  BY CommandAssumption DEF Client
<1>2. main \in {"start", "load", "run", "exit"}
  BY DEF TypeInv, TypeOK
<1>. QED BY <1>1, <1>2 DEF MainInv, Phase

(* However the threads interleave on the shared counter, no two of them    *)
(* ever insert under the same key: NextSequenceKey hands out each number   *)
(* once.  This holds for every number of threads, of records and of        *)
(* processes, as long as the counter does not wrap around.                 *)
THEOREM SequenceKeysCorrect ==
  ASSUME KeysSuffice
  PROVE  Spec => []SequenceKeysDistinct
<1>1. CounterPart => SequenceKeysDistinct
  <2>. SUFFICES ASSUME CounterPart, NEW c \in Client, NEW d \in Client,
                       c # d, pc[c] = "insert", pc[d] = "insert"
                PROVE  BuildKeyName(key[c]) # BuildKeyName(key[d])
    BY DEF SequenceKeysDistinct
  <2>1. key[c] \in KeyNum /\ key[d] \in KeyNum
    BY DEF CounterPart, TypeInv, TypeOK
  <2>2. key[c] # key[d]
    BY InsertInPhase DEF CounterPart, CounterInv
  <2>. QED BY <2>1, <2>2 DEF KeysSuffice, KeyNamesDistinct
<1>. QED BY <1>1, CounterPartInvariant, PTL

(* The whole inductive invariant.                                          *)
THEOREM Invariance ==
  ASSUME KeysSuffice, CleanLoad, NoDeletes
  PROVE  Spec => []IInv
<1>1. Init => IInv
  BY TypeInvInit, MainInvInit, ClientInvInit, RoundsInvInit, CounterInvInit,
     LoadInvInit, RunInvInit DEF IInv
<1>2. IInv /\ [Next]_vars => IInv'
  <2>1. "Put" \notin Throwing
    BY DEF CleanLoad
  <2>. QED
    BY <2>1, TypeInvNext, MainInvNext, ClientInvNext, RoundsInvNext, CounterInvNext,
       LoadInvNext, RunInvNext DEF IInv
<1>. QED BY <1>1, <1>2, PTL DEF Spec

(* Once the first process has left its load phase the database holds every *)
(* record of the workload, and goes on to hold it when nothing deletes.    *)
THEOREM RecordsLoadedCorrect ==
  ASSUME KeysSuffice, CleanLoad, NoDeletes
  PROVE  Spec => []RecordsLoaded
<1>1. IInv => RecordsLoaded
  BY DEF IInv, RunInv, RecordsLoaded
<1>. QED BY <1>1, Invariance, PTL

(* A transaction always finds its record: what NextTransactionKey accepts  *)
(* was loaded, and is not empty.                                           *)
THEOREM TransactionsHitCorrect ==
  ASSUME KeysSuffice, CleanLoad, NoDeletes, NoEmptyValues
  PROVE  Spec => []TransactionsHit
<1>1. IInv => TransactionsHit
  <2>. SUFFICES ASSUME IInv, NEW c \in Client, pc[c] \in {"call", "update"}
                PROVE  Found(BuildKeyName(key[c]))
    BY DEF TransactionsHit
  <2>1. main = "run" /\ key[c] \in 0 .. (RecordCount - 1)
    BY TransactionKey DEF IInv
  <2>2. BuildKeyName(key[c]) \in DOMAIN lsm
    BY <2>1 DEF IInv, RunInv, Loaded, Record
  <2>. QED BY <2>2 DEF IInv, ClientInv, NoEmptyValues, Found
<1>. QED BY <1>1, Invariance, PTL

LEMMA FirstProcessAccounted ==
  ASSUME IInv, Len(Command) = 1, Phase
  PROVE  Accounted
<1>1. job = 1
  BY DEF IInv, TypeInv, TypeOK
<1>. QED BY <1>1 DEF IInv, LoadInv, RunInv, Phase

(* With a single process, a client that is about to insert holds a key     *)
(* that the database does not have: TransactionInsert adds a record.       *)
THEOREM InsertsAreNewCorrect ==
  ASSUME KeysSuffice, CleanLoad, NoDeletes, Len(Command) = 1
  PROVE  Spec => []InsertsAreNew
<1>1. IInv => InsertsAreNew
  <2>. SUFFICES ASSUME IInv, NEW c \in Client, pc[c] = "insert",
                       BuildKeyName(key[c]) \in DOMAIN lsm
                PROVE  FALSE
    BY DEF InsertsAreNew
  <2>1. Phase
    BY InsertInPhase DEF IInv
  <2>2. PICK num \in Stored : BuildKeyName(key[c]) = BuildKeyName(num)
    BY <2>1, FirstProcessAccounted DEF Accounted
  <2>3. key[c] \in KeyNum /\ key_generator \in KeyNum
    BY DEF IInv, TypeInv, TypeOK
  <2>4. num \in KeyNum
    BY <2>3, PhaseBounds, WordAssumption DEF Stored, KeyNum, IInv
  <2>5. num = key[c]
    BY <2>2, <2>3, <2>4 DEF KeysSuffice, KeyNamesDistinct
  <2>. QED BY <2>5 DEF Stored, Inserting
<1>. QED BY <1>1, Invariance, PTL

(* With a single process the database and the inserts under way hold       *)
(* exactly the keys handed out: no number of the counter is lost, and none *)
(* is used twice.                                                          *)
THEOREM KeysAccountedForCorrect ==
  ASSUME KeysSuffice, CleanLoad, NoDeletes, Len(Command) = 1
  PROVE  Spec => []KeysAccountedFor
<1>1. IInv => KeysAccountedFor
  <2>. SUFFICES ASSUME IInv, Phase
                PROVE  DOMAIN lsm \cup
                         {BuildKeyName(key[c]) : c \in {d \in Client : pc[d] = "insert"}}
                       = {BuildKeyName(num) : num \in InsertStart .. (key_generator - 1)}
    BY DEF KeysAccountedFor, Phase
  <2>1. DOMAIN lsm = {BuildKeyName(num) : num \in Stored}
    BY FirstProcessAccounted DEF Accounted
  <2>2. \A c \in Client : pc[c] = "insert" =>
          key[c] \in InsertStart .. (key_generator - 1)
    <3>1. Floor \in Nat /\ Floor >= InsertStart /\ InsertStart \in Nat
      BY FloorBounds, PhaseBounds DEF IInv, Floor
    <3>2. key_generator \in Nat
      BY WordAssumption DEF IInv, TypeInv, TypeOK, KeyNum
    <3>. QED BY <3>1, <3>2 DEF IInv, CounterInv
  <2>. QED BY <2>1, <2>2 DEF Stored, Inserting
<1>. QED BY <1>1, Invariance, PTL
=============================================================================
