-------------------------------- MODULE Ycsbc --------------------------------
(***************************************************************************)
(* The benchmark program: main and DelegateClient of ycsbc.cc and the      *)
(* client of core/client.h, over the shared workload (CoreWorkload) and    *)
(* the database (LsmBinding).                                              *)
(*                                                                         *)
(* A behaviour is a sequence of invocations of the program on one          *)
(* database, as run_ycsb.sh makes them: the database outlives a process,   *)
(* the workload object does not.  In each invocation main launches one     *)
(* client thread after the other, and adds up what their futures return.   *)
(* The clients interleave at every access to shared state: a draw from a   *)
(* generator, a read of a counter, a call of the database.                 *)
(***************************************************************************)
EXTENDS CoreWorkload, LsmBinding, Sequences, FiniteSets

CONSTANTS
  NumClients,   \* the largest -threads of the invocations
  Command       \* the invocations, in order: -threads, -load and -run

ASSUME CommandAssumption ==
  /\ NumClients \in Nat \ {0}
  /\ Command \in
       Seq([threads : 1 .. NumClients, load : BOOLEAN, run : BOOLEAN])
  /\ Command # << >>

Client == 0 .. (NumClients - 1)

(* Without -load and -run, main does both.                                 *)
DoLoad(j) == Command[j].load \/ ~ Command[j].run
DoRun(j) == Command[j].run \/ ~ Command[j].load

VARIABLES
  job,          \* the invocation that is running
  main,         \* where main is: before wl.Init, in a phase, or all done
  launched,     \* threads launched in this phase
  actual_ops,   \* the futures, each standing for its client
  joined,       \* futures whose result was taken
  sum,          \* what the results add up to
  printed,      \* the number of operations in main's last report
  pc,           \* where each client is
  is_loading,   \* DelegateClient's argument of that name
  i,            \* DelegateClient's loop counter
  op,           \* the operation that the client's transaction performs
  key,          \* the key number that the client drew
  oks           \* the client's operations that returned kOK

mainVars == <<job, main, launched, actual_ops, joined, sum, printed>>
clientVars == <<pc, is_loading, i, op, key, oks>>
vars == <<mainVars, clientVars, workloadVars, lsm>>

Threads == Command[job].threads

NumOps(loading) ==
  (IF loading THEN RecordCount ELSE OperationCount) \div Threads

Init ==
  /\ job = 1
  /\ main = "start"
  /\ launched = 0
  /\ actual_ops = << >>
  /\ joined = 0
  /\ sum = 0
  /\ printed = 0
  /\ pc = [c \in Client |-> "absent"]
  /\ is_loading = [c \in Client |-> FALSE]
  /\ i = [c \in Client |-> 0]
  /\ op = [c \in Client |-> "NONE"]
  /\ key = [c \in Client |-> 0]
  /\ oks = [c \in Client |-> 0]
  /\ WorkloadConstructed
  /\ LsmInit

-----------------------------------------------------------------------------
(* main *)

(* CreateDB opens the database, wl.Init sets the counters.                 *)
StartProcess ==
  /\ main = "start"
  /\ main' = IF DoLoad(job) THEN "load" ELSE "run"
  /\ WorkloadInit
  /\ UNCHANGED <<job, launched, actual_ops, joined, sum, printed, clientVars,
                 lsm>>

(* Mutant: the loop launches one thread too many. *)
LaunchMutant ==
  /\ main \in {"load", "run"}
  /\ launched <= Threads
  /\ launched' = launched + 1
  /\ actual_ops' = Append(actual_ops, launched)
  /\ pc' = [pc EXCEPT ![launched] = "loop"]
  /\ UNCHANGED <<job, main, joined, sum, printed, is_loading, i, op, key, oks,
                 workloadVars, lsm>>

(* One round of the loop that fills actual_ops.  The new thread enters     *)
(* DelegateClient and runs from here on, while main launches the others.   *)
Launch ==
  /\ main \in {"load", "run"}
  /\ launched < Threads
  /\ launched' = launched + 1
  /\ actual_ops' = Append(actual_ops, launched)
  /\ pc' = [pc EXCEPT ![launched] = "loop"]
  /\ is_loading' = [is_loading EXCEPT ![launched] = (main = "load")]
  /\ i' = [i EXCEPT ![launched] = 0]
  /\ oks' = [oks EXCEPT ![launched] = 0]
  /\ UNCHANGED <<job, main, joined, sum, printed, op, key, workloadVars, lsm>>

(* Mutant: sum = n.get(). *)
GetResultMutant ==
  /\ main \in {"load", "run"}
  /\ launched = Threads
  /\ joined < Len(actual_ops)
  /\ LET c == actual_ops[joined + 1] IN
       /\ pc[c] = "done"
       /\ sum' = oks[c]
       /\ pc' = [pc EXCEPT ![c] = "absent"]
  /\ joined' = joined + 1
  /\ UNCHANGED <<job, main, launched, actual_ops, printed, is_loading, i, op, key,
                 oks, workloadVars, lsm>>

(* sum += n.get(): blocks until the thread behind the next future is done. *)
GetResult ==
  /\ main \in {"load", "run"}
  /\ launched = Threads
  /\ joined < Len(actual_ops)
  /\ LET c == actual_ops[joined + 1] IN
       /\ pc[c] = "done"
       /\ sum' = sum + oks[c]
       /\ pc' = [pc EXCEPT ![c] = "absent"]
  /\ joined' = joined + 1
  /\ UNCHANGED <<job, main, launched, actual_ops, printed, is_loading, i, op, key,
                 oks, workloadVars, lsm>>

(* Mutant: main does not wait for the futures. *)
AllJoinedMutant == launched = Threads

AllJoined == launched = Threads /\ joined = Len(actual_ops)

(* Mutants: the futures of the load phase are kept; its sum is kept. *)
ResetPhaseKeepsFutures ==
  launched' = 0 /\ joined' = 0 /\ sum' = 0 /\ UNCHANGED actual_ops
ResetPhaseKeepsSum ==
  launched' = 0 /\ joined' = 0 /\ actual_ops' = << >> /\ UNCHANGED sum

(* The futures are cleared and the next phase has a sum of its own.        *)
ResetPhase ==
  /\ launched' = 0
  /\ actual_ops' = << >>
  /\ joined' = 0
  /\ sum' = 0

ExitProcess ==
  IF job < Len(Command) THEN job' = job + 1 /\ main' = "start"
                        ELSE main' = "exit" /\ UNCHANGED job

(* "# Loading records" is followed by the sum of the results.              *)
EndLoad ==
  /\ main = "load"
  /\ AllJoined
  /\ printed' = sum
  /\ IF DoRun(job) THEN main' = "run" /\ UNCHANGED job ELSE ExitProcess
  /\ ResetPhase
  /\ UNCHANGED <<clientVars, workloadVars, lsm>>

(* The throughput is total_ops over the duration; the sum goes unused.     *)
EndRun ==
  /\ main = "run"
  /\ AllJoined
  /\ printed' = OperationCount
  /\ ExitProcess
  /\ ResetPhase
  /\ UNCHANGED <<clientVars, workloadVars, lsm>>

-----------------------------------------------------------------------------
(* The clients *)

Goto(c, label) == pc' = [pc EXCEPT ![c] = label]

(* Mutants: every operation counts as a success; a failure is retried. *)
CompleteCountsAll(c, status) ==
  /\ Goto(c, "loop")
  /\ i' = [i EXCEPT ![c] = @ + 1]
  /\ oks' = [oks EXCEPT ![c] = @ + 1]
  /\ op' = [op EXCEPT ![c] = "NONE"]
  /\ key' = [key EXCEPT ![c] = 0]
  /\ UNCHANGED <<mainVars, is_loading, workloadVars>>
CompleteRetries(c, status) ==
  /\ Goto(c, "loop")
  /\ i' = [i EXCEPT ![c] = @ + (IF status = kOK THEN 1 ELSE 0)]
  /\ oks' = [oks EXCEPT ![c] = @ + (IF status = kOK THEN 1 ELSE 0)]
  /\ op' = [op EXCEPT ![c] = "NONE"]
  /\ key' = [key EXCEPT ![c] = 0]
  /\ UNCHANGED <<mainVars, is_loading, workloadVars>>

(* An operation returns its status to DelegateClient's loop.               *)
Complete(c, status) ==
  /\ Goto(c, "loop")
  /\ i' = [i EXCEPT ![c] = @ + 1]
  /\ oks' = [oks EXCEPT ![c] = @ + (IF status = kOK THEN 1 ELSE 0)]
  /\ op' = [op EXCEPT ![c] = "NONE"]
  /\ key' = [key EXCEPT ![c] = 0]
  /\ UNCHANGED <<mainVars, is_loading, workloadVars>>

InLoop(c) == pc[c] = "loop" /\ i[c] < NumOps(is_loading[c])

(* DoTransaction: the operation is chosen.                                 *)
NextOperation(c) ==
  /\ InLoop(c)
  /\ ~ is_loading[c]
  /\ \E o \in Mix :
       /\ op' = [op EXCEPT ![c] = o]
       /\ Goto(c, IF o = "INSERT" THEN "sequence" ELSE "choose")
  /\ UNCHANGED <<mainVars, is_loading, i, key, oks, workloadVars, lsm>>

(* DoInsert and TransactionInsert take a key from the counter; the values  *)
(* are built from thread-local data and a generator that nothing else      *)
(* here depends on.                                                        *)
TakeSequenceKey(c) ==
  /\ \/ InLoop(c) /\ is_loading[c]
     \/ pc[c] = "sequence"
  /\ NextSequenceKey(key_generator)
  /\ key' = [key EXCEPT ![c] = key_generator]
  /\ Goto(c, "insert")
  /\ UNCHANGED <<mainVars, is_loading, i, op, oks, lsm>>

InsertRecord(c) ==
  /\ pc[c] = "insert"
  /\ \E v \in FieldLengths, status \in {kOK, kErrorNoData} :
       /\ Insert(BuildKeyName(key[c]), v, status)
       /\ Complete(c, status)

(* NextTransactionKey: a draw, and then the test that ends the loop or     *)
(* goes back for another draw.                                             *)
DrawKey(c) ==
  /\ pc[c] = "choose"
  /\ \E num \in ChosenKeys : key' = [key EXCEPT ![c] = num]
  /\ Goto(c, "test")
  /\ UNCHANGED <<mainVars, is_loading, i, op, oks, workloadVars, lsm>>

TestKey(c) ==
  /\ pc[c] = "test"
  /\ Goto(c, IF Acceptable(key[c]) THEN "call" ELSE "choose")
  /\ UNCHANGED <<mainVars, is_loading, i, op, key, oks, workloadVars, lsm>>

TransactionRead(c) ==
  /\ pc[c] = "call"
  /\ op[c] = "READ"
  /\ \E status \in {kOK, kErrorNoData} :
       Read(BuildKeyName(key[c]), status) /\ Complete(c, status)

TransactionScan(c) ==
  /\ pc[c] = "call"
  /\ op[c] = "SCAN"
  /\ \E status \in {kOK, kErrorNoData} :
       Scan(BuildKeyName(key[c]), status) /\ Complete(c, status)

TransactionDelete(c) ==
  /\ pc[c] = "call"
  /\ op[c] = "DELETE"
  /\ \E status \in {kOK, kErrorNoData} :
       Delete(BuildKeyName(key[c]), status) /\ Complete(c, status)

(* TransactionReadModifyWrite reads first, and does not look at what the   *)
(* read returned.                                                          *)
ReadBeforeWrite(c) ==
  /\ pc[c] = "call"
  /\ op[c] = "READMODIFYWRITE"
  /\ \E status \in {kOK, kErrorNoData} : Read(BuildKeyName(key[c]), status)
  /\ Goto(c, "update")
  /\ UNCHANGED <<mainVars, is_loading, i, op, key, oks, workloadVars>>

TransactionUpdate(c) ==
  /\ \/ pc[c] = "call" /\ op[c] = "UPDATE"
     \/ pc[c] = "update"
  /\ \E v \in FieldLengths, status \in {kOK, kErrorNoData} :
       Update(BuildKeyName(key[c]), v, status) /\ Complete(c, status)

(* The loop ends: db->Close(), and the result goes to the future.          *)
ReturnOks(c) ==
  /\ pc[c] = "loop"
  /\ i[c] >= NumOps(is_loading[c])
  /\ Goto(c, "done")
  /\ UNCHANGED <<mainVars, is_loading, i, op, key, oks, workloadVars, lsm>>

-----------------------------------------------------------------------------
Main == StartProcess \/ Launch \/ GetResult \/ EndLoad \/ EndRun

ClientStep(c) ==
  \/ NextOperation(c) \/ TakeSequenceKey(c) \/ InsertRecord(c)
  \/ DrawKey(c) \/ TestKey(c)
  \/ TransactionRead(c) \/ TransactionScan(c) \/ TransactionDelete(c)
  \/ ReadBeforeWrite(c) \/ TransactionUpdate(c)
  \/ ReturnOks(c)

AllExited == main = "exit" /\ UNCHANGED vars

Next == Main \/ (\E c \in Client : ClientStep(c)) \/ AllExited

Spec == Init /\ [][Next]_vars

(***************************************************************************)
(* Fairness.  Threads are scheduled by the operating system, so main and   *)
(* every client that can take a step eventually takes one.  A draw is      *)
(* random: if any value of the chooser is acceptable, then among the       *)
(* infinitely many draws that a client would make one is.  That there is   *)
(* such a value is not assumed.                                            *)
(***************************************************************************)
DrawAcceptable(c) ==
  DrawKey(c) /\ key'[c] <= CounterLast(insert_key_sequence)

Fairness ==
  /\ WF_vars(Main)
  /\ \A c \in Client : WF_vars(ClientStep(c)) /\ SF_vars(DrawAcceptable(c))

FairSpec == Spec /\ Fairness

-----------------------------------------------------------------------------
(* Type correctness: every variable has the type its declaration gives it, *)
(* and a key number is a uint64_t.                                         *)
PcLabel == {"absent", "loop", "sequence", "insert", "choose", "test", "call",
            "update", "done"}

TypeOK ==
  /\ job \in 1 .. Len(Command)
  /\ main \in {"start", "load", "run", "exit"}
  /\ launched \in 0 .. NumClients
  /\ actual_ops \in Seq(Client)
  /\ joined \in Nat
  /\ sum \in Nat
  /\ printed \in Nat
  /\ pc \in [Client -> PcLabel]
  /\ is_loading \in [Client -> BOOLEAN]
  /\ i \in [Client -> Nat]
  /\ op \in [Client -> Operation \cup {"NONE"}]
  /\ key \in [Client -> KeyNum]
  /\ oks \in [Client -> Nat]
  /\ key_generator \in KeyNum
  /\ insert_key_sequence \in KeyNum
  /\ DOMAIN lsm \subseteq KeyName
  /\ \A k \in DOMAIN lsm : lsm[k] \in Nat

(* The assertions of main: once a phase has launched its threads it has    *)
(* exactly one future for each of them, and none of an earlier phase.      *)
FuturesMatchThreads ==
  launched = Threads =>
    /\ Len(actual_ops) = Threads
    /\ {actual_ops[n] : n \in 1 .. Len(actual_ops)} = 0 .. (Threads - 1)

(* main leaves a phase only when no client of that phase is still running: *)
(* the join loop is a barrier between loading and transactions, and        *)
(* between transactions and exit.                                          *)
PhasesDoNotOverlap ==
  [][main' # main => \A c \in Client : pc[c] = "absent"]_vars

(* Two clients never insert under the same key: the counter hands out each *)
(* number once, however the threads interleave.                            *)
SequenceKeysDistinct ==
  \A c, d \in Client :
    c # d /\ pc[c] = "insert" /\ pc[d] = "insert"
      => BuildKeyName(key[c]) # BuildKeyName(key[d])

(* An insert is of a brand-new record: whenever a client is about to       *)
(* insert, the database holds nothing under its key.                       *)
InsertsAreNew ==
  \A c \in Client : pc[c] = "insert" => BuildKeyName(key[c]) \notin DOMAIN lsm

(* No number of the counter is lost and none is used twice: while a        *)
(* process loads and runs on a fresh database, without deletes, the        *)
(* database and the inserts under way hold exactly the keys handed out.    *)
KeysAccountedFor ==
  main \in {"load", "run"} =>
    DOMAIN lsm \cup {BuildKeyName(key[c]) : c \in {d \in Client : pc[d] = "insert"}}
      = {BuildKeyName(num) : num \in InsertStart .. (key_generator - 1)}

(* The records of the load phase.                                          *)
Record == {BuildKeyName(num) : num \in 0 .. (RecordCount - 1)}

Loaded == main = "run" \/ (main = "start" /\ job > 1) \/ main = "exit"

(* Once the first process has left its load phase the database holds every *)
(* record of the workload.                                                 *)
RecordsLoaded == Loaded => Record \subseteq DOMAIN lsm

(* A transaction on an existing key finds its record: the draw, the test   *)
(* against the counter, and the load phase agree on what exists.           *)
TransactionsHit ==
  \A c \in Client :
    pc[c] \in {"call", "update"} => Found(BuildKeyName(key[c]))

(* What the load phase reports is what the database holds: the sum of the  *)
(* results never exceeds the number of records, and is that number when    *)
(* the engine does not fail.                                               *)
LoadReportIsTrue ==
  job = 1 /\ main = "load" /\ AllJoined =>
    /\ sum <= Cardinality(DOMAIN lsm)
    /\ Throwing = {} => sum = Cardinality(DOMAIN lsm)

(* Each client of the run phase performs its share of the operations, and  *)
(* when each of them succeeds the results add up to the shares of all.     *)
RunReportIsTrue ==
  main = "run" /\ AllJoined => sum = Threads * NumOps(FALSE)

(* In a run that mixes no inserts and updates a delete removes its record, *)
(* and nothing else happens to the database: whichever keys are drawn and  *)
(* whatever throws, a record that stays keeps its value, one that goes is  *)
(* that of a delete under way, and once a delete has returned kOK there is *)
(* nothing under its key, for the rest of the run.                         *)
RunOnlyShrinks ==
  [][main = "run" =>
       /\ \A k \in DOMAIN lsm' : k \in DOMAIN lsm /\ lsm'[k] = lsm[k]
       /\ \A k \in DOMAIN lsm \ DOMAIN lsm' :
            \E c \in Client :
              pc[c] = "call" /\ op[c] = "DELETE" /\ k = BuildKeyName(key[c])
       /\ \A c \in Client :
            op[c] = "DELETE" /\ oks'[c] > oks[c] =>
              BuildKeyName(key[c]) \notin DOMAIN lsm']_vars

(* To a reader of the database the benchmark is LoadThenRun: every record  *)
(* is inserted once before the first transaction.                          *)
Abstract ==
  INSTANCE LoadThenRun
    WITH Key <- KeyName,
         Value <- FieldLengths,
         stage <- IF Loaded \/ job > 1 THEN "open" ELSE "loading"

LoadsThenRuns == Abstract!Spec

(* Every invocation terminates: the rejection loop of NextTransactionKey,  *)
(* the clients' loops and the joins all come to an end.                    *)
Termination == <>(main = "exit")
=============================================================================
