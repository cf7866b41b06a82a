------------------------------- MODULE Harness -------------------------------
(***************************************************************************)
(* run_abcd_workloads.sh: a campaign of benchmark runs that can be         *)
(* interrupted at any point and started again.  For each target (a         *)
(* database and a workload file) the script loads a fresh database and     *)
(* runs the workload with one thread count after the other.  What it has   *)
(* done already it finds out from the log, in which each run leaves a line *)
(* of its database, file and thread count, and then its throughput.        *)
(*                                                                         *)
(* The script stops when it is killed, or when the program fails (set -e). *)
(*                                                                         *)
(* A thread count is a number here, and a word in the script: it is taken  *)
(* to be written as the program prints the number.  For 01 it is not, and  *)
(* the needle is never found (ResultLineIsNeedle of CommandLine).          *)
(***************************************************************************)
EXTENDS Naturals, Sequences, FiniteSets

CONSTANTS
  Target,     \* the pairs of a database and a workload file
  Targets,    \* the order in which the script's outer loops visit them
  Threads,    \* the list of thread counts
  Known,      \* the targets whose database name DBFactory knows
  MaxStops    \* bound: how often the script is interrupted

ASSUME HarnessAssumption ==
  /\ Targets \in Seq(Target)
  /\ Threads \in Seq(Nat \ {0})
  /\ Known \subseteq Target
  /\ MaxStops \in Nat

VARIABLES
  at,       \* where the script is; "down" when it is not running
  pair,     \* its position in Targets
  th,       \* its position in Threads
  log,      \* the result lines of the log, each with or without a throughput
  loaded,   \* the targets whose database is fully loaded, and in no run cut short
  history,  \* the thread counts that ran on a target's database since its load
  stops     \* the number of interruptions

vars == <<at, pair, th, log, loaded, history, stops>>

target == Targets[pair]

Init ==
  /\ at = "down"
  /\ pair = 1
  /\ th = 1
  /\ log = << >>
  /\ loaded = {}
  /\ history = [t \in Target |-> << >>]
  /\ stops = 0

-----------------------------------------------------------------------------
(* Mutants: the thread count is not looked at; a line without a throughput *)
(* does not count.                                                         *)
HasResultAnyThreads(t, n) == \E k \in DOMAIN log : log[k].target = t
HasResultMeasured(t, n) ==
  \E k \in DOMAIN log :
    log[k].target = t /\ log[k].threads = n /\ log[k].measured

(* grep for the beginning of a result line.                                *)
HasResult(t, n) ==
  \E k \in DOMAIN log : log[k].target = t /\ log[k].threads = n

AllLogged(t) == \A m \in DOMAIN Threads : HasResult(t, Threads[m])

Start ==
  /\ at \in {"down", "done"}
  /\ at' = "target"
  /\ pair' = 1
  /\ th' = 1
  /\ UNCHANGED <<log, loaded, history, stops>>

SkipTarget ==
  /\ at = "target"
  /\ pair <= Len(Targets)
  /\ AllLogged(target)
  /\ pair' = pair + 1
  /\ UNCHANGED <<at, th, log, loaded, history, stops>>

(* Mutant: the old database is not removed. *)
PrepareKeeps ==
  /\ at = "target"
  /\ pair <= Len(Targets)
  /\ ~ AllLogged(target)
  /\ at' = "load"
  /\ UNCHANGED <<pair, th, log, loaded, history, stops>>

(* rm -rf and mkdir -p of the target's database.                           *)
Prepare ==
  /\ at = "target"
  /\ pair <= Len(Targets)
  /\ ~ AllLogged(target)
  /\ at' = "load"
  /\ loaded' = loaded \ {target}
  /\ history' = [history EXCEPT ![target] = << >>]
  /\ UNCHANGED <<pair, th, log, stops>>

(* ycsbc -load returns.  With a database name that it does not know it has *)
(* done nothing, and says so by the same exit status.                      *)
LoadReturns ==
  /\ at = "load"
  /\ at' = "threads"
  /\ th' = 1
  /\ loaded' = IF target \in Known THEN loaded \cup {target} ELSE loaded
  /\ UNCHANGED <<pair, log, history, stops>>

(* Mutant: continue without the next thread count. *)
SkipThreadsMutant ==
  /\ at = "threads"
  /\ th <= Len(Threads)
  /\ HasResult(target, Threads[th])
  /\ UNCHANGED vars

SkipThreads ==
  /\ at = "threads"
  /\ th <= Len(Threads)
  /\ HasResult(target, Threads[th])
  /\ th' = th + 1
  /\ UNCHANGED <<at, pair, log, loaded, history, stops>>

(* ycsbc -run begins to work on the database.                              *)
Run ==
  /\ at = "threads"
  /\ th <= Len(Threads)
  /\ ~ HasResult(target, Threads[th])
  /\ at' = "run"
  /\ history' =
       IF target \in Known
       THEN [history EXCEPT ![target] = Append(@, Threads[th])]
       ELSE history
  /\ UNCHANGED <<pair, th, log, loaded, stops>>

(* "Unknown database name": the exit status is 0, and the script goes on.  *)
RunUnknown ==
  /\ at = "run"
  /\ target \notin Known
  /\ at' = "threads"
  /\ th' = th + 1
  /\ UNCHANGED <<pair, log, loaded, history, stops>>

(* main writes the beginning of the result line ...                        *)
WriteLine ==
  /\ at = "run"
  /\ target \in Known
  /\ at' = "line"
  /\ log' =
       Append(log, [target |-> target, threads |-> Threads[th], measured |-> FALSE])
  /\ UNCHANGED <<pair, th, loaded, history, stops>>

(* Mutant: the throughput stays in a buffer. *)
WriteThroughputLost ==
  /\ at = "line"
  /\ at' = "threads"
  /\ th' = th + 1
  /\ UNCHANGED <<pair, log, loaded, history, stops>>

(* ... and then its end.  cerr is not buffered: these are two writes.      *)
WriteThroughput ==
  /\ at = "line"
  /\ at' = "threads"
  /\ th' = th + 1
  /\ log' = [log EXCEPT ![Len(log)].measured = TRUE]
  /\ UNCHANGED <<pair, loaded, history, stops>>

NextTarget ==
  /\ at = "threads"
  /\ th > Len(Threads)
  /\ at' = "target"
  /\ pair' = pair + 1
  /\ UNCHANGED <<th, log, loaded, history, stops>>

(* "Done. Results appended"                                                *)
Done ==
  /\ at = "target"
  /\ pair > Len(Targets)
  /\ at' = "done"
  /\ UNCHANGED <<pair, th, log, loaded, history, stops>>

(* The script is killed and the program with it, or the program fails.     *)
(* What is left of a database in the middle of a run is anything.          *)
Stop ==
  /\ at \notin {"down", "done"}
  /\ stops < MaxStops
  /\ stops' = stops + 1
  /\ at' = "down"
  /\ loaded' = IF at = "run" THEN loaded \ {target} ELSE loaded
  /\ UNCHANGED <<pair, th, log, history>>

Script ==
  \/ Start \/ SkipTarget \/ Prepare \/ LoadReturns \/ SkipThreads \/ Run
  \/ RunUnknown \/ WriteLine \/ WriteThroughput \/ NextTarget \/ Done

Next == Script \/ Stop

Spec == Init /\ [][Next]_vars

(* The script makes progress, and whoever started it starts it again.      *)
FairSpec == Spec /\ WF_vars(Script)

-----------------------------------------------------------------------------
(* What the variables hold: in particular, a database counts as loaded     *)
(* only if the program knows its name.                                     *)
TypeOK ==
  /\ at \in {"down", "target", "load", "threads", "run", "line", "done"}
  /\ pair \in 1 .. (Len(Targets) + 1)
  /\ th \in 1 .. (Len(Threads) + 1)
  /\ log \in Seq([target : Target, threads : Nat, measured : BOOLEAN])
  /\ loaded \subseteq Known
  /\ history \in [Target -> Seq(Nat)]
  /\ stops \in 0 .. MaxStops

(* Resuming never repeats a run whose line is in the log: no target and    *)
(* thread count is logged twice, however often the script is interrupted,  *)
(* and also when a thread count is listed twice.                           *)
LoggedOnce ==
  \A j, k \in DOMAIN log :
    log[j].target = log[k].target /\ log[j].threads = log[k].threads => j = k

(* A run works on a fully loaded database, and the only runs that changed  *)
(* that database since its load are ones with a throughput in the log: it  *)
(* is never used after a run or a load that was cut short.                 *)
DatabaseIsAccountedFor ==
  at = "run" /\ target \in Known =>
    /\ target \in loaded
    /\ \A m \in 1 .. (Len(history[target]) - 1) :
         \E k \in DOMAIN log :
           /\ log[k].target = target
           /\ log[k].threads = history[target][m]
           /\ log[k].measured

Unmeasured == {k \in DOMAIN log : ~ log[k].measured}

(* A line without a throughput makes the script skip a run that has no     *)
(* result.  That happens at most once for each interruption.               *)
LostResultsBounded ==
  Cardinality(Unmeasured) <= stops + (IF at = "line" THEN 1 ELSE 0)

(* When the script says that it is done, the log has a line for every      *)
(* target of a known database and every thread count.                      *)
DoneMeansLogged ==
  at = "done" =>
    \A p \in DOMAIN Targets, m \in DOMAIN Threads :
      Targets[p] \in Known =>
        \E k \in DOMAIN log :
          log[k].target = Targets[p] /\ log[k].threads = Threads[m]

(* The campaign is completed in the end, interruptions notwithstanding.    *)
Completion == <>(at = "done")

-----------------------------------------------------------------------------
(* The inductive invariant behind these properties. *)

InTarget == at \in {"load", "threads", "run", "line"}

(* Where the script is within its loops.                                   *)
LoopInv ==
  /\ InTarget => pair <= Len(Targets)
  /\ at \in {"run", "line"} => th <= Len(Threads)
  /\ at = "done" => pair > Len(Targets)

(* What the loops have covered so far.                                     *)
CoverInv ==
  /\ InTarget \/ at \in {"target", "done"} =>
       \A p \in 1 .. (pair - 1) : Targets[p] \in Known => AllLogged(Targets[p])
  /\ at \in {"threads", "run", "line"} /\ target \in Known =>
       \A m \in 1 .. (th - 1) : HasResult(target, Threads[m])

(* The line that is being written is the last one, and is not in the log   *)
(* before.                                                                 *)
LineInv ==
  /\ at = "run" => ~ HasResult(target, Threads[th])
  /\ at = "line" =>
       /\ target \in Known
       /\ log # << >>
       /\ log[Len(log)] =
            [target |-> target, threads |-> Threads[th], measured |-> FALSE]

Measured(t, n) ==
  \E k \in DOMAIN log :
    log[k].target = t /\ log[k].threads = n /\ log[k].measured

(* The runs on the database of the target at hand, up to the current one.  *)
Current == IF at \in {"run", "line"} THEN 1 ELSE 0

DatabaseInv ==
  InTarget /\ target \in Known =>
    /\ at = "load" => history[target] = << >>
    /\ at \in {"threads", "run", "line"} =>
         /\ target \in loaded
         /\ Len(history[target]) >= Current
         /\ \A m \in 1 .. (Len(history[target]) - Current) :
              Measured(target, history[target][m])
    /\ at \in {"run", "line"} => history[target][Len(history[target])] = Threads[th]

(* Together: whatever step the script takes or is stopped at, the log, the *)
(* database and the place in the loops still fit each other.               *)
HInv ==
  /\ TypeOK /\ LoopInv /\ LineInv /\ LoggedOnce
  /\ CoverInv /\ DatabaseInv /\ LostResultsBounded
=============================================================================
