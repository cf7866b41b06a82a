---------------------------- MODULE HarnessProof ----------------------------
(***************************************************************************)
(* The proof that HInv is an invariant of Harness, and with it the safety  *)
(* properties of the campaign.                                             *)
(***************************************************************************)
EXTENDS Harness, FiniteSetTheorems, TLAPS

LEMMA TypeOKInit == Init => TypeOK
BY HarnessAssumption DEF Init, TypeOK

LEMMA MeasuredLine ==
  ASSUME NEW line \in [target : Target, threads : Nat, measured : BOOLEAN]
  PROVE  [line EXCEPT !.measured = TRUE]
           \in [target : Target, threads : Nat, measured : BOOLEAN]
OBVIOUS

LEMMA TypeOKNext == TypeOK /\ LoopInv /\ LineInv /\ [Next]_vars => TypeOK'
<1>. SUFFICES ASSUME TypeOK, LoopInv, LineInv, [Next]_vars PROVE TypeOK'
  OBVIOUS
<1>. USE HarnessAssumption DEF TypeOK
<1>0. Len(Targets) \in Nat /\ Len(Threads) \in Nat
  OBVIOUS
<1>1. CASE Start
  BY <1>0, <1>1 DEF Start
<1>2. CASE SkipTarget
  BY <1>0, <1>2 DEF SkipTarget
<1>3. CASE Prepare
  <2>1. history' \in [Target -> Seq(Nat)]
    <3>1. << >> \in Seq(Nat)
      OBVIOUS
    <3>. QED BY <1>3, <3>1 DEF Prepare
  <2>. QED BY <1>3, <2>1 DEF Prepare
<1>4. CASE LoadReturns
  BY <1>0, <1>4 DEF LoadReturns
<1>5. CASE SkipThreads
  BY <1>0, <1>5 DEF SkipThreads
<1>6. CASE Run
  <2>1. Threads[th] \in Nat
    BY <1>6 DEF Run
  <2>2. history' \in [Target -> Seq(Nat)]
    BY <1>6, <2>1 DEF Run
  <2>. QED BY <1>6, <2>2 DEF Run
<1>7. CASE RunUnknown
  BY <1>0, <1>7 DEF RunUnknown, LoopInv
<1>8. CASE WriteLine
  <2>1. target \in Target /\ Threads[th] \in Nat
    BY <1>8 DEF WriteLine, LoopInv, InTarget, target
  <2>. QED BY <1>8, <2>1 DEF WriteLine
<1>9. CASE WriteThroughput
  <2>1. th' \in 1 .. (Len(Threads) + 1)
    <3>1. th \in 1 .. Len(Threads) /\ th' = th + 1
      BY <1>0, <1>9 DEF WriteThroughput, LoopInv
    <3>. QED BY <1>0, <3>1
  <2>2. log' \in Seq([target : Target, threads : Nat, measured : BOOLEAN])
    <3>1. /\ log \in Seq([target : Target, threads : Nat, measured : BOOLEAN])
          /\ Len(log) \in DOMAIN log
      BY <1>9 DEF WriteThroughput, LineInv
    <3>2. [log[Len(log)] EXCEPT !.measured = TRUE]
            \in [target : Target, threads : Nat, measured : BOOLEAN]
      <4>1. log[Len(log)] \in [target : Target, threads : Nat, measured : BOOLEAN]
        <5>. DEFINE R == [target : Target, threads : Nat, measured : BOOLEAN]
        <5>1. log \in Seq(R) /\ Len(log) \in DOMAIN log
          BY <3>1
        <5>. HIDE DEF R
        <5>2. log[Len(log)] \in R
          BY <5>1
        <5>. QED BY <5>2 DEF R
      <4>. QED BY <4>1, MeasuredLine
    <3>3. log' = [log EXCEPT ![Len(log)] = [log[Len(log)] EXCEPT !.measured = TRUE]]
      BY <1>9, <3>1 DEF WriteThroughput
    <3>. QED BY <3>1, <3>2, <3>3
  <2>. QED BY <1>9, <2>1, <2>2 DEF WriteThroughput
<1>10. CASE NextTarget
  BY <1>0, <1>10 DEF NextTarget, LoopInv, InTarget
<1>11. CASE Done
  BY <1>11 DEF Done
<1>12. CASE Stop
  BY <1>12 DEF Stop
<1>13. CASE UNCHANGED vars
  BY <1>13 DEF vars
<1>. QED
  BY <1>1, <1>2, <1>3, <1>4, <1>5, <1>6, <1>7, <1>8, <1>9, <1>10, <1>11, <1>12, <1>13
     DEF Next, Script

LEMMA LoopInvInit == Init => LoopInv
BY DEF Init, LoopInv, InTarget

LEMMA LoopInvNext == TypeOK /\ LoopInv /\ [Next]_vars => LoopInv'
<1>. SUFFICES ASSUME TypeOK, LoopInv, [Next]_vars PROVE LoopInv'
  OBVIOUS
<1>. USE DEF LoopInv, InTarget
<1>1. CASE Start \/ SkipTarget \/ Prepare \/ LoadReturns \/ NextTarget \/ Done
  BY <1>1 DEF Start, SkipTarget, Prepare, LoadReturns, NextTarget, Done
<1>2. CASE SkipThreads \/ Run \/ RunUnknown \/ WriteLine \/ WriteThroughput
  BY <1>2 DEF SkipThreads, Run, RunUnknown, WriteLine, WriteThroughput
<1>3. CASE Stop \/ UNCHANGED vars
  BY <1>3 DEF Stop, vars
<1>. QED BY <1>1, <1>2, <1>3 DEF Next, Script

-----------------------------------------------------------------------------
(* The log. *)

(* What a step does to the log: nothing, a new line without a throughput,  *)
(* or the throughput of the last line.                                     *)
LogGrows ==
  \/ UNCHANGED log
  \/ WriteLine
  \/ WriteThroughput

LEMMA NextLog == [Next]_vars => LogGrows
BY DEF Next, Script, Start, SkipTarget, Prepare, LoadReturns, SkipThreads, Run,
       RunUnknown, NextTarget, Done, Stop, vars, LogGrows

(* Lines are never lost or changed, but for a throughput that is added.    *)
LEMMA LogKept ==
  ASSUME TypeOK, LineInv, [Next]_vars
  PROVE  \A k \in DOMAIN log :
           /\ k \in DOMAIN log'
           /\ log'[k].target = log[k].target /\ log'[k].threads = log[k].threads
           /\ log[k].measured => log'[k].measured
<1>1. log \in Seq([target : Target, threads : Nat, measured : BOOLEAN])
  BY DEF TypeOK
<1>2. CASE UNCHANGED log
  BY <1>2
<1>3. CASE WriteLine
  BY <1>1, <1>3 DEF WriteLine
<1>4. CASE WriteThroughput
  BY <1>1, <1>4 DEF WriteThroughput
<1>. QED BY <1>2, <1>3, <1>4, NextLog DEF LogGrows

LEMMA ResultsKept ==
  ASSUME TypeOK, LineInv, [Next]_vars, NEW t, NEW n
  PROVE  /\ HasResult(t, n) => HasResult(t, n)'
         /\ Measured(t, n) => Measured(t, n)'
BY LogKept DEF HasResult, Measured

LEMMA LineInvInit == Init => LineInv
BY DEF Init, LineInv

LEMMA LineInvNext == TypeOK /\ LineInv /\ [Next]_vars => LineInv'
<1>. SUFFICES ASSUME TypeOK, LineInv, [Next]_vars PROVE LineInv'
  OBVIOUS
<1>. USE DEF LineInv
<1>1. CASE Start \/ SkipTarget \/ Prepare \/ LoadReturns \/ NextTarget \/ Done
  BY <1>1 DEF Start, SkipTarget, Prepare, LoadReturns, NextTarget, Done
<1>2. CASE SkipThreads \/ RunUnknown \/ WriteThroughput
  BY <1>2 DEF SkipThreads, RunUnknown, WriteThroughput
<1>3. CASE Run
  BY <1>3 DEF Run, HasResult, target
<1>4. CASE WriteLine
  <2>. DEFINE line == [target |-> target, threads |-> Threads[th], measured |-> FALSE]
  <2>1. /\ at' = "line" /\ target \in Known /\ log' = Append(log, line)
        /\ UNCHANGED <<pair, th>>
    BY <1>4 DEF WriteLine
  <2>2. target' = target /\ line' = line
    BY <2>1 DEF target
  <2>3. log' # << >> /\ log'[Len(log')] = line
    <3>. HIDE DEF line
    <3>. QED BY <2>1 DEF TypeOK
  <2>. QED BY <2>1, <2>2, <2>3
<1>5. CASE Stop
  BY <1>5 DEF Stop
<1>6. CASE UNCHANGED vars
  BY <1>6 DEF vars, HasResult, target
<1>. QED BY <1>1, <1>2, <1>3, <1>4, <1>5, <1>6 DEF Next, Script

LEMMA LoggedOnceNext ==
  TypeOK /\ LineInv /\ LoggedOnce /\ [Next]_vars => LoggedOnce'
<1>. SUFFICES ASSUME TypeOK, LineInv, LoggedOnce, [Next]_vars PROVE LoggedOnce'
  OBVIOUS
<1>1. log \in Seq([target : Target, threads : Nat, measured : BOOLEAN])
  BY DEF TypeOK
<1>2. CASE UNCHANGED log
  BY <1>2 DEF LoggedOnce
<1>3. CASE WriteLine
  <2>1. \A k \in DOMAIN log : ~ (log[k].target = target /\ log[k].threads = Threads[th])
    BY <1>3 DEF WriteLine, LineInv, HasResult
  <2>. QED BY <1>1, <1>3, <2>1 DEF WriteLine, LoggedOnce
<1>4. CASE WriteThroughput
  <2>1. DOMAIN log' = DOMAIN log
    BY <1>1, <1>4 DEF WriteThroughput
  <2>. QED BY <2>1, LogKept DEF LoggedOnce
<1>. QED BY <1>2, <1>3, <1>4, NextLog DEF LogGrows

LEMMA UnmeasuredFinite ==
  ASSUME TypeOK
  PROVE  IsFiniteSet(Unmeasured) /\ Cardinality(Unmeasured) \in Nat
<1>1. IsFiniteSet(1 .. Len(log))
  BY FS_Interval DEF TypeOK
<1>2. Unmeasured \subseteq 1 .. Len(log)
  BY DEF Unmeasured, TypeOK
<1>. QED BY <1>1, <1>2, FS_Subset, FS_CardinalityType

LEMMA LostResultsBoundedNext ==
  TypeOK /\ LineInv /\ LostResultsBounded /\ [Next]_vars => LostResultsBounded'
<1>. SUFFICES ASSUME TypeOK, LineInv, LostResultsBounded, [Next]_vars
              PROVE  LostResultsBounded'
  OBVIOUS
<1>1. /\ log \in Seq([target : Target, threads : Nat, measured : BOOLEAN])
      /\ stops \in Nat
  BY HarnessAssumption DEF TypeOK
<1>2. IsFiniteSet(Unmeasured) /\ Cardinality(Unmeasured) \in Nat
  BY UnmeasuredFinite
<1>3. CASE WriteLine
  <2>1. Unmeasured' = Unmeasured \cup {Len(log) + 1} /\ Len(log) + 1 \notin Unmeasured
    BY <1>1, <1>3 DEF WriteLine, Unmeasured
  <2>2. Cardinality(Unmeasured') = Cardinality(Unmeasured) + 1
    BY <1>2, <2>1, FS_AddElement
  <2>. QED BY <1>1, <1>2, <1>3, <2>2 DEF WriteLine, LostResultsBounded
<1>4. CASE WriteThroughput
  <2>1. Len(log) \in Unmeasured /\ Unmeasured' = Unmeasured \ {Len(log)}
    BY <1>1, <1>4 DEF WriteThroughput, LineInv, Unmeasured
  <2>2. Cardinality(Unmeasured') = Cardinality(Unmeasured) - 1
    BY <1>2, <2>1, FS_RemoveElement
  <2>. QED BY <1>1, <1>2, <1>4, <2>2 DEF WriteThroughput, LostResultsBounded
<1>5. CASE UNCHANGED log /\ ~ WriteThroughput
  <2>1. Unmeasured' = Unmeasured
    BY <1>5 DEF Unmeasured
  <2>2. CASE Stop
    BY <1>1, <1>2, <2>1, <2>2 DEF Stop, LostResultsBounded
  <2>3. CASE ~ Stop
    <3>1. stops' = stops /\ (at = "line" => at' = "line")
      BY <1>5, <2>3
         DEF Next, Script, Start, SkipTarget, Prepare, LoadReturns, SkipThreads, Run,
             RunUnknown, WriteLine, NextTarget, Done, vars
    <3>. QED BY <1>1, <1>2, <2>1, <3>1 DEF LostResultsBounded
  <2>. QED BY <2>2, <2>3
<1>. QED BY <1>3, <1>4, <1>5, NextLog DEF LogGrows

-----------------------------------------------------------------------------
(* The loops and the databases. *)

LEMMA Positions ==
  ASSUME TypeOK
  PROVE  /\ pair \in Nat \ {0} /\ th \in Nat \ {0}
         /\ Len(Targets) \in Nat /\ Len(Threads) \in Nat
         /\ DOMAIN Targets = 1 .. Len(Targets) /\ DOMAIN Threads = 1 .. Len(Threads)
BY HarnessAssumption DEF TypeOK

LEMMA CoverInvNext ==
  ASSUME TypeOK, LoopInv, LineInv, CoverInv, [Next]_vars
  PROVE  CoverInv'
<1>1. \A t, n : HasResult(t, n) => HasResult(t, n)'
  BY ResultsKept
<1>2. \A t : AllLogged(t) => AllLogged(t)'
  BY <1>1 DEF AllLogged
<1>. USE DEF CoverInv, InTarget
<1>3. CASE Start
  BY <1>3 DEF Start
<1>4. CASE SkipTarget
  <2>1. \A p \in 1 .. (pair' - 1) : p \in 1 .. (pair - 1) \/ p = pair
    BY <1>4, Positions DEF SkipTarget
  <2>. QED BY <1>2, <1>4, <2>1 DEF SkipTarget, target
<1>5. CASE Prepare
  BY <1>2, <1>5 DEF Prepare
<1>6. CASE LoadReturns
  BY <1>2, <1>6 DEF LoadReturns
<1>7. CASE SkipThreads
  <2>1. \A m \in 1 .. (th' - 1) : m \in 1 .. (th - 1) \/ m = th
    BY <1>7, Positions DEF SkipThreads
  <2>. QED BY <1>1, <1>2, <1>7, <2>1 DEF SkipThreads, target
<1>8. CASE Run \/ WriteLine
  BY <1>1, <1>2, <1>8 DEF Run, WriteLine, target
<1>9. CASE RunUnknown
  BY <1>2, <1>9 DEF RunUnknown, target
<1>10. CASE WriteThroughput
  <2>1. \A m \in 1 .. (th' - 1) : m \in 1 .. (th - 1) \/ m = th
    BY <1>10, Positions DEF WriteThroughput
  <2>2. HasResult(target, Threads[th])
    <3>1. Len(log) \in DOMAIN log
      BY <1>10 DEF WriteThroughput, LineInv, TypeOK
    <3>. QED BY <1>10, <3>1 DEF WriteThroughput, LineInv, HasResult
  <2>. QED BY <1>1, <1>2, <1>10, <2>1, <2>2 DEF WriteThroughput, target
<1>11. CASE NextTarget
  <2>1. \A p \in 1 .. (pair' - 1) : p \in 1 .. (pair - 1) \/ p = pair
    BY <1>11, Positions DEF NextTarget
  <2>2. target \in Known => AllLogged(target)
    <3>1. \A m \in DOMAIN Threads : m \in 1 .. (th - 1)
      BY <1>11, Positions DEF NextTarget
    <3>. QED BY <1>11, <3>1 DEF NextTarget, AllLogged
  <2>. QED BY <1>2, <1>11, <2>1, <2>2 DEF NextTarget, target
<1>12. CASE Done
  BY <1>2, <1>12 DEF Done
<1>13. CASE Stop
  BY <1>13 DEF Stop
<1>14. CASE UNCHANGED vars
  BY <1>14 DEF vars, AllLogged, HasResult, target
<1>. QED
  BY <1>3, <1>4, <1>5, <1>6, <1>7, <1>8, <1>9, <1>10, <1>11, <1>12, <1>13, <1>14
     DEF Next, Script

LEMMA DatabaseInvNext ==
  ASSUME TypeOK, LoopInv, LineInv, DatabaseInv, [Next]_vars
  PROVE  DatabaseInv'
<1>1. \A t, n : Measured(t, n) => Measured(t, n)'
  BY ResultsKept
<1>2. ASSUME target \in Known
      PROVE  target \in Target /\ history[target] \in Seq(Nat)
             /\ history \in [Target -> Seq(Nat)]
  BY <1>2, HarnessAssumption DEF TypeOK
<1>. USE DEF DatabaseInv, InTarget, Current
<1>3. CASE Start \/ SkipTarget \/ NextTarget \/ Done \/ Stop
  BY <1>3 DEF Start, SkipTarget, NextTarget, Done, Stop
<1>4. CASE Prepare
  BY <1>2, <1>4 DEF Prepare, target
<1>5. CASE LoadReturns
  <2>1. target' = target /\ UNCHANGED history
    BY <1>5 DEF LoadReturns, target
  <2>2. target \in Known => history[target] = << >> /\ target \in loaded'
    BY <1>5 DEF LoadReturns
  <2>. QED BY <1>5, <2>1, <2>2 DEF LoadReturns
<1>6. CASE SkipThreads
  BY <1>1, <1>6 DEF SkipThreads, target
<1>7. CASE Run
  <2>1. /\ target' = target /\ at = "threads" /\ at' = "run"
        /\ UNCHANGED <<th, log, loaded>>
    BY <1>7 DEF Run, target
  <2>. SUFFICES ASSUME target \in Known PROVE DatabaseInv'
    BY <2>1
  <2>. DEFINE h == history[target]
  <2>2. history'[target] = Append(h, Threads[th]) /\ h \in Seq(Nat)
    BY <1>2, <1>7 DEF Run
  <2>3. Threads[th] \in Nat
    BY <1>7, HarnessAssumption, Positions DEF Run
  <2>4. /\ Len(history'[target]) = Len(h) + 1
        /\ history'[target][Len(h) + 1] = Threads[th]
        /\ \A m \in 1 .. Len(h) : history'[target][m] = h[m]
    <3>. HIDE DEF h
    <3>. QED BY <2>2, <2>3
  <2>5. \A m \in 1 .. Len(h) : Measured(target, h[m])
    BY <2>1, <2>2
  <2>6. (\A m \in 1 .. (Len(history[target]) - 1) : Measured(target, history[target][m]))'
    <3>1. \A m \in 1 .. (Len(history'[target]) - 1) :
            m \in 1 .. Len(h) /\ history'[target][m] = h[m]
      <4>. HIDE DEF h
      <4>. QED BY <2>2, <2>4
    <3>. HIDE DEF h
    <3>. QED BY <2>1, <2>5, <3>1 DEF Measured
  <2>7. Len(history'[target]) >= 1
    <3>. HIDE DEF h
    <3>. QED BY <2>2, <2>4
  <2>8. history'[target][Len(history'[target])] = Threads[th]
    BY <2>4
  <2>9. target \in loaded
    BY <2>1
  <2>. QED BY <2>1, <2>6, <2>7, <2>8, <2>9
<1>8. CASE RunUnknown
  BY <1>8 DEF RunUnknown, target
<1>9. CASE WriteLine
  BY <1>1, <1>9 DEF WriteLine, target
<1>10. CASE WriteThroughput
  <2>1. /\ target' = target /\ at = "line" /\ at' = "threads"
        /\ UNCHANGED <<loaded, history>>
    BY <1>10 DEF WriteThroughput, target
  <2>. SUFFICES ASSUME target \in Known PROVE DatabaseInv'
    BY <2>1
  <2>2. \E k \in DOMAIN log' :
          /\ log'[k].target = target /\ log'[k].threads = Threads[th]
          /\ log'[k].measured
    <3>1. /\ Len(log) \in DOMAIN log
          /\ log \in Seq([target : Target, threads : Nat, measured : BOOLEAN])
      BY <2>1 DEF LineInv, TypeOK
    <3>2. /\ DOMAIN log' = DOMAIN log
          /\ log'[Len(log)] = [log[Len(log)] EXCEPT !.measured = TRUE]
      BY <1>10, <3>1 DEF WriteThroughput
    <3>3. log[Len(log)] =
            [target |-> target, threads |-> Threads[th], measured |-> FALSE]
      BY <2>1 DEF LineInv
    <3>4. /\ log'[Len(log)].target = target /\ log'[Len(log)].threads = Threads[th]
          /\ log'[Len(log)].measured
      BY <3>2, <3>3
    <3>. QED BY <3>1, <3>2, <3>4
  <2>3. \A m \in 1 .. Len(history[target]) :
          m \in 1 .. (Len(history[target]) - 1) \/ m = Len(history[target])
    BY <1>2
  <2>4. \A m \in 1 .. Len(history[target]) :
          \E k \in DOMAIN log' :
            /\ log'[k].target = target /\ log'[k].threads = history[target][m]
            /\ log'[k].measured
    <3>. SUFFICES ASSUME NEW m \in 1 .. Len(history[target])
                  PROVE  \E k \in DOMAIN log' :
                           /\ log'[k].target = target
                           /\ log'[k].threads = history[target][m]
                           /\ log'[k].measured
      OBVIOUS
    <3>1. CASE m = Len(history[target])
      <4>1. history[target][m] = Threads[th]
        BY <2>1, <3>1
      <4>. QED BY <2>2, <4>1
    <3>2. CASE m \in 1 .. (Len(history[target]) - 1)
      <4>1. Measured(target, history[target][m])
        BY <2>1, <3>2
      <4>. QED BY <1>1, <4>1 DEF Measured
    <3>. QED BY <2>3, <3>1, <3>2
  <2>5. (\A m \in 1 .. Len(history[target]) : Measured(target, history[target][m]))'
    BY <2>1, <2>4 DEF Measured
  <2>6. Len(history'[target]) >= 0 /\ Len(history'[target]) - 0 = Len(history'[target])
    BY <1>2, <2>1
  <2>7. target \in loaded
    BY <2>1
  <2>8. target' = target /\ at' = "threads" /\ loaded' = loaded /\ Current' = 0
    BY <2>1
  <2>. QED BY <2>5, <2>6, <2>7, <2>8
<1>11. CASE UNCHANGED vars
  BY <1>11 DEF vars, target, Measured
<1>. QED
  BY <1>3, <1>4, <1>5, <1>6, <1>7, <1>8, <1>9, <1>10, <1>11 DEF Next, Script

-----------------------------------------------------------------------------
(* The inductive invariant holds, for every list of targets and of thread  *)
(* counts, and for any number of interruptions.                            *)
THEOREM HarnessInvariance == Spec => []HInv
<1>1. Init => HInv
  <2>1. Init => LostResultsBounded
    <3>. SUFFICES ASSUME Init PROVE LostResultsBounded
      OBVIOUS
    <3>1. Unmeasured = {}
      BY DEF Init, Unmeasured
    <3>. QED BY <3>1, FS_EmptySet DEF Init, LostResultsBounded
  <2>2. Init => CoverInv /\ DatabaseInv /\ LoggedOnce
    BY DEF Init, CoverInv, DatabaseInv, InTarget, LoggedOnce
  <2>. QED BY <2>1, <2>2, TypeOKInit, LoopInvInit, LineInvInit DEF HInv
<1>2. HInv /\ [Next]_vars => HInv'
  BY TypeOKNext, LoopInvNext, LineInvNext, LoggedOnceNext, CoverInvNext,
     DatabaseInvNext, LostResultsBoundedNext DEF HInv
<1>. QED BY <1>1, <1>2, PTL DEF Spec

(* Resuming never repeats a run whose line is in the log.                  *)
THEOREM LoggedOnceCorrect == Spec => []LoggedOnce
<1>1. HInv => LoggedOnce
  BY DEF HInv
<1>. QED BY <1>1, HarnessInvariance, PTL

(* A run works on a fully loaded database that only measured runs changed. *)
THEOREM DatabaseCorrect == Spec => []DatabaseIsAccountedFor
<1>1. HInv => DatabaseIsAccountedFor
  BY DEF HInv, DatabaseInv, InTarget, Current, Measured, DatabaseIsAccountedFor
<1>. QED BY <1>1, HarnessInvariance, PTL

(* Each interruption costs at most one result.                             *)
THEOREM LostResultsCorrect == Spec => []LostResultsBounded
<1>1. HInv => LostResultsBounded
  BY DEF HInv
<1>. QED BY <1>1, HarnessInvariance, PTL

(* A campaign that is done has a line for everything it was asked to run.  *)
THEOREM DoneCorrect == Spec => []DoneMeansLogged
<1>1. HInv => DoneMeansLogged
  <2>. SUFFICES ASSUME HInv, at = "done",
                       NEW p \in DOMAIN Targets, NEW m \in DOMAIN Threads,
                       Targets[p] \in Known
                PROVE  HasResult(Targets[p], Threads[m])
    BY DEF DoneMeansLogged, HasResult
  <2>1. p \in 1 .. (pair - 1)
    BY Positions DEF HInv, LoopInv
  <2>. QED BY <2>1 DEF HInv, CoverInv, AllLogged
<1>. QED BY <1>1, HarnessInvariance, PTL
=============================================================================
