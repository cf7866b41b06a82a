------------------------------ MODULE DrawsProof ------------------------------
(***************************************************************************)
(* Proofs that the draws of all threads are one sequence while one mutex   *)
(* guards the engine, and that the operations performed are then those of  *)
(* one thread alone: for any number of threads and transactions, any       *)
(* engine and weights, and wherever the compiler puts its loads and        *)
(* stores.                                                                 *)
(***************************************************************************)
EXTENDS Draws, FiniteSetTheorems, WellFoundedInduction, TLAPS

(* The engine does not leave its cycle.                                    *)
LEMMA AdvanceRaw == \A x \in Raw : Advance(x) \in Raw
BY EngineAssumption

LEMMA SeedRaw == Seed \in Raw
BY EngineAssumption

(* A sequence that grows keeps its type.                                   *)
LEMMA AppendType ==
  ASSUME NEW S, NEW seq \in Seq(S), NEW e \in S
  PROVE  Append(seq, e) \in Seq(S)
OBVIOUS

(* What an operation calls for is a sequence of generators.                *)
LEMMA DrawsOfType ==
  ASSUME NEW o, NEW keys \in Nat
  PROVE  DrawsOf(o, keys) \in Seq(Generator)
<1>1. ASSUME NEW g \in Generator, NEW n \in Nat
      PROVE  Repeat(g, n) \in Seq(Generator)
  BY <1>1 DEF Repeat
<1>2. /\ BuildValues \in Seq(Generator) /\ BuildUpdate \in Seq(Generator)
      /\ Repeat("key_chooser_", keys) \in Seq(Generator)
      /\ Repeat("scan_len_chooser_", 1) \in Seq(Generator)
  BY <1>1, DrawsAssumption DEF Generator, BuildValues, BuildUpdate
<1>3. \A r, s \in Seq(Generator) : r \o s \in Seq(Generator)
  OBVIOUS
<1> QED
  BY <1>2, <1>3 DEF DrawsOf

LEMMA InitDraws == Init => DrawsInv
<1> SUFFICES ASSUME Init PROVE DrawsInv
  OBVIOUS
<1>1. DrawsType
  BY SeedRaw DEF Init, DrawsType, Label, Raw
<1>2. LockInv
  BY DEF Init, LockInv, Drawing
<1>3. EngineInv
  BY DEF Init, EngineInv, Reached
<1>4. DrawsSerial
  BY DEF Init, DrawsSerial
<1> QED
  BY <1>1, <1>2, <1>3, <1>4 DEF DrawsInv

-----------------------------------------------------------------------------
LEMMA StepType ==
  ASSUME DrawsType, LockInv, NEW t \in Thread, Step(t)
  PROVE  DrawsType'
<1> USE DEF DrawsType, Label
<1>1. CASE BeginTransaction(t)
  <2>1. <<"op_chooser_">> \in Seq(Generator)
    BY DEF Generator
  <2> QED
    BY <1>1, <2>1 DEF BeginTransaction
<1>2. CASE DrawElsewhere(t)
  BY <1>2 DEF DrawElsewhere
<1>3. CASE Lock(t)
  BY <1>3 DEF Lock, Goto
<1>4. CASE Load(t)
  <2>1. /\ Advance(engine) \in Raw
        /\ Advance(Advance(engine)) \in Raw
    BY AdvanceRaw
  <2> QED
    BY <1>4, <2>1 DEF Load, Goto
<1>5. CASE Store(t)
  <2>1. draw[t].first \in Raw
    OBVIOUS
  <2>2. engine' \in Raw
    BY <1>5, <2>1 DEF Store
  <2>3. pc' \in [Thread -> Label]
    BY <1>5 DEF Store, Goto
  <2> QED
    BY <1>5, <2>2, <2>3 DEF Store
<1>6. CASE Reload(t)
  <2>1. Advance(engine) \in Raw
    BY AdvanceRaw
  <2> QED
    BY <1>6, <2>1 DEF Reload, Goto
<1>7. CASE StoreAgain(t)
  BY <1>7 DEF StoreAgain, Goto
<1>8. CASE Unlock(t)
  <2>1. draw[t] \in [from : Raw, first : Raw, second : Raw]
    OBVIOUS
  <2>2. drawn' \in Seq([from : Raw, first : Raw, second : Raw])
    <3>1. drawn' = drawn \/ drawn' = Append(drawn, draw[t])
      BY <1>8 DEF Unlock
    <3>2. drawn \in Seq([from : Raw, first : Raw, second : Raw])
      OBVIOUS
    <3>3. Append(drawn, draw[t]) \in Seq([from : Raw, first : Raw, second : Raw])
      BY <2>1, <3>2, AppendType
    <3> QED
      BY <3>1, <3>2, <3>3
  <2>3. pc' \in [Thread -> Label]
    BY <1>8 DEF Unlock, Goto
  <2>4. todo[t] \in Seq(Generator) /\ todo[t] # << >>
    BY <1>8 DEF Unlock, LockInv, Drawing
  <2>5. Tail(todo[t]) \in Seq(Generator)
    BY <2>4
  <2>6. todo' = todo \/ todo' = [todo EXCEPT ![t] = Tail(todo[t])]
    BY <1>8 DEF Unlock
  <2>7. todo' \in [Thread -> Seq(Generator)]
    BY <2>5, <2>6
  <2> QED
    BY <1>8, <2>2, <2>3, <2>7 DEF Unlock
<1>9. CASE ChooseOperation(t)
  <2>1. PICK keys \in 1 .. MaxDraws :
          todo' = [todo EXCEPT ![t] = DrawsOf(Returned(draw[t]), keys)]
    BY <1>9 DEF ChooseOperation
  <2>2. DrawsOf(Returned(draw[t]), keys) \in Seq(Generator)
    BY DrawsOfType
  <2> QED
    BY <1>9, <2>1, <2>2 DEF ChooseOperation, Goto
<1> QED
  BY <1>1, <1>2, <1>3, <1>4, <1>5, <1>6, <1>7, <1>8, <1>9 DEF Step

(* A mutex is taken before the first access to the engine and released     *)
(* after the last.                                                         *)
LEMMA StepLock ==
  ASSUME DrawsType, LockInv, NEW t \in Thread, Step(t)
  PROVE  LockInv'
<1> USE DEF DrawsType, LockInv, Drawing
<1>1. CASE BeginTransaction(t)
  BY <1>1 DEF BeginTransaction
<1>2. CASE DrawElsewhere(t)
  BY <1>2 DEF DrawElsewhere
<1>3. CASE Lock(t)
  BY <1>3 DEF Lock, LockIsFree, Goto
<1>4. CASE Load(t)
  BY <1>4 DEF Load, Goto
<1>5. CASE Store(t)
  BY <1>5 DEF Store, Goto
<1>6. CASE Reload(t)
  BY <1>6 DEF Reload, Goto
<1>7. CASE StoreAgain(t)
  BY <1>7 DEF StoreAgain, Goto
<1>8. CASE Unlock(t)
  <2>1. pc'[t] \in {"next", "choose"} /\ lock' = lock \ {Head(todo[t])}
    BY <1>8 DEF Unlock, Goto
  <2>2. \A s \in Thread \ {t} : pc'[s] = pc[s] /\ todo'[s] = todo[s]
    BY <1>8 DEF Unlock, Goto
  <2>3. \A s \in Thread \ {t} : Drawing(s) => Head(todo[s]) # Head(todo[t])
    BY <1>8 DEF Unlock
  <2>4. users' = users
    BY <1>8 DEF Unlock
  <2> QED
    BY <2>1, <2>2, <2>3, <2>4
<1>9. CASE ChooseOperation(t)
  BY <1>9 DEF ChooseOperation, Goto
<1> QED
  BY <1>1, <1>2, <1>3, <1>4, <1>5, <1>6, <1>7, <1>8, <1>9 DEF Step

(* With one user, nobody else draws while t does.                          *)
LEMMA OneDrawing ==
  ASSUME LockInv, Exclusive, NEW t \in Thread, Drawing(t)
  PROVE  \A s \in Thread : Drawing(s) => s = t
BY DEF LockInv, Exclusive

LEMMA StepEngine ==
  ASSUME DrawsInv, NEW t \in Thread, Step(t)
  PROVE  EngineInv'
<1> USE DEF DrawsInv, DrawsType, Drawing
<1> SUFFICES ASSUME Exclusive' PROVE EngineInv'
  BY DEF EngineInv
<1>0. Exclusive /\ UNCHANGED users
  BY DEF Step, Exclusive, BeginTransaction, DrawElsewhere, Lock, Load, Store, Reload,
         StoreAgain, Unlock, ChooseOperation
<1>1. CASE BeginTransaction(t)
  BY <1>0, <1>1 DEF BeginTransaction, EngineInv, Reached, Following
<1>2. CASE DrawElsewhere(t)
  BY <1>0, <1>2 DEF DrawElsewhere, EngineInv, Reached, Following
<1>3. CASE Lock(t)
  BY <1>0, <1>3 DEF Lock, Goto, EngineInv, Reached, Following
<1>4. CASE Load(t)
  <2>1. \A s \in Thread : Drawing(s) => s = t
    BY <1>0, <1>4, OneDrawing DEF Load
  <2>2. engine = Reached
    BY <1>0, <1>4, <2>1 DEF EngineInv, Load
  <2> QED
    BY <1>0, <1>4, <2>1, <2>2 DEF Load, Goto, EngineInv, Reached, Following
<1>5. CASE Store(t)
  <2>1. \A s \in Thread : Drawing(s) => s = t
    BY <1>0, <1>5, OneDrawing DEF Store
  <2> QED
    BY <1>0, <1>5, <2>1 DEF Store, Goto, EngineInv, Reached, Following
<1>6. CASE Reload(t)
  <2>1. \A s \in Thread : Drawing(s) => s = t
    BY <1>0, <1>6, OneDrawing DEF Reload
  <2>2. draw[t] = Following /\ engine = draw[t].first
    BY <1>0, <1>6 DEF EngineInv, Reload
  <2>3. draw' = draw
    BY <1>6, <2>2 DEF Reload, Following
  <2> QED
    BY <1>0, <1>6, <2>1, <2>2, <2>3 DEF Reload, Goto, EngineInv, Reached, Following
<1>7. CASE StoreAgain(t)
  <2>1. \A s \in Thread : Drawing(s) => s = t
    BY <1>0, <1>7, OneDrawing DEF StoreAgain
  <2> QED
    BY <1>0, <1>7, <2>1 DEF StoreAgain, Goto, EngineInv, Reached, Following
<1>8. CASE Unlock(t)
  <2>1. \A s \in Thread : Drawing(s) => s = t
    BY <1>0, <1>8, OneDrawing DEF Unlock
  <2>2. engine' = draw[t].second
    BY <1>0, <1>8 DEF EngineInv, Unlock
  <2>3. Reached' = draw[t].second
    <3>1. drawn' = Append(drawn, draw[t])
      BY <1>0, <1>8 DEF Unlock
    <3>2. /\ drawn \in Seq([from : Raw, first : Raw, second : Raw])
          /\ draw[t] \in [from : Raw, first : Raw, second : Raw]
      OBVIOUS
    <3>3. /\ Len(drawn') = Len(drawn) + 1
          /\ drawn'[Len(drawn) + 1] = draw[t]
          /\ drawn' # << >>
      BY ONLY <3>1, <3>2
    <3> QED
      BY <3>3 DEF Reached
  <2>4. \A s \in Thread : pc'[s] \in {"next", "load", "choose"}
    BY <1>8, <2>1 DEF Unlock, Goto, Label
  <2> QED
    BY <2>2, <2>3, <2>4 DEF EngineInv
<1>9. CASE ChooseOperation(t)
  BY <1>0, <1>9 DEF ChooseOperation, Goto, EngineInv, Reached, Following
<1> QED
  BY <1>1, <1>2, <1>3, <1>4, <1>5, <1>6, <1>7, <1>8, <1>9 DEF Step

(* A completed draw is the one that follows the draws before it.           *)
LEMMA StepSerial ==
  ASSUME DrawsInv, NEW t \in Thread, Step(t)
  PROVE  DrawsSerial'
<1> USE DEF DrawsInv, DrawsType
<1> SUFFICES ASSUME Exclusive' PROVE DrawsSerial'
  BY DEF DrawsSerial
<1>0. Exclusive
  BY DEF Step, Exclusive, BeginTransaction, DrawElsewhere, Lock, Load, Store, Reload,
         StoreAgain, Unlock, ChooseOperation
<1>1. CASE Unlock(t)
  <2>1. draw[t] = Following
    BY <1>0, <1>1 DEF EngineInv, Unlock
  <2>2. drawn' = Append(drawn, draw[t])
    BY <1>0, <1>1 DEF Unlock
  <2>3. /\ DOMAIN drawn' = 1 .. (Len(drawn) + 1)
        /\ drawn'[Len(drawn) + 1] = draw[t]
        /\ \A k \in 1 .. Len(drawn) : drawn'[k] = drawn[k]
    BY <2>2
  <2>4. DOMAIN drawn = 1 .. Len(drawn)
    OBVIOUS
  <2>5. ASSUME NEW k \in 1 .. Len(drawn)
        PROVE  /\ drawn'[k].from = IF k = 1 THEN Seed ELSE drawn'[k - 1].second
               /\ drawn'[k].first = Advance(drawn'[k].from)
               /\ drawn'[k].second = Advance(drawn'[k].first)
    <3>1. k # 1 => k - 1 \in 1 .. Len(drawn)
      OBVIOUS
    <3> QED
      BY <1>0, <2>3, <2>4, <3>1 DEF DrawsSerial
  <2>6. /\ draw[t].from = Reached
        /\ draw[t].first = Advance(draw[t].from)
        /\ draw[t].second = Advance(draw[t].first)
    BY <2>1 DEF Following
  <2>7. Reached = IF Len(drawn) + 1 = 1 THEN Seed ELSE drawn'[Len(drawn)].second
    <3>1. drawn = << >> <=> Len(drawn) = 0
      OBVIOUS
    <3> QED
      BY <2>3, <3>1 DEF Reached
  <2> QED
    BY <2>3, <2>5, <2>6, <2>7 DEF DrawsSerial
<1>2. CASE ~ Unlock(t)
  <2>1. drawn' = drawn
    BY <1>2 DEF Step, BeginTransaction, DrawElsewhere, Lock, Load, Store, Reload,
                StoreAgain, ChooseOperation
  <2> QED
    BY <1>0, <2>1 DEF DrawsSerial
<1> QED
  BY <1>1, <1>2

LEMMA NextDraws == DrawsInv /\ [Next]_vars => DrawsInv'
<1> SUFFICES ASSUME DrawsInv, [Next]_vars PROVE DrawsInv'
  OBVIOUS
<1>1. ASSUME NEW t \in Thread, Step(t) PROVE DrawsInv'
  <2>1. DrawsType /\ LockInv
    BY DEF DrawsInv
  <2>2. DrawsType'
    BY <1>1, <2>1, StepType
  <2>3. LockInv'
    BY <1>1, <2>1, StepLock
  <2>4. EngineInv'
    BY <1>1, StepEngine
  <2>5. DrawsSerial'
    BY <1>1, StepSerial
  <2> QED
    BY <2>2, <2>3, <2>4, <2>5 DEF DrawsInv
<1>2. CASE UNCHANGED vars
  BY <1>2 DEF vars, DrawsInv, DrawsType, LockInv, Drawing, EngineInv, Reached, Following,
              DrawsSerial, Exclusive
<1> QED
  BY <1>1, <1>2 DEF Next, Finished

THEOREM DrawsInvariance == Spec => []DrawsInv
BY InitDraws, NextDraws, PTL DEF Spec

(* The draws of all threads are one sequence: with one user of the engine, *)
(* the user's mutex is enough.                                             *)
THEOREM DrawsSerialCorrect == Spec => []DrawsSerial
<1>1. DrawsInv => DrawsSerial
  BY DEF DrawsInv
<1> QED
  BY <1>1, DrawsInvariance, PTL

-----------------------------------------------------------------------------
(* Induction and recursion on the natural numbers, for sets and functions. *)

LEMMA LeastNatural ==
  ASSUME NEW S \in SUBSET Nat, S # {}
  PROVE  \E n \in S : \A m \in S : n <= m
<1>. DEFINE R == OpToRel(<, Nat)
<1>1. IsWellFoundedOn(R, Nat)
  BY NatLessThanWellFounded DEF OpToRel
<1>2. ASSUME NEW x \in S, NEW y \in S, ~ (<<y, x>> \in R) PROVE x <= y
  BY <1>2 DEF OpToRel
<1>. HIDE DEF R
<1>3. \E n \in S : \A m \in S : ~ (<<m, n>> \in R)
  BY <1>1, WFMin
<1>. QED BY <1>2, <1>3

LEMMA Induction ==
  ASSUME NEW S \in SUBSET Nat, 0 \in S, \A n \in S : n + 1 \in S
  PROVE  S = Nat
<1>1. SUFFICES ASSUME Nat \ S # {} PROVE FALSE
  OBVIOUS
<1>2. PICK n \in Nat \ S : \A m \in Nat \ S : n <= m
  BY <1>1, LeastNatural
<1>3. n # 0 /\ n - 1 \in Nat /\ ~ (n <= n - 1) /\ (n - 1) + 1 = n
  OBVIOUS
<1>4. n - 1 \in S
  BY <1>2, <1>3
<1>. QED BY <1>3, <1>4

(* A function on the natural numbers that is defined by recursion.         *)
Recursive(f, S, a, step) ==
  /\ f \in [Nat -> S]
  /\ f[0] = a
  /\ \A k \in Nat : f[k + 1] = step[k][f[k]]

LEMMA Recursion ==
  ASSUME NEW S, NEW a \in S, NEW step \in [Nat -> [S -> S]]
  PROVE  \E f : Recursive(f, S, a, step)
<1>. DEFINE Upto(n) == {g \in [0 .. n -> S] :
                          g[0] = a /\ \A k \in 0 .. (n - 1) : g[k + 1] = step[k][g[k]]}
<1>1. \A n \in Nat : Upto(n) # {}
  <2>. DEFINE T == {n \in Nat : Upto(n) # {}}
  <2>1. 0 \in T
    <3>1. [k \in 0 .. 0 |-> a] \in Upto(0)
      OBVIOUS
    <3>. QED BY <3>1
  <2>2. ASSUME NEW n \in T PROVE n + 1 \in T
    <3>1. PICK g \in Upto(n) : TRUE
      OBVIOUS
    <3>. DEFINE h == [k \in 0 .. (n + 1) |-> IF k = n + 1 THEN step[n][g[n]] ELSE g[k]]
    <3>2. /\ n \in 0 .. n /\ g \in [0 .. n -> S] /\ step[n][g[n]] \in S
      BY <3>1
    <3>3. h \in [0 .. (n + 1) -> S]
      <4>1. \A k \in 0 .. (n + 1) : k # n + 1 => k \in 0 .. n
        OBVIOUS
      <4>. QED BY <3>2, <4>1
    <3>4. h[0] = a
      BY <3>1
    <3>5. ASSUME NEW k \in 0 .. ((n + 1) - 1) PROVE h[k + 1] = step[k][h[k]]
      <4>1. k \in 0 .. n /\ k # n + 1 /\ k + 1 \in 0 .. (n + 1) /\ k \in 0 .. (n + 1)
        OBVIOUS
      <4>2. h[k] = g[k]
        BY <4>1
      <4>3. CASE k = n
        BY <4>1, <4>2, <4>3
      <4>4. CASE k # n
        <5>1. k \in 0 .. (n - 1) /\ k + 1 # n + 1
          BY <4>4
        <5>2. g[k + 1] = step[k][g[k]]
          BY <3>1, <5>1
        <5>. QED BY <4>1, <4>2, <5>1, <5>2
      <4>. QED BY <4>3, <4>4
    <3>. HIDE DEF h
    <3>6. h \in Upto(n + 1)
      BY <3>3, <3>4, <3>5
    <3>. HIDE DEF Upto
    <3>7. Upto(n + 1) # {}
      BY <3>6
    <3>8. n + 1 \in Nat
      OBVIOUS
    <3>. QED BY <3>7, <3>8
  <2>. HIDE DEF T
  <2>3. T = Nat
    <3>1. T \in SUBSET Nat
      BY DEF T
    <3>. QED BY <2>1, <2>2, <3>1, Induction
  <2>. QED BY <2>3 DEF T
<1>2. ASSUME NEW n \in Nat, NEW g \in Upto(n), NEW h \in Upto(n + 1)
      PROVE  g[n] = h[n]
  <2>. DEFINE T == {k \in Nat : k <= n => g[k] = h[k]}
  <2>1. 0 \in T
    OBVIOUS
  <2>2. ASSUME NEW k \in T PROVE k + 1 \in T
    <3>1. ASSUME k + 1 <= n PROVE g[k + 1] = h[k + 1]
      <4>1. k \in 0 .. (n - 1) /\ k \in 0 .. ((n + 1) - 1) /\ k <= n
        BY <3>1
      <4>2. g[k + 1] = step[k][g[k]]
        BY <4>1
      <4>3. h[k + 1] = step[k][h[k]]
        BY <4>1
      <4>. QED BY <4>1, <4>2, <4>3
    <3>. QED BY <3>1
  <2>. HIDE DEF T
  <2>3. T = Nat
    <3>1. T \in SUBSET Nat
      BY DEF T
    <3>. QED BY <2>1, <2>2, <3>1, Induction
  <2>. QED BY <2>3 DEF T
<1>. DEFINE Some(n) == CHOOSE g \in Upto(n) : TRUE
            f == [n \in Nat |-> Some(n)[n]]
<1>3. \A n \in Nat : Some(n) \in Upto(n)
  <2>. HIDE DEF Upto
  <2>. QED BY <1>1
<1>. HIDE DEF Some
<1>4. f \in [Nat -> S]
  BY <1>3
<1>5. f[0] = a
  BY <1>3
<1>6. ASSUME NEW k \in Nat PROVE f[k + 1] = step[k][f[k]]
  <2>1. Some(k)[k] = Some(k + 1)[k]
    <3>1. Some(k) \in Upto(k) /\ Some(k + 1) \in Upto(k + 1)
      BY <1>3
    <3>. HIDE DEF Upto
    <3>. QED BY <1>2, <3>1
  <2>2. Some(k + 1)[k + 1] = step[k][Some(k + 1)[k]]
    BY <1>3
  <2>. QED BY <2>1, <2>2
<1>. HIDE DEF f
<1>. QED BY <1>4, <1>5, <1>6 DEF Recursive

(* The weights of the values. *)
LEMMA SeqElements ==
  ASSUME NEW S, NEW seq \in Seq(S)
  PROVE  /\ Len(seq) \in Nat /\ DOMAIN seq = 1 .. Len(seq)
         /\ \A k \in 1 .. Len(seq) : seq[k] \in S
OBVIOUS

LEMMA Weights ==
  /\ WeightUpTo \in [0 .. Len(Values) -> Nat]
  /\ WeightUpTo[Len(Values)] > 0
<1>1. /\ Len(Values) \in Nat \ {0}
      /\ \A k \in 1 .. Len(Values) : Values[k].weight \in Nat \ {0}
  <2>1. Values \in Seq([operation : STRING, weight : Nat \ {0}]) /\ Values # << >>
    BY DrawsAssumption
  <2>2. \A k \in 1 .. Len(Values) : Values[k] \in [operation : STRING, weight : Nat \ {0}]
    BY <2>1, SeqElements
  <2>3. Len(Values) \in Nat /\ Len(Values) # 0
    BY <2>1
  <2>. QED BY <2>2, <2>3
<1>. DEFINE weight(k) == IF k \in 1 .. Len(Values) THEN Values[k].weight ELSE 0
            step == [k \in Nat |-> [s \in Nat |-> s + weight(k + 1)]]
            Sums(f) == f = [k \in 0 .. Len(Values) |->
                              IF k = 0 THEN 0 ELSE f[k - 1] + Values[k].weight]
<1>2. \A k : weight(k) \in Nat
  BY <1>1
<1>3. PICK f : Recursive(f, Nat, 0, step)
  <2>1. step \in [Nat -> [Nat -> Nat]] /\ 0 \in Nat
    <3>. HIDE DEF weight
    <3>. QED BY <1>2
  <2>. HIDE DEF step
  <2>. QED BY <2>1, Recursion
<1>. DEFINE g == [k \in 0 .. Len(Values) |-> f[k]]
<1>4. Sums(g)
  <2>1. ASSUME NEW k \in 0 .. Len(Values), k # 0
        PROVE  g[k] = g[k - 1] + Values[k].weight
    <3>1. /\ k - 1 \in Nat /\ k - 1 \in 0 .. Len(Values) /\ (k - 1) + 1 = k
          /\ k \in 1 .. Len(Values)
      BY <1>1, <2>1
    <3>2. f[(k - 1) + 1] = f[k - 1] + weight((k - 1) + 1)
      BY <1>3, <3>1 DEF Recursive
    <3>3. weight(k) = Values[k].weight
      BY <3>1
    <3>. QED BY <3>1, <3>2, <3>3
  <2>2. 0 \in 0 .. Len(Values) /\ g[0] = 0
    BY <1>1, <1>3 DEF Recursive
  <2>3. g = [k \in 0 .. Len(Values) |-> g[k]]
    OBVIOUS
  <2>. HIDE DEF g
  <2>. QED BY <2>1, <2>2, <2>3
<1>. HIDE DEF g
<1>5. Sums(WeightUpTo)
  <2>1. WeightUpTo = CHOOSE w : Sums(w)
    BY DEF WeightUpTo
  <2>. HIDE DEF Sums
  <2>. QED BY <1>4, <2>1
<1>6. \A k \in 0 .. Len(Values) : k # 0 => WeightUpTo[k] = WeightUpTo[k - 1] + Values[k].weight
  BY <1>5
<1>7. WeightUpTo[0] = 0
  BY <1>1, <1>5
<1>8. DOMAIN WeightUpTo = 0 .. Len(Values)
  BY <1>5
<1>. HIDE DEF Sums
<1>9. \A k \in 0 .. Len(Values) : WeightUpTo[k] \in Nat
  <2>. DEFINE T == {k \in Nat : k <= Len(Values) => WeightUpTo[k] \in Nat}
  <2>1. 0 \in T
    BY <1>7
  <2>2. ASSUME NEW k \in T PROVE k + 1 \in T
    <3>1. ASSUME k + 1 <= Len(Values) PROVE WeightUpTo[k + 1] \in Nat
      <4>0. k \in Nat /\ (k <= Len(Values) => WeightUpTo[k] \in Nat)
        OBVIOUS
      <4>. HIDE DEF T
      <4>1. /\ k + 1 \in 0 .. Len(Values) /\ k + 1 # 0 /\ (k + 1) - 1 = k /\ k <= Len(Values)
            /\ k + 1 \in 1 .. Len(Values)
        <5>1. PICK L \in Nat : L = Len(Values)
          BY <1>1
        <5>2. \A n \in Nat : n + 1 <= L => /\ n + 1 \in 0 .. L /\ n + 1 # 0 /\ (n + 1) - 1 = n
                                          /\ n <= L /\ n + 1 \in 1 .. L
          OBVIOUS
        <5>. QED BY <3>1, <4>0, <5>1, <5>2
      <4>2. WeightUpTo[k + 1] = WeightUpTo[k] + Values[k + 1].weight
        BY <1>6, <4>1
      <4>3. WeightUpTo[k] \in Nat /\ Values[k + 1].weight \in Nat
        BY <1>1, <4>0, <4>1
      <4>. QED BY <4>2, <4>3
    <3>. QED BY <3>1
  <2>. HIDE DEF T
  <2>3. T = Nat
    <3>1. T \in SUBSET Nat
      BY DEF T
    <3>. QED BY <2>1, <2>2, <3>1, Induction
  <2>. QED BY <1>1, <2>3 DEF T
<1>10. WeightUpTo[Len(Values)] > 0
  <2>1. /\ Len(Values) \in 0 .. Len(Values) /\ Len(Values) - 1 \in 0 .. Len(Values)
        /\ Len(Values) # 0 /\ Len(Values) \in 1 .. Len(Values)
    BY <1>1
  <2>2. WeightUpTo[Len(Values)] = WeightUpTo[Len(Values) - 1] + Values[Len(Values)].weight
    BY <1>6, <2>1
  <2>3. WeightUpTo[Len(Values) - 1] \in Nat /\ Values[Len(Values)].weight \in Nat \ {0}
    BY <1>1, <1>9, <2>1
  <2>4. \A v \in Nat, w \in Nat \ {0} : v + w > 0
    OBVIOUS
  <2>. QED BY <2>2, <2>3, <2>4
<1>11. WeightUpTo = [k \in 0 .. Len(Values) |-> WeightUpTo[k]]
  BY <1>5 DEF Sums
<1>. QED BY <1>9, <1>10, <1>11

(* The value that a draw picks, unless it is past the last weight.         *)
Hit(d) == {k \in DOMAIN Values :
             Canonical(d) * WeightUpTo[Len(Values)] < WeightUpTo[k] * Doubles}

Picked(d) == Values[CHOOSE k \in Hit(d) : \A j \in Hit(d) : k <= j].operation

LEMMA ChooseIs == \A d : Choose(d) = IF FallsThrough(d) THEN last ELSE Picked(d)
BY DEF Choose, Picked, Hit

(* A draw that is not past the last weight picks an operation of the mix.  *)
LEMMA PickedType ==
  ASSUME NEW d \in [from : Raw, first : Raw, second : Raw], ~ FallsThrough(d)
  PROVE  Picked(d) \in Chooseable
<1>1. Values \in Seq([operation : STRING, weight : Nat \ {0}]) /\ Values # << >>
  BY DrawsAssumption
<1>2. Len(Values) \in Nat /\ DOMAIN Values = 1 .. Len(Values) /\ Len(Values) # 0
  BY <1>1
<1>3. Canonical(d) < Doubles /\ Canonical(d) \in Int /\ Doubles \in Int
  <2>1. d.first \in Int /\ d.second \in Int /\ Modulus \in Int
    BY EngineAssumption DEF Raw
  <2>2. PICK m \in Int : m = Modulus - 1
    BY <2>1
  <2>3. \A x, y \in Int : (x - 1) + (y - 1) * m \in Int /\ m * m \in Int
    OBVIOUS
  <2>4. Canonical(d) \in Int /\ Doubles \in Int
    BY <2>1, <2>2, <2>3 DEF Canonical, Doubles
  <2>5. Slack \in Nat
    BY DrawsAssumption
  <2>6. ~ (Canonical(d) >= Doubles - Slack)
    BY DEF FallsThrough
  <2>. QED BY <2>4, <2>5, <2>6
<1>4. Len(Values) \in Hit(d)
  <2>1. \A x, y \in Int : \A w \in Nat : x < y /\ w > 0 => x * w < w * y
    OBVIOUS
  <2>2. /\ Len(Values) \in DOMAIN Values
        /\ WeightUpTo[Len(Values)] \in Nat /\ WeightUpTo[Len(Values)] > 0
    BY <1>2, Weights
  <2>3. Canonical(d) * WeightUpTo[Len(Values)] < WeightUpTo[Len(Values)] * Doubles
    BY <1>3, <2>1, <2>2
  <2>. QED BY <2>2, <2>3 DEF Hit
<1>5. Hit(d) \in SUBSET Nat /\ Hit(d) \subseteq DOMAIN Values
  <2>1. DOMAIN Values \subseteq Nat
    BY <1>2, 1 .. Len(Values) \subseteq Nat
  <2>. QED BY <2>1 DEF Hit
<1>6. \E k \in Hit(d) : \A j \in Hit(d) : k <= j
  BY <1>4, <1>5, LeastNatural
<1>7. (CHOOSE k \in Hit(d) : \A j \in Hit(d) : k <= j) \in DOMAIN Values
  BY <1>5, <1>6
<1>. QED BY <1>7 DEF Picked, Chooseable

-----------------------------------------------------------------------------
(* The rest of the types. *)

MixType ==
  /\ lock \subseteq Generator
  /\ left \in [Thread -> 0 .. Rounds]
  /\ last \in Chooseable
  /\ performed \in Seq(Chooseable)

LEMMA InitMix == Init => MixType
<1> SUFFICES ASSUME Init PROVE MixType
  OBVIOUS
<1>1. FirstValue \in Chooseable
  <2>1. Values \in Seq([operation : STRING, weight : Nat \ {0}]) /\ Values # << >>
    BY DrawsAssumption
  <2>2. 1 \in DOMAIN Values
    BY <2>1
  <2> QED
    BY <2>2 DEF FirstValue, Chooseable
<1>2. left \in [Thread -> 0 .. Rounds]
  BY DrawsAssumption DEF Init
<1> QED
  BY <1>1, <1>2 DEF Init, MixType

LEMMA StepMix ==
  ASSUME DrawsType, LockInv, MixType, NEW t \in Thread, Step(t)
  PROVE  MixType'
<1>1. CASE BeginTransaction(t)
  <2>1. left[t] \in 0 .. Rounds /\ left[t] > 0 /\ Rounds \in Nat
    BY <1>1, DrawsAssumption DEF BeginTransaction, MixType
  <2>2. left[t] - 1 \in 0 .. Rounds
    BY <2>1
  <2> QED
    BY <1>1, <2>2 DEF BeginTransaction, MixType
<1>2. CASE Lock(t)
  BY <1>2 DEF Lock, MixType, DrawsType
<1>3. CASE DrawElsewhere(t) \/ Load(t) \/ Store(t) \/ Reload(t) \/ StoreAgain(t) \/ Unlock(t)
  BY <1>3 DEF DrawElsewhere, Load, Store, Reload, StoreAgain, Unlock, MixType
<1>4. CASE ChooseOperation(t)
  <2>1. Choose(draw[t]) \in Chooseable
    <3>1. draw[t] \in [from : Raw, first : Raw, second : Raw]
      BY DEF DrawsType
    <3>2. last \in Chooseable
      BY DEF MixType
    <3> QED
      BY <3>1, <3>2, ChooseIs, PickedType
  <2>2. performed' \in Seq(Chooseable)
    <3>1. performed' = performed \/ performed' = Append(performed, Choose(draw[t]))
      BY <1>4 DEF ChooseOperation, Returned
    <3>2. performed \in Seq(Chooseable)
      BY DEF MixType
    <3>3. Append(performed, Choose(draw[t])) \in Seq(Chooseable)
      BY <2>1, <3>2, AppendType
    <3> QED
      BY <3>1, <3>2, <3>3
  <2>3. last' \in Chooseable /\ UNCHANGED <<lock, left>>
    BY <1>4, <2>1 DEF ChooseOperation
  <2> QED
    BY <2>2, <2>3 DEF MixType
<1> QED
  BY <1>1, <1>2, <1>3, <1>4 DEF Step

THEOREM MixInvariance == Spec => []MixType
<1>1. DrawsInv /\ MixType /\ [Next]_vars => MixType'
  <2> SUFFICES ASSUME DrawsInv, MixType, [Next]_vars PROVE MixType'
    OBVIOUS
  <2>1. ASSUME NEW t \in Thread, Step(t) PROVE MixType'
    BY <2>1, StepMix DEF DrawsInv
  <2>2. CASE UNCHANGED vars
    BY <2>2 DEF vars, MixType
  <2> QED
    BY <2>1, <2>2 DEF Next, Finished
<1> QED
  BY <1>1, InitMix, DrawsInvariance, PTL DEF Spec

(* Whatever the compiler and the threads do to a draw, the engine stays on *)
(* its cycle and the chooser yields an operation of the mix: for any       *)
(* engine, weights and number of threads.                                  *)
THEOREM DrawsTypeCorrect == Spec => []DrawsTypeOK
<1>1. DrawsInv /\ MixType => DrawsTypeOK
  BY DEF DrawsInv, DrawsType, MixType, DrawsTypeOK
<1> QED
  BY <1>1, DrawsInvariance, MixInvariance, PTL

-----------------------------------------------------------------------------
(* The operations are those that the draws pick. *)

AwaitingIn(O, label, d) == {t \in Thread : label[t] = "choose" /\ Picked(d[t]) \in O}
PerformedIn(O, seq) == {k \in DOMAIN seq : seq[k] \in O}
PickedIn(O, seq) == {k \in DOMAIN seq : Picked(seq[k]) \in O}

NoneFallsThrough(seq) == \A k \in DOMAIN seq : ~ FallsThrough(seq[k])

(* Each completed draw was performed, or is a client's that is about to.   *)
CountInv ==
  Exclusive =>
    /\ \A t \in Thread :
         pc[t] = "choose" => \E k \in DOMAIN drawn : draw[t] = drawn[k]
    /\ NoneFallsThrough(drawn) =>
         \A O \in SUBSET Chooseable :
           Cardinality(PerformedIn(O, performed)) + Cardinality(AwaitingIn(O, pc, draw)) =
             Cardinality(PickedIn(O, drawn))

(* Sets of places in a sequence, and sets of clients.                      *)
LEMMA PlacesCount ==
  ASSUME NEW n \in Nat, NEW A \in SUBSET (1 .. n)
  PROVE  /\ Cardinality(A) \in Nat
         /\ Cardinality(A \cup {n + 1}) = Cardinality(A) + 1
<1>1. IsFiniteSet(1 .. n)
  BY FS_Interval
<1>2. IsFiniteSet(A)
  BY <1>1, FS_Subset
<1>3. n + 1 \notin A
  OBVIOUS
<1>. QED BY <1>2, <1>3, FS_AddElement, FS_CardinalityType

LEMMA ClientsCount ==
  ASSUME NEW A \in SUBSET Thread, NEW t \in Thread
  PROVE  /\ Cardinality(A) \in Nat
         /\ t \notin A => Cardinality(A \cup {t}) = Cardinality(A) + 1
         /\ t \in A => Cardinality(A) = Cardinality(A \ {t}) + 1 /\ Cardinality(A \ {t}) \in Nat
<1>1. IsFiniteSet(A) /\ IsFiniteSet(A \ {t})
  BY DrawsAssumption, FS_Subset
<1>2. ASSUME t \in A PROVE Cardinality(A) = Cardinality(A \ {t}) + 1
  <2>1. (A \ {t}) \cup {t} = A /\ t \notin A \ {t}
    BY <1>2
  <2>. QED BY <1>1, <2>1, FS_AddElement
<1>. QED BY <1>1, <1>2, FS_AddElement, FS_CardinalityType

(* What an element more adds.                                              *)
LEMMA AppendCounts ==
  ASSUME NEW S, NEW seq \in Seq(S), NEW e \in S, NEW O
  PROVE  /\ Cardinality(PerformedIn(O, seq)) \in Nat
         /\ Cardinality(PerformedIn(O, Append(seq, e))) =
              Cardinality(PerformedIn(O, seq)) + IF e \in O THEN 1 ELSE 0
         /\ Cardinality(PickedIn(O, seq)) \in Nat
         /\ Cardinality(PickedIn(O, Append(seq, e))) =
              Cardinality(PickedIn(O, seq)) + IF Picked(e) \in O THEN 1 ELSE 0
<1>1. PICK n \in Nat : n = Len(seq)
  OBVIOUS
<1>. DEFINE longer == Append(seq, e)
<1>2. /\ DOMAIN seq = 1 .. n /\ DOMAIN longer = 1 .. (n + 1) /\ longer[n + 1] = e
      /\ \A k \in 1 .. n : longer[k] = seq[k]
  BY <1>1
<1>3. \A k : k \in 1 .. (n + 1) <=> k \in 1 .. n \/ k = n + 1
  OBVIOUS
<1>. HIDE DEF longer
<1>4. PerformedIn(O, longer) = IF e \in O THEN PerformedIn(O, seq) \cup {n + 1}
                               ELSE PerformedIn(O, seq)
  BY <1>2, <1>3 DEF PerformedIn
<1>5. PickedIn(O, longer) = IF Picked(e) \in O THEN PickedIn(O, seq) \cup {n + 1}
                            ELSE PickedIn(O, seq)
  BY <1>2, <1>3 DEF PickedIn
<1>6. PerformedIn(O, seq) \in SUBSET (1 .. n) /\ PickedIn(O, seq) \in SUBSET (1 .. n)
  BY <1>2 DEF PerformedIn, PickedIn
<1>7. /\ Cardinality(PerformedIn(O, seq)) \in Nat
      /\ Cardinality(PerformedIn(O, seq) \cup {n + 1}) = Cardinality(PerformedIn(O, seq)) + 1
  BY <1>6, PlacesCount
<1>8. /\ Cardinality(PickedIn(O, seq)) \in Nat
      /\ Cardinality(PickedIn(O, seq) \cup {n + 1}) = Cardinality(PickedIn(O, seq)) + 1
  BY <1>6, PlacesCount
<1>9. \A m \in Nat : m + 0 = m
  OBVIOUS
<1>10. Cardinality(PerformedIn(O, longer)) =
         Cardinality(PerformedIn(O, seq)) + IF e \in O THEN 1 ELSE 0
  BY <1>4, <1>7, <1>9
<1>11. Cardinality(PickedIn(O, longer)) =
         Cardinality(PickedIn(O, seq)) + IF Picked(e) \in O THEN 1 ELSE 0
  BY <1>5, <1>8, <1>9
<1>. QED BY <1>7, <1>8, <1>10, <1>11 DEF longer

LEMMA CountInvInit == Init => CountInv
<1>. SUFFICES ASSUME Init PROVE CountInv
  OBVIOUS
<1>1. drawn = << >> /\ performed = << >> /\ \A t \in Thread : pc[t] = "next"
  BY DEF Init
<1>2. \A O : /\ PerformedIn(O, performed) = {} /\ AwaitingIn(O, pc, draw) = {}
             /\ PickedIn(O, drawn) = {}
  BY <1>1 DEF PerformedIn, AwaitingIn, PickedIn
<1>3. Cardinality({}) = 0 /\ 0 + 0 = 0
  BY FS_EmptySet
<1>. QED BY <1>1, <1>2, <1>3 DEF CountInv

(* A step that completes no draw and performs none.                        *)
LEMMA CountInvFrame ==
  ASSUME CountInv, UNCHANGED <<users, drawn, performed>>,
         \A s \in Thread : pc'[s] = "choose" <=> pc[s] = "choose",
         \A s \in Thread : pc[s] = "choose" => draw'[s] = draw[s]
  PROVE  CountInv'
<1>1. \A O : AwaitingIn(O, pc', draw') = AwaitingIn(O, pc, draw)
  BY DEF AwaitingIn
<1>. QED BY <1>1 DEF CountInv, Exclusive, NoneFallsThrough

LEMMA CountInvStep ==
  ASSUME DrawsInv, MixType, CountInv, NEW t \in Thread, Step(t)
  PROVE  CountInv'
<1>. USE DEF DrawsInv
<1>0. /\ pc \in [Thread -> Label] /\ draw \in [Thread -> [from : Raw, first : Raw, second : Raw]]
      /\ drawn \in Seq([from : Raw, first : Raw, second : Raw])
      /\ performed \in Seq(Chooseable)
  BY DEF DrawsType, MixType
<1>1. CASE BeginTransaction(t) \/ DrawElsewhere(t)
  BY <1>1, CountInvFrame DEF BeginTransaction, DrawElsewhere
<1>2. CASE Lock(t) \/ Load(t) \/ Store(t) \/ Reload(t) \/ StoreAgain(t)
  <2>1. /\ UNCHANGED <<users, drawn, performed>>
        /\ pc[t] # "choose" /\ pc'[t] # "choose"
        /\ \A s \in Thread \ {t} : pc'[s] = pc[s] /\ draw'[s] = draw[s]
    BY <1>0, <1>2 DEF Lock, Load, Store, Reload, StoreAgain, Goto
  <2>. QED BY <2>1, CountInvFrame
<1>3. CASE Unlock(t)
  <2>. SUFFICES ASSUME Exclusive' PROVE CountInv'
    BY DEF CountInv
  <2>1. Exclusive /\ users' = users
    BY <1>3 DEF Unlock, Exclusive
  <2>2. Head(todo[t]) = "op_chooser_"
    BY <1>3, <2>1 DEF Unlock, LockInv, Drawing, Exclusive
  <2>3. /\ pc[t] = "unlock" /\ pc' = [pc EXCEPT ![t] = "choose"]
        /\ UNCHANGED <<draw, performed>> /\ drawn' = Append(drawn, draw[t])
    BY <1>3, <2>1, <2>2 DEF Unlock, Goto
  <2>4. PICK n \in Nat : n = Len(drawn)
    BY <1>0
  <2>5. /\ DOMAIN drawn = 1 .. n /\ DOMAIN drawn' = 1 .. (n + 1)
        /\ drawn'[n + 1] = draw[t] /\ \A k \in 1 .. n : drawn'[k] = drawn[k]
    BY <1>0, <2>3, <2>4
  <2>6. \A k \in 1 .. n : k \in 1 .. (n + 1)
    OBVIOUS
  <2>7. n + 1 \in 1 .. (n + 1)
    OBVIOUS
  <2>8. ASSUME NEW s \in Thread, pc'[s] = "choose"
        PROVE  \E k \in DOMAIN drawn' : draw'[s] = drawn'[k]
    <3>1. CASE s = t
      BY <2>3, <2>5, <2>7, <3>1
    <3>2. CASE s # t
      <4>1. pc[s] = "choose"
        BY <1>0, <2>3, <2>8, <3>2
      <4>2. PICK k \in DOMAIN drawn : draw[s] = drawn[k]
        BY <2>1, <4>1 DEF CountInv
      <4>. QED BY <2>3, <2>5, <2>6, <4>2
    <3>. QED BY <3>1, <3>2
  <2>9. ASSUME NoneFallsThrough(drawn'), NEW O \in SUBSET Chooseable
        PROVE  Cardinality(PerformedIn(O, performed')) + Cardinality(AwaitingIn(O, pc', draw'))
                 = Cardinality(PickedIn(O, drawn'))
    <3>1. NoneFallsThrough(drawn)
      BY <2>5, <2>6, <2>9 DEF NoneFallsThrough
    <3>2. Cardinality(PerformedIn(O, performed)) + Cardinality(AwaitingIn(O, pc, draw))
            = Cardinality(PickedIn(O, drawn))
      BY <2>1, <3>1 DEF CountInv
    <3>3. draw[t] \in [from : Raw, first : Raw, second : Raw]
      BY <1>0
    <3>4. /\ Cardinality(PickedIn(O, drawn)) \in Nat
          /\ Cardinality(PickedIn(O, drawn')) =
               Cardinality(PickedIn(O, drawn)) + IF Picked(draw[t]) \in O THEN 1 ELSE 0
      <4>. DEFINE Drawn == [from : Raw, first : Raw, second : Raw]
      <4>1. drawn \in Seq(Drawn) /\ draw[t] \in Drawn
        BY <1>0, <3>3
      <4>. HIDE DEF Drawn
      <4>2. /\ Cardinality(PickedIn(O, drawn)) \in Nat
            /\ Cardinality(PickedIn(O, Append(drawn, draw[t]))) =
                 Cardinality(PickedIn(O, drawn)) + IF Picked(draw[t]) \in O THEN 1 ELSE 0
        BY <4>1, AppendCounts
      <4>. QED BY <2>3, <4>2
    <3>5. /\ AwaitingIn(O, pc, draw) \in SUBSET Thread /\ t \notin AwaitingIn(O, pc, draw)
          /\ AwaitingIn(O, pc', draw') =
               IF Picked(draw[t]) \in O THEN AwaitingIn(O, pc, draw) \cup {t}
               ELSE AwaitingIn(O, pc, draw)
      BY <1>0, <2>3 DEF AwaitingIn
    <3>6. /\ Cardinality(AwaitingIn(O, pc, draw)) \in Nat
          /\ Cardinality(AwaitingIn(O, pc, draw) \cup {t}) =
               Cardinality(AwaitingIn(O, pc, draw)) + 1
      BY <3>5, ClientsCount
    <3>7. Cardinality(PerformedIn(O, performed)) \in Nat
      <4>1. PICK e \in Chooseable : TRUE
        BY DEF MixType
      <4>. QED BY <1>0, <4>1, AppendCounts
    <3>. DEFINE a == Cardinality(PerformedIn(O, performed))
                b == Cardinality(AwaitingIn(O, pc, draw))
                c == Cardinality(PickedIn(O, drawn))
    <3>8. CASE Picked(draw[t]) \in O
      <4>1. /\ Cardinality(AwaitingIn(O, pc', draw')) = b + 1
            /\ Cardinality(PickedIn(O, drawn')) = c + 1
            /\ Cardinality(PerformedIn(O, performed')) = a
        BY <2>3, <3>4, <3>5, <3>6, <3>8
      <4>2. a \in Nat /\ b \in Nat /\ c \in Nat /\ a + b = c
        BY <3>2, <3>4, <3>6, <3>7
      <4>. HIDE DEF a, b, c
      <4>. QED BY <4>1, <4>2
    <3>9. CASE Picked(draw[t]) \notin O
      <4>1. /\ Cardinality(AwaitingIn(O, pc', draw')) = b
            /\ Cardinality(PickedIn(O, drawn')) = c + 0
            /\ Cardinality(PerformedIn(O, performed')) = a
        BY <2>3, <3>4, <3>5, <3>9
      <4>2. a \in Nat /\ b \in Nat /\ c \in Nat /\ a + b = c
        BY <3>2, <3>4, <3>6, <3>7
      <4>. HIDE DEF a, b, c
      <4>. QED BY <4>1, <4>2
    <3>. QED BY <3>8, <3>9
  <2>. QED BY <2>8, <2>9 DEF CountInv
<1>4. CASE ChooseOperation(t)
  <2>. SUFFICES ASSUME Exclusive' PROVE CountInv'
    BY DEF CountInv
  <2>1. /\ Exclusive /\ pc[t] = "choose" /\ pc' = [pc EXCEPT ![t] = "next"]
        /\ UNCHANGED <<users, draw, drawn>> /\ performed' = Append(performed, Choose(draw[t]))
    BY <1>4 DEF ChooseOperation, Exclusive, Goto, Returned
  <2>2. ASSUME NEW s \in Thread, pc'[s] = "choose"
        PROVE  \E k \in DOMAIN drawn' : draw'[s] = drawn'[k]
    <3>1. pc[s] = "choose"
      BY <1>0, <2>1, <2>2
    <3>. QED BY <2>1, <3>1 DEF CountInv
  <2>3. ASSUME NoneFallsThrough(drawn'), NEW O \in SUBSET Chooseable
        PROVE  Cardinality(PerformedIn(O, performed')) + Cardinality(AwaitingIn(O, pc', draw'))
                 = Cardinality(PickedIn(O, drawn'))
    <3>1. NoneFallsThrough(drawn)
      BY <2>1, <2>3
    <3>2. Cardinality(PerformedIn(O, performed)) + Cardinality(AwaitingIn(O, pc, draw))
            = Cardinality(PickedIn(O, drawn))
      BY <2>1, <3>1 DEF CountInv
    <3>3. ~ FallsThrough(draw[t])
      BY <2>1, <3>1 DEF CountInv, NoneFallsThrough
    <3>4. Choose(draw[t]) = Picked(draw[t]) /\ Picked(draw[t]) \in Chooseable
      BY <1>0, <3>3, ChooseIs, PickedType
    <3>5. /\ Cardinality(PerformedIn(O, performed)) \in Nat
          /\ Cardinality(PerformedIn(O, performed')) =
               Cardinality(PerformedIn(O, performed)) + IF Picked(draw[t]) \in O THEN 1 ELSE 0
      BY <1>0, <2>1, <3>4, AppendCounts
    <3>6. /\ AwaitingIn(O, pc, draw) \in SUBSET Thread
          /\ t \in AwaitingIn(O, pc, draw) <=> Picked(draw[t]) \in O
          /\ AwaitingIn(O, pc', draw') = AwaitingIn(O, pc, draw) \ {t}
      BY <1>0, <2>1 DEF AwaitingIn
    <3>7. /\ Cardinality(AwaitingIn(O, pc, draw)) \in Nat
          /\ t \in AwaitingIn(O, pc, draw) =>
               /\ Cardinality(AwaitingIn(O, pc, draw) \ {t}) \in Nat
               /\ Cardinality(AwaitingIn(O, pc, draw)) =
                    Cardinality(AwaitingIn(O, pc, draw) \ {t}) + 1
      BY <3>6, ClientsCount
    <3>. DEFINE a == Cardinality(PerformedIn(O, performed))
                b == Cardinality(AwaitingIn(O, pc, draw))
                d == Cardinality(AwaitingIn(O, pc', draw'))
                c == Cardinality(PickedIn(O, drawn))
    <3>8. CASE Picked(draw[t]) \in O
      <4>1. /\ d \in Nat /\ b = d + 1
            /\ Cardinality(PerformedIn(O, performed')) = a + 1
            /\ Cardinality(PickedIn(O, drawn')) = c
        BY <2>1, <3>5, <3>6, <3>7, <3>8
      <4>2. a \in Nat /\ b \in Nat /\ a + b = c
        BY <3>2, <3>5, <3>7
      <4>. HIDE DEF a, b, c, d
      <4>3. a + 1 + d = c
        BY <4>1, <4>2
      <4>4. d = Cardinality(AwaitingIn(O, pc', draw'))
        BY DEF d
      <4>. QED BY <4>1, <4>3, <4>4
    <3>9. CASE Picked(draw[t]) \notin O
      <4>1. AwaitingIn(O, pc', draw') = AwaitingIn(O, pc, draw)
        BY <3>6, <3>9
      <4>2. Cardinality(PerformedIn(O, performed')) = a + 0 /\ a \in Nat
        BY <3>5, <3>9
      <4>3. Cardinality(PerformedIn(O, performed')) = a
        <5>. HIDE DEF a
        <5>. QED BY <4>2
      <4>. QED BY <2>1, <3>2, <4>1, <4>3
    <3>. QED BY <3>8, <3>9
  <2>. QED BY <2>2, <2>3 DEF CountInv
<1>. QED BY <1>1, <1>2, <1>3, <1>4 DEF Step

THEOREM CountInvariance == Spec => []CountInv
<1>1. DrawsInv /\ MixType /\ CountInv /\ [Next]_vars => CountInv'
  <2>. SUFFICES ASSUME DrawsInv, MixType, CountInv, [Next]_vars PROVE CountInv'
    OBVIOUS
  <2>1. ASSUME NEW t \in Thread, Step(t) PROVE CountInv'
    BY <2>1, CountInvStep
  <2>2. CASE UNCHANGED vars
    BY <2>2, CountInvFrame DEF vars
  <2>. QED BY <2>1, <2>2 DEF Next, Finished
<1>. QED BY <1>1, CountInvInit, DrawsInvariance, MixInvariance, PTL DEF Spec

-----------------------------------------------------------------------------
(* The draws of all clients are those of one client alone.                 *)

LEMMA EngineAlone ==
  /\ EngineAfter[0] = Seed
  /\ \A k \in Nat : EngineAfter[k + 1] = Advance(Advance(EngineAfter[k]))
<1>. DEFINE step == [k \in Nat |-> [x \in Raw |-> Advance(Advance(x))]]
            Alone(e) == e = [k \in Nat |->
                               IF k = 0 THEN Seed ELSE Advance(Advance(e[k - 1]))]
<1>1. step \in [Nat -> [Raw -> Raw]]
  BY AdvanceRaw
<1>2. \A k \in Nat : \A x \in Raw : step[k][x] = Advance(Advance(x))
  OBVIOUS
<1>. HIDE DEF step
<1>3. PICK f : Recursive(f, Raw, Seed, step)
  BY <1>1, SeedRaw, Recursion
<1>4. f \in [Nat -> Raw] /\ f[0] = Seed
  BY <1>3 DEF Recursive
<1>5. \A k \in Nat : f[k + 1] = Advance(Advance(f[k]))
  BY <1>2, <1>3, <1>4 DEF Recursive
<1>6. \A k \in Nat : k # 0 => f[k] = Advance(Advance(f[k - 1]))
  <2>1. ASSUME NEW k \in Nat, k # 0 PROVE f[k] = Advance(Advance(f[k - 1]))
    <3>1. k - 1 \in Nat /\ (k - 1) + 1 = k
      BY <2>1
    <3>2. f[(k - 1) + 1] = Advance(Advance(f[k - 1]))
      BY <1>5, <3>1
    <3>. QED BY <3>1, <3>2
  <2>. QED BY <2>1
<1>7. Alone(f)
  <2>1. f = [k \in Nat |-> f[k]]
    BY <1>4
  <2>2. \A k \in Nat : f[k] = IF k = 0 THEN Seed ELSE Advance(Advance(f[k - 1]))
    BY <1>4, <1>6
  <2>. QED BY <2>1, <2>2
<1>8. Alone(EngineAfter)
  <2>1. EngineAfter = CHOOSE e : Alone(e)
    BY DEF EngineAfter
  <2>. HIDE DEF Alone
  <2>. QED BY <1>7, <2>1
<1>9. EngineAfter[0] = Seed
  BY <1>8
<1>10. ASSUME NEW k \in Nat
       PROVE  EngineAfter[k + 1] = Advance(Advance(EngineAfter[k]))
  <2>1. k + 1 \in Nat /\ k + 1 # 0 /\ (k + 1) - 1 = k
    OBVIOUS
  <2>2. EngineAfter[k + 1] = Advance(Advance(EngineAfter[(k + 1) - 1]))
    BY <1>8, <2>1
  <2>. QED BY <2>1, <2>2
<1>. HIDE DEF Alone
<1>. QED BY <1>9, <1>10

LEMMA DrawnAlone ==
  ASSUME DrawsType, DrawsSerial, Exclusive
  PROVE  \A k \in DOMAIN drawn : drawn[k] = SoleDraw(k)
<1>. DEFINE T == {k \in Nat : k \in DOMAIN drawn =>
                    /\ drawn[k].from = EngineAfter[k - 1]
                    /\ drawn[k].second = EngineAfter[k]}
<1>0. PICK n \in Nat : DOMAIN drawn = 1 .. n
  BY DEF DrawsType
<1>1. \A k \in DOMAIN drawn :
        /\ drawn[k].from = IF k = 1 THEN Seed ELSE drawn[k - 1].second
        /\ drawn[k].first = Advance(drawn[k].from)
        /\ drawn[k].second = Advance(drawn[k].first)
  BY DEF DrawsSerial
<1>2. 0 \in T
  BY <1>0
<1>3. ASSUME NEW k \in T PROVE k + 1 \in T
  <2>1. k \in Nat /\ (k \in DOMAIN drawn => drawn[k].second = EngineAfter[k])
    OBVIOUS
  <2>2. ASSUME k + 1 \in DOMAIN drawn
        PROVE  /\ drawn[k + 1].from = EngineAfter[(k + 1) - 1]
               /\ drawn[k + 1].second = EngineAfter[k + 1]
    <3>1. (k + 1) - 1 = k
      BY <2>1
    <3>2. drawn[k + 1].from = EngineAfter[k]
      <4>1. CASE k = 0
        <5>1. k + 1 = 1
          BY <4>1
        <5>. QED BY <1>1, <2>2, <4>1, <5>1, EngineAlone
      <4>2. CASE k # 0
        <5>1. k \in DOMAIN drawn /\ k + 1 # 1
          BY <1>0, <2>1, <2>2, <4>2
        <5>2. drawn[k + 1].from = drawn[(k + 1) - 1].second
          BY <1>1, <2>2, <5>1
        <5>. QED BY <2>1, <3>1, <5>1, <5>2
      <4>. QED BY <4>1, <4>2
    <3>3. drawn[k + 1].second = Advance(Advance(drawn[k + 1].from))
      BY <1>1, <2>2
    <3>. QED BY <2>1, <3>1, <3>2, <3>3, EngineAlone
  <2>. QED BY <2>1, <2>2
<1>. HIDE DEF T
<1>4. T = Nat
  <2>1. T \in SUBSET Nat
    BY DEF T
  <2>. QED BY <1>2, <1>3, <2>1, Induction
<1>5. ASSUME NEW k \in DOMAIN drawn PROVE drawn[k] = SoleDraw(k)
  <2>1. k \in Nat /\ drawn[k] \in [from : Raw, first : Raw, second : Raw]
    <3>1. drawn \in Seq([from : Raw, first : Raw, second : Raw])
      BY DEF DrawsType
    <3>2. drawn[k] \in [from : Raw, first : Raw, second : Raw]
      BY <3>1, SeqElements
    <3>3. k \in Nat
      BY <1>0
    <3>. QED BY <3>2, <3>3
  <2>2. drawn[k].from = EngineAfter[k - 1] /\ drawn[k].second = EngineAfter[k]
    BY <1>4, <2>1 DEF T
  <2>3. drawn[k].first = Advance(EngineAfter[k - 1])
    BY <1>1, <2>2
  <2>4. drawn[k] = [from |-> drawn[k].from, first |-> drawn[k].first,
                    second |-> drawn[k].second]
    BY <2>1
  <2>. QED BY <2>2, <2>3, <2>4 DEF SoleDraw
<1>. QED BY <1>5

(* A workload is reproducible: however the threads interleave, together    *)
(* they perform each operation as often as one thread would, for any       *)
(* number of threads and transactions, any weights and any engine, unless  *)
(* rounding made a draw depend on what others drew last.                   *)
THEOREM SameOperationsCorrect == Spec => []SameOperations
<1>1. DrawsInv /\ MixType /\ CountInv => SameOperations
  <2>. SUFFICES ASSUME DrawsInv, MixType, CountInv, Exclusive, Ended,
                       NoneFallsThrough(drawn), NEW o \in Chooseable
                PROVE  Times(o, performed) =
                         Times(o, [k \in 1 .. Len(performed) |-> Choose(SoleDraw(k))])
    BY DEF SameOperations, NoneFallsThrough
  <2>1. \A O : AwaitingIn(O, pc, draw) = {}
    BY DEF Ended, AwaitingIn
  <2>2. PICK n \in Nat : n = Len(drawn) /\ DOMAIN drawn = 1 .. n
    BY DEF DrawsInv, DrawsType
  <2>3. PICK m \in Nat : m = Len(performed) /\ DOMAIN performed = 1 .. m
    BY DEF MixType
  <2>4. \A k \in DOMAIN drawn :
          /\ drawn[k] = SoleDraw(k)
          /\ Choose(drawn[k]) = Picked(drawn[k]) /\ Picked(drawn[k]) \in Chooseable
    <3>1. \A k \in DOMAIN drawn : drawn[k] = SoleDraw(k)
      BY DrawnAlone DEF DrawsInv
    <3>2. ASSUME NEW k \in DOMAIN drawn
          PROVE  Choose(drawn[k]) = Picked(drawn[k]) /\ Picked(drawn[k]) \in Chooseable
      <4>1. drawn \in Seq([from : Raw, first : Raw, second : Raw])
        BY DEF DrawsInv, DrawsType
      <4>2. drawn[k] \in [from : Raw, first : Raw, second : Raw]
        BY <4>1, SeqElements
      <4>3. ~ FallsThrough(drawn[k])
        BY DEF NoneFallsThrough
      <4>. QED BY <4>2, <4>3, ChooseIs, PickedType
    <3>. QED BY <3>1, <3>2
  <2>5. ASSUME NEW O \in SUBSET Chooseable
        PROVE  Cardinality(PerformedIn(O, performed)) = Cardinality(PickedIn(O, drawn))
    <3>1. Cardinality(PerformedIn(O, performed)) + Cardinality(AwaitingIn(O, pc, draw))
            = Cardinality(PickedIn(O, drawn))
      BY DEF CountInv
    <3>2. Cardinality(AwaitingIn(O, pc, draw)) = 0
      BY <2>1, FS_EmptySet
    <3>3. Cardinality(PerformedIn(O, performed)) \in Nat
      BY AppendCounts DEF MixType
    <3>. QED BY <3>1, <3>2, <3>3
  <2>6. m = n
    <3>1. PerformedIn(Chooseable, performed) = 1 .. m
      BY <2>3 DEF PerformedIn, MixType
    <3>2. PickedIn(Chooseable, drawn) = 1 .. n
      BY <2>2, <2>4 DEF PickedIn
    <3>3. Cardinality(1 .. m) = Cardinality(1 .. n)
      BY <2>5, <3>1, <3>2
    <3>4. Cardinality(1 .. m) = m /\ Cardinality(1 .. n) = n
      BY FS_Interval
    <3>. QED BY <3>3, <3>4
  <2>. DEFINE alone == [k \in 1 .. Len(performed) |-> Choose(SoleDraw(k))]
  <2>7. {k \in DOMAIN alone : alone[k] = o} = PickedIn({o}, drawn)
    BY <2>2, <2>3, <2>4, <2>6 DEF PickedIn
  <2>8. {k \in DOMAIN performed : performed[k] = o} = PerformedIn({o}, performed)
    BY DEF PerformedIn
  <2>. HIDE DEF alone
  <2>9. Times(o, performed) = Times(o, alone)
    BY <2>5, <2>7, <2>8 DEF Times
  <2>. QED BY <2>9 DEF alone
<1>. QED BY <1>1, DrawsInvariance, MixInvariance, CountInvariance, PTL
=============================================================================
