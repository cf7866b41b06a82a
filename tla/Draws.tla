-------------------------------- MODULE Draws --------------------------------
(***************************************************************************)
(* The random engine that the generators share.  RandomDouble of           *)
(* core/utils.h advances one static engine, twice for each double, and     *)
(* leaves the locking to its callers: each generator calls it under a      *)
(* mutex of its own.  op_chooser_ always uses the engine.  A zipfian or    *)
(* latest request distribution, zipfian field lengths and zipfian scan     *)
(* lengths each advance it under another mutex, which is a data race.      *)
(*                                                                         *)
(* Clients are followed through the draws of their transactions and no     *)
(* further; Seed is where the generators' constructors left the engine.    *)
(***************************************************************************)
EXTENDS Integers, Sequences, FiniteSets

CONSTANTS
  Thread,       \* the clients
  Rounds,       \* transactions of each client
  Modulus, Multiplier, Seed,   \* of the linear congruential engine
  Values,       \* op_chooser_.values_: operations with their weights
  FieldCount,   \* fieldcount
  WriteAllFields,   \* writeallfields
  MaxDraws,     \* bound: draws until a key is acceptable
  Slack         \* how many of the largest doubles rounding puts past the weights

Raw == 1 .. (Modulus - 1)

(* engine() of std::linear_congruential_engine.                            *)
Advance(x) == (x * Multiplier) % Modulus

ASSUME EngineAssumption ==
  /\ Modulus \in Nat /\ Multiplier \in Nat
  /\ Seed \in Raw
  /\ \A x \in Raw : Advance(x) \in Raw

ASSUME DrawsAssumption ==
  /\ IsFiniteSet(Thread)
  /\ Rounds \in Nat /\ FieldCount \in Nat /\ Slack \in Nat
  /\ MaxDraws \in Nat \ {0}
  /\ WriteAllFields \in BOOLEAN
  /\ Values \in Seq([operation : STRING, weight : Nat \ {0}])
  /\ Values # << >>

Generator ==
  {"op_chooser_", "key_chooser_", "scan_len_chooser_", "field_len_generator_"}

VARIABLES
  users,      \* the generators that call RandomDouble: chosen by the workload
  engine,     \* the state of the static engine
  lock,       \* the generators whose mutex is locked
  pc,         \* where each client is
  left,       \* the transactions it has yet to begin
  todo,       \* the generators that its transaction has yet to draw from
  draw,       \* the draw in hand: the engine's state when it began, and since
  last,       \* op_chooser_.last_
  drawn,      \* history: the completed draws, in the order of their unlocking
  performed   \* history: the operations that were chosen

vars == <<users, engine, lock, pc, left, todo, draw, last, drawn, performed>>

(* Mutant: last_ is not set, and may hold an operation outside the mix. *)
FirstValueUnset == "DELETE"

(* DiscreteGenerator::AddValue sets last_ for the first value.             *)
FirstValue == Values[1].operation

Init ==
  /\ users \in {u \in SUBSET Generator : "op_chooser_" \in u}
  /\ engine = Seed
  /\ lock = {}
  /\ pc = [t \in Thread |-> "next"]
  /\ left = [t \in Thread |-> Rounds]
  /\ todo = [t \in Thread |-> << >>]
  /\ draw = [t \in Thread |-> [from |-> Seed, first |-> Seed, second |-> Seed]]
  /\ last = FirstValue
  /\ drawn = << >>
  /\ performed = << >>

(* The engine is advanced under one mutex only.                            *)
Exclusive == users = {"op_chooser_"}

-----------------------------------------------------------------------------
(* generate_canonical: a double from two numbers of the engine, the second *)
(* one the more significant, as a multiple of 1 / Doubles.                 *)
Doubles == (Modulus - 1) * (Modulus - 1)
Canonical(d) == (d.first - 1) + (d.second - 1) * (Modulus - 1)

WeightUpTo[k \in 0 .. Len(Values)] ==
  IF k = 0 THEN 0 ELSE WeightUpTo[k - 1] + Values[k].weight

FallsThrough(d) == Canonical(d) >= Doubles - Slack

(* DiscreteGenerator::Next behind the unlock: the first value whose weight *)
(* is not used up by the draw.  A draw that rounding puts past them all    *)
(* gets what any client stored last, since assertions are off.             *)
Choose(d) ==
  LET hit == {k \in DOMAIN Values :
                Canonical(d) * WeightUpTo[Len(Values)] < WeightUpTo[k] * Doubles}
  IN IF FallsThrough(d) THEN last
     ELSE Values[CHOOSE k \in hit : \A j \in hit : k <= j].operation

(* The draws that an operation calls for: keys until one is acceptable,    *)
(* then the length of a scan, or the lengths of the fields that are built. *)
Repeat(g, n) == [k \in 1 .. n |-> g]

BuildValues == Repeat("field_len_generator_", FieldCount)
BuildUpdate == Repeat("field_len_generator_", 1)

DrawsOf(o, keys) ==
  LET NextTransactionKey == Repeat("key_chooser_", keys)
  IN  CASE o = "INSERT" -> BuildValues
        [] o \in {"UPDATE", "READMODIFYWRITE"} ->
             NextTransactionKey \o (IF WriteAllFields THEN BuildValues ELSE BuildUpdate)
        [] o = "SCAN" -> NextTransactionKey \o Repeat("scan_len_chooser_", 1)
        [] OTHER -> NextTransactionKey

Goto(t, label) == pc' = [pc EXCEPT ![t] = label]

-----------------------------------------------------------------------------
(* DelegateClient's loop, NextOperation.                                   *)
BeginTransaction(t) ==
  /\ pc[t] = "next"
  /\ todo[t] = << >>
  /\ left[t] > 0
  /\ left' = [left EXCEPT ![t] = @ - 1]
  /\ todo' = [todo EXCEPT ![t] = <<"op_chooser_">>]
  /\ UNCHANGED <<users, engine, lock, pc, draw, last, drawn, performed>>

(* A generator that has an engine of its own, or none.                     *)
DrawElsewhere(t) ==
  /\ pc[t] = "next"
  /\ todo[t] # << >>
  /\ Head(todo[t]) \notin users
  /\ todo' = [todo EXCEPT ![t] = Tail(@)]
  /\ UNCHANGED <<users, engine, lock, pc, left, draw, last, drawn, performed>>

(* Mutant: RandomDouble is called without the lock. *)
LockIsFreeMutant(g) == TRUE

LockIsFree(g) == g \notin lock

Lock(t) ==
  /\ pc[t] = "next"
  /\ todo[t] # << >>
  /\ Head(todo[t]) \in users
  /\ LockIsFree(Head(todo[t]))
  /\ lock' = lock \cup {Head(todo[t])}
  /\ Goto(t, "load")
  /\ UNCHANGED <<users, engine, left, todo, draw, last, drawn, performed>>

(* RandomDouble: the first of two calls of the engine reads its state ...  *)
Load(t) ==
  /\ pc[t] = "load"
  /\ draw' = [draw EXCEPT ![t] = [from |-> engine, first |-> Advance(engine),
                                  second |-> Advance(Advance(engine))]]
  /\ Goto(t, "store")
  /\ UNCHANGED <<users, engine, lock, left, todo, last, drawn, performed>>

(* ... and writes its successor.  The compiler may leave this write to the *)
(* second call, which then goes on from a register.                        *)
Store(t) ==
  /\ pc[t] = "store"
  /\ \/ engine' = draw[t].first /\ (Goto(t, "reload") \/ Goto(t, "advance"))
     \/ UNCHANGED engine /\ Goto(t, "advance")
  /\ UNCHANGED <<users, lock, left, todo, draw, last, drawn, performed>>

(* The second call reads the state again, unless it has it in a register.  *)
Reload(t) ==
  /\ pc[t] = "reload"
  /\ draw' = [draw EXCEPT ![t].second = Advance(engine)]
  /\ Goto(t, "advance")
  /\ UNCHANGED <<users, engine, lock, left, todo, last, drawn, performed>>

StoreAgain(t) ==
  /\ pc[t] = "advance"
  /\ engine' = draw[t].second
  /\ Goto(t, "unlock")
  /\ UNCHANGED <<users, lock, left, todo, draw, last, drawn, performed>>

(* The histories are kept while the draws are in one order.                *)
Unlock(t) ==
  /\ pc[t] = "unlock"
  /\ lock' = lock \ {Head(todo[t])}
  /\ drawn' = IF Exclusive THEN Append(drawn, draw[t]) ELSE drawn
  /\ IF Head(todo[t]) = "op_chooser_"
     THEN Goto(t, "choose") /\ UNCHANGED todo
     ELSE Goto(t, "next") /\ todo' = [todo EXCEPT ![t] = Tail(@)]
  /\ UNCHANGED <<users, engine, left, draw, last, performed>>

(* Mutant: what is returned is read back from last_. *)
ReturnedMutant(d) == last

(* return last_ = p->first: an assignment to an atomic is the value that   *)
(* was assigned, not what the atomic holds by then.                        *)
Returned(d) == Choose(d)

ChooseOperation(t) ==
  /\ pc[t] = "choose"
  /\ last' = Choose(draw[t])
  /\ performed' = IF Exclusive THEN Append(performed, Returned(draw[t])) ELSE performed
  /\ \E keys \in 1 .. MaxDraws :
       todo' = [todo EXCEPT ![t] = DrawsOf(Returned(draw[t]), keys)]
  /\ Goto(t, "next")
  /\ UNCHANGED <<users, engine, lock, left, draw, drawn>>

Ended == \A t \in Thread : pc[t] = "next" /\ todo[t] = << >> /\ left[t] = 0

Finished == Ended /\ UNCHANGED vars

Step(t) ==
  \/ BeginTransaction(t) \/ DrawElsewhere(t) \/ Lock(t) \/ Load(t) \/ Store(t)
  \/ Reload(t) \/ StoreAgain(t) \/ Unlock(t) \/ ChooseOperation(t)

Next == (\E t \in Thread : Step(t)) \/ Finished

Spec == Init /\ [][Next]_vars

-----------------------------------------------------------------------------
Label == {"next", "load", "store", "reload", "advance", "unlock", "choose"}

Chooseable == {Values[k].operation : k \in DOMAIN Values}

(* Whatever two threads do to each other's draws, the engine stays on its  *)
(* cycle (a zero would be the last number it ever makes), and the chooser  *)
(* yields an operation of the mix, also for a draw past the last weight.   *)
DrawsTypeOK ==
  /\ engine \in Raw
  /\ lock \subseteq Generator
  /\ pc \in [Thread -> Label]
  /\ left \in [Thread -> 0 .. Rounds]
  /\ todo \in [Thread -> Seq(Generator)]
  /\ draw \in [Thread -> [from : Raw, first : Raw, second : Raw]]
  /\ last \in Chooseable
  /\ drawn \in Seq([from : Raw, first : Raw, second : Raw])
  /\ performed \in Seq(Chooseable)

(* As long as the chooser of operations is the only user of the engine,    *)
(* the draws of all threads are one sequence: each begins where the one    *)
(* before it left the engine, none is repeated and none is lost, although  *)
(* the engine has no lock of its own.                                      *)
DrawsSerial ==
  Exclusive =>
    \A k \in DOMAIN drawn :
      /\ drawn[k].from = IF k = 1 THEN Seed ELSE drawn[k - 1].second
      /\ drawn[k].first = Advance(drawn[k].from)
      /\ drawn[k].second = Advance(drawn[k].first)

(* Where a single thread's draws leave the engine, and the draws.           *)
EngineAfter[k \in Nat] ==
  IF k = 0 THEN Seed ELSE Advance(Advance(EngineAfter[k - 1]))

SoleDraw(k) ==
  [from |-> EngineAfter[k - 1], first |-> Advance(EngineAfter[k - 1]),
   second |-> EngineAfter[k]]

Times(o, seq) == Cardinality({k \in DOMAIN seq : seq[k] = o})

(* Then a workload is reproducible: however the threads interleave, they   *)
(* perform each operation as often as one thread would, which draws them   *)
(* all; unless rounding made a draw depend on what others drew last.       *)
SameOperations ==
  Exclusive /\ Ended /\ (\A k \in DOMAIN drawn : ~ FallsThrough(drawn[k])) =>
    \A o \in Chooseable :
      Times(o, performed) =
        Times(o, [k \in 1 .. Len(performed) |-> Choose(SoleDraw(k))])

-----------------------------------------------------------------------------
(* The inductive invariant behind DrawsSerial. *)

Drawing(t) == pc[t] \in {"load", "store", "reload", "advance", "unlock"}

DrawsType ==
  /\ users \subseteq Generator
  /\ engine \in Raw
  /\ pc \in [Thread -> Label]
  /\ todo \in [Thread -> Seq(Generator)]
  /\ draw \in [Thread -> [from : Raw, first : Raw, second : Raw]]
  /\ drawn \in Seq([from : Raw, first : Raw, second : Raw])

(* Who draws holds the mutex of the generator it draws from, alone.        *)
LockInv ==
  /\ \A t \in Thread : Drawing(t) =>
       todo[t] # << >> /\ Head(todo[t]) \in users \cap lock
  /\ \A s, t \in Thread :
       s # t /\ Drawing(s) /\ Drawing(t) => Head(todo[s]) # Head(todo[t])

(* Where the draws so far have left the engine, and the draw that follows. *)
Reached == IF drawn = << >> THEN Seed ELSE drawn[Len(drawn)].second
Following == [from |-> Reached, first |-> Advance(Reached),
              second |-> Advance(Advance(Reached))]

(* With one user, the engine is there between draws, and a draw under way  *)
(* is the one that follows, however the compiler arranged its accesses.    *)
EngineInv ==
  Exclusive =>
    /\ (\A t \in Thread : Drawing(t) => pc[t] = "load") => engine = Reached
    /\ \A t \in Thread :
         /\ pc[t] \in {"store", "reload", "advance", "unlock"} => draw[t] = Following
         /\ pc[t] = "reload" => engine = draw[t].first
         /\ pc[t] = "unlock" => engine = draw[t].second

DrawsInv == DrawsType /\ LockInv /\ EngineInv /\ DrawsSerial
=============================================================================
