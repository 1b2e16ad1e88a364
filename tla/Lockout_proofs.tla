--------------------------- MODULE Lockout_proofs ---------------------------
(***************************************************************************)
(* Proofs about Lockout, for every limit, window and number of sign-ins.   *)
(***************************************************************************)
EXTENDS Lockout, FiniteSetTheorems, TLAPS

(* Sign-ins that were let through and whose password is being verified.     *)
Guessing == {p \in Procs : pc[p] = "verify"}

(* Each of them was let through when the counter was below the limit: what  *)
(* they may still add to it is bounded by how many of them there can be.    *)
Budget == count + Cardinality(Guessing) < MaxAttempts + Cardinality(Procs)

(* A sign-in that is alone found the counter below the limit, and nobody    *)
(* has raised it since.                                                     *)
Alone ==
    ~shared => /\ \A p, q \in Procs : pc[p] # "idle" /\ pc[q] # "idle" => p = q
               /\ \A p \in Procs : pc[p] = "verify" => count < MaxAttempts

Inv == TypeOK /\ Budget /\ Alone /\ LimitExact /\ CounterTimed

LEMMA GuessingFinite ==
    ASSUME NEW S \in SUBSET Procs
    PROVE  /\ IsFiniteSet(S)
           /\ Cardinality(S) \in Nat /\ Cardinality(Procs) \in Nat
           /\ Cardinality(S) <= Cardinality(Procs)
BY LockoutAssumption, FS_Subset, FS_CardinalityType

LEMMA InitInv == Init => Inv
<1> SUFFICES ASSUME Init PROVE Inv
  OBVIOUS
<1>1. Guessing = {}
  BY DEF Init, Guessing
<1>2. Cardinality(Guessing) = 0
  BY <1>1, FS_EmptySet
<1>3. Cardinality(Procs) \in Nat
  BY GuessingFinite
<1>4. Budget
  BY <1>2, <1>3, LockoutAssumption DEF Init, Budget
<1>5. TypeOK
  <2>1. count \in Nat /\ ttl \in 0..Window /\ calls \in 0..MaxCalls
    BY LockoutAssumption DEF Init
  <2>2. lost \in BOOLEAN /\ shared \in BOOLEAN
    BY DEF Init
  <2> QED BY <2>1, <2>2 DEF Init, TypeOK
<1>6. Alone /\ LimitExact /\ CounterTimed
  BY LockoutAssumption DEF Init, Alone, LimitExact, CounterTimed
<1> QED BY <1>4, <1>5, <1>6 DEF Inv

(* A step that verifies no new password and does not raise the counter      *)
(* keeps within the budget.                                                 *)
LEMMA BudgetKept ==
    ASSUME TypeOK, Budget, count' \in Nat, count' <= count, Guessing' \subseteq Guessing
    PROVE  Budget'
<1>1. /\ IsFiniteSet(Guessing) /\ Cardinality(Guessing) \in Nat
      /\ Cardinality(Guessing') \in Nat /\ Cardinality(Procs) \in Nat
  BY GuessingFinite DEF Guessing
<1>2. Cardinality(Guessing') <= Cardinality(Guessing)
  BY <1>1, FS_Subset
<1> QED BY <1>1, <1>2, LockoutAssumption DEF Budget, TypeOK

LEMMA CheckKeeps ==
    ASSUME Inv, NEW p \in Procs, Check(p)
    PROVE  Inv'
<1> USE DEF Inv
<1>1. TypeOK'
  BY LockoutAssumption DEF TypeOK, Check, Goto
<1>2. Budget'
  <2>1. Cardinality(Guessing') <= Cardinality(Procs) /\ Cardinality(Procs) \in Nat
        /\ Cardinality(Guessing') \in Nat
    BY GuessingFinite DEF Guessing
  <2> QED BY <2>1, LockoutAssumption DEF Budget, Check, Open, TypeOK
<1>3. Alone'
  BY DEF Alone, Check, Open, Goto, TypeOK
<1>4. LimitExact' /\ CounterTimed'
  BY DEF LimitExact, CounterTimed, Check, Goto, TypeOK
<1> QED BY <1>1, <1>2, <1>3, <1>4

LEMMA WrongKeeps ==
    ASSUME Inv, NEW p \in Procs, Wrong(p)
    PROVE  Inv'
<1> USE DEF Inv
<1>1. TypeOK'
  BY DEF TypeOK, Wrong, Goto
<1>2. Budget'
  <2>1. Guessing' = Guessing \ {p} /\ p \in Guessing
    BY DEF Guessing, Wrong, Goto, TypeOK
  <2>2. IsFiniteSet(Guessing) /\ Cardinality(Guessing) \in Nat /\ Cardinality(Procs) \in Nat
    BY GuessingFinite DEF Guessing
  <2>3. Cardinality(Guessing') = Cardinality(Guessing) - 1
    BY <2>1, <2>2, FS_RemoveElement
  <2> QED BY <2>2, <2>3, LockoutAssumption DEF Budget, Wrong, TypeOK
<1>3. Alone'
  BY DEF Alone, Wrong, Goto, TypeOK
<1>4. LimitExact'
  BY LockoutAssumption DEF LimitExact, Alone, Wrong, TypeOK
<1>5. CounterTimed'
  BY DEF CounterTimed, Wrong, First, Goto, TypeOK
<1> QED BY <1>1, <1>2, <1>3, <1>4, <1>5

(* The steps after which nobody new is verifying and the counter is no      *)
(* higher: EXPIRE, DEL, a failure and the clock.                            *)
LEMMA OtherKeeps ==
    ASSUME Inv, (\E p \in Procs : Expire(p) \/ Right(p) \/ Abort(p)) \/ Tick
    PROVE  Inv'
<1> USE DEF Inv
<1>1. TypeOK' /\ count' <= count
  <2>1. count' \in Nat /\ ttl' \in 0..Window /\ calls' = calls /\ count' <= count
    BY LockoutAssumption DEF TypeOK, Expire, Expiry, Right, Abort, Tick
  <2>2. pc' \in [Procs -> {"idle", "verify", "expire"}]
    BY DEF TypeOK, Expire, Right, Abort, Tick, Goto
  <2>3. lost' \in BOOLEAN /\ shared' \in BOOLEAN
    BY DEF TypeOK, Expire, Right, Abort, Tick
  <2> QED BY <2>1, <2>2, <2>3 DEF TypeOK
<1>2. Guessing' \subseteq Guessing
  BY DEF Guessing, Expire, Right, Abort, Tick, Goto, TypeOK
<1>3. Budget'
  BY <1>1, <1>2, BudgetKept DEF TypeOK
<1>4. shared' = shared /\ \A q \in Procs : pc'[q] = pc[q] \/ pc'[q] = "idle"
  BY DEF Expire, Right, Abort, Tick, Goto, TypeOK
<1>5. Alone' /\ LimitExact'
  BY <1>1, <1>4, LockoutAssumption DEF Alone, LimitExact, TypeOK
<1>6. CounterTimed'
  <2>1. CASE \E p \in Procs : Expire(p)
    BY <2>1, LockoutAssumption DEF CounterTimed, Expire, Expiry, TypeOK
  <2>2. CASE \E p \in Procs : Right(p)
    BY <2>2 DEF CounterTimed, Right
  <2>3. CASE \E p \in Procs : Abort(p)
    BY <2>3 DEF CounterTimed, Abort, Goto, TypeOK
  <2>4. CASE Tick
    BY <2>4 DEF CounterTimed, Tick, TypeOK
  <2> QED BY <2>1, <2>2, <2>3, <2>4
<1> QED BY <1>1, <1>3, <1>5, <1>6

LEMMA NextInv == Inv /\ [Next]_vars => Inv'
<1> SUFFICES ASSUME Inv, [Next]_vars PROVE Inv'
  OBVIOUS
<1>1. CASE Next
  BY <1>1, CheckKeeps, WrongKeeps, OtherKeeps DEF Next
<1>2. CASE UNCHANGED vars
  <2>1. Guessing' = Guessing
    BY <1>2 DEF vars, Guessing
  <2> QED BY <1>2, <2>1 DEF vars, Inv, TypeOK, Budget, Alone, LimitExact, CounterTimed
<1> QED BY <1>1, <1>2

LEMMA Invariant == Spec => []Inv
BY InitInv, NextInv, PTL DEF Spec

THEOREM TypeCorrect == Spec => []TypeOK
<1>1. Inv => TypeOK
  BY DEF Inv
<1> QED BY <1>1, Invariant, PTL

(* Whatever sign-ins overlap, the counter passes its limit by less than    *)
(* the number that can be served at the same time.                         *)
THEOREM GuessesLimited == Spec => []GuessesBounded
<1>1. Inv => GuessesBounded
  <2> SUFFICES ASSUME Inv PROVE GuessesBounded
    OBVIOUS
  <2>1. Cardinality(Guessing) \in Nat /\ Cardinality(Procs) \in Nat
    BY GuessingFinite DEF Guessing
  <2> QED BY <2>1, LockoutAssumption DEF Inv, Budget, GuessesBounded, TypeOK
<1> QED BY <1>1, Invariant, PTL

(* Sign-ins that do not overlap never count past the limit.                *)
THEOREM LimitKept == Spec => []LimitExact
<1>1. Inv => LimitExact
  BY DEF Inv
<1> QED BY <1>1, Invariant, PTL

(* Only a sign-in that dies between INCR and EXPIRE leaves a counter that  *)
(* does not expire.                                                        *)
THEOREM CounterExpires == Spec => []CounterTimed
<1>1. Inv => CounterTimed
  BY DEF Inv
<1> QED BY <1>1, Invariant, PTL
=============================================================================
