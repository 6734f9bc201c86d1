--------------------------- MODULE PerfTestProofs ---------------------------
(***************************************************************************)
(* Proof, for any number of workers and iterations, that the shared        *)
(* counter of the benchmark overshoots by less than one operation per      *)
(* worker.                                                                 *)
(***************************************************************************)
EXTENDS PerfTest, FiniteSetTheorems, TLAPS

\* A worker returns when the total of its phase is reached.
ReturnedInv ==
    \A s \in Sides : \A i \in Workers :
        worker[s][i] = "returned" /\ phase[s] # "finished" => counter[s] >= Total(s)

Inv == TypeOK /\ ReturnedInv /\ CounterBound

-----------------------------------------------------------------------------
LEMMA Products ==
  ASSUME NEW u \in Nat, NEW w \in Nat, NEW c \in Nat
  PROVE  /\ u * w \in Nat
         /\ u * (w + 1) = u * w + u
         /\ w < c => u * w + u <= u * c
         /\ w > 0 => u * (w - 1) = u * w - u
<1>1. u * w \in Nat /\ u * (w + 1) = u * w + u /\ u * (w - 1) = u * w - u
  OBVIOUS
<1>2. ASSUME w < c
      PROVE  u * w + u <= u * c
  <2>1. PICK d \in Nat : c = w + 1 + d
    <3>1. c - (w + 1) \in Nat /\ c = w + 1 + (c - (w + 1))
      BY <1>2
    <3> QED
      BY <3>1
  <2>2. u * d \in Nat /\ u * c = u * w + u + u * d
    BY <2>1
  <2> QED
    BY <2>2
<1> QED
  BY <1>1, <1>2

LEMMA Sums ==
  ASSUME NEW c \in Nat, NEW t \in Nat, NEW p \in Nat, NEW q \in Nat,
         NEW u \in Nat, NEW n \in 0 .. u, c < t
  PROVE  /\ p <= q => c + p < t + q
         /\ p + u <= q => c + n + p < t + q
OBVIOUS

\* Totals and units are positive.
LEMMA TotalType ==
  ASSUME NEW s
  PROVE  Unit(s) \in Nat \ {0} /\ Total(s) \in Nat \ {0}
<1>1. Unit(s) \in Nat \ {0}
  BY ConstantsAssumption DEF Unit
<1>2. ASSUME NEW u \in Nat \ {0}, NEW n \in Nat \ {0}
      PROVE  u * n \in Nat \ {0}
  OBVIOUS
<1> QED
  BY <1>1, <1>2, ConstantsAssumption DEF Total

\* The waiting workers of a side are finitely many, and fewer than the workers
\* while one of them does not wait.
LEMMA WaitingCardinality ==
  ASSUME TypeOK, NEW s \in Sides
  PROVE  /\ IsFiniteSet(Waiting(s))
         /\ Cardinality(Waiting(s)) \in Nat
         /\ \A i \in Workers :
               i \notin Waiting(s) => Cardinality(Waiting(s)) < Concurrency
<1>1. Waiting(s) \in SUBSET Workers
  BY DEF Waiting
<1>2. IsFiniteSet(Workers) /\ Cardinality(Workers) = Concurrency
  BY FS_Interval, ConstantsAssumption DEF Workers
<1>3. /\ IsFiniteSet(Waiting(s))
      /\ Cardinality(Waiting(s)) <= Cardinality(Workers)
      /\ Cardinality(Workers) = Cardinality(Waiting(s)) => Workers = Waiting(s)
  BY <1>1, <1>2, FS_Subset
<1>4. Cardinality(Waiting(s)) \in Nat
  BY <1>3, FS_CardinalityType
<1> QED
  BY <1>1, <1>2, <1>3, <1>4, ConstantsAssumption

\* The side that does not move keeps its bound.
LEMMA OtherSide ==
  ASSUME NEW s \in Sides, UNCHANGED <<test, phase[s], counter[s], worker[s]>>
  PROVE  /\ Waiting(s)' = Waiting(s)
         /\ Unit(s)' = Unit(s)
         /\ Total(s)' = Total(s)
BY DEF Waiting, Total, Unit

-----------------------------------------------------------------------------
LEMMA InitInv == Init => Inv
<1> SUFFICES ASSUME Init
             PROVE  Inv
  OBVIOUS
<1>1. TypeOK /\ ReturnedInv
  BY DEF Init, TypeOK, ReturnedInv
<1>2. \A s \in Sides : Waiting(s) = {}
  BY DEF Init, Waiting
<1>3. CounterBound
  <2> SUFFICES ASSUME NEW s \in Sides
               PROVE  counter[s] + Unit(s) * Cardinality(Waiting(s))
                        < Total(s) + Unit(s) * Concurrency
    BY DEF CounterBound
  <2>1. counter[s] = 0 /\ Cardinality(Waiting(s)) = 0
    BY <1>2, FS_EmptySet DEF Init
  <2>2. Unit(s) * Cardinality(Waiting(s)) = 0 /\ Unit(s) * Concurrency \in Nat
    BY <2>1, TotalType, Products, ConstantsAssumption
  <2> QED
    BY <2>1, <2>2, TotalType
<1> QED
  BY <1>1, <1>3 DEF Inv

\* At the end of a phase the total is reached.
LEMMA PhaseDone ==
  ASSUME TypeOK, ReturnedInv, NEW s \in Sides, next_phase(s)
  PROVE  counter[s] - Total(s) \in Nat
<1>1. 1 \in Workers
  BY ConstantsAssumption DEF Workers
<1>2. counter[s] >= Total(s)
  BY <1>1 DEF next_phase, ReturnedInv
<1> QED
  BY <1>2, TotalType DEF TypeOK

LEMMA TypeStep == TypeOK /\ ReturnedInv /\ [Next]_vars => TypeOK'
<1> SUFFICES ASSUME TypeOK, ReturnedInv, [Next]_vars
             PROVE  TypeOK'
  OBVIOUS
<1> USE DEF TypeOK
<1>1. ASSUME NEW s \in Sides, NEW i \in Workers, create(s, i)
      PROVE  TypeOK'
  BY <1>1 DEF create
<1>2. ASSUME NEW s \in Sides, NEW i \in Workers, io_now(s, i)
      PROVE  TypeOK'
  BY <1>2, TotalType DEF io_now, Sends, Receives
<1>3. ASSUME NEW s \in Sides, NEW i \in Workers, io_pending(s, i)
      PROVE  TypeOK'
  BY <1>3, TotalType DEF io_pending, Sends
<1>4. ASSUME NEW s \in Sides, NEW i \in Workers, io_done(s, i)
      PROVE  TypeOK'
  BY <1>4, TotalType DEF io_done, Receives
<1>5. ASSUME NEW s \in Sides, NEW i \in Workers, return(s, i)
      PROVE  TypeOK'
  BY <1>5 DEF return
<1>6. ASSUME NEW s \in Sides, next_phase(s)
      PROVE  TypeOK'
  <2>1. CASE phase[s] = "warmup"
    <3>1. [i \in Workers |-> "new"]
            \in [Workers -> {"new", "active", "waiting", "returned"}]
      OBVIOUS
    <3>2. worker' \in [Sides -> [Workers -> {"new", "active", "waiting", "returned"}]]
      BY <1>6, <2>1, <3>1 DEF next_phase
    <3>3. extra' \in Nat
      BY <1>6, <2>1, PhaseDone DEF next_phase
    <3>4. /\ phase' = [phase EXCEPT ![s] = "run"]
          /\ counter' = [counter EXCEPT ![s] = 0]
          /\ flight' = flight
          /\ test' = test
      BY <1>6, <2>1 DEF next_phase
    <3>5. /\ phase' \in [Sides -> {"warmup", "run", "finished"}]
          /\ counter' \in [Sides -> Nat]
          /\ flight' \in Nat
          /\ test' \in {"tag", "stream"}
      BY <3>4
    <3> QED
      BY <3>2, <3>3, <3>5
  <2>2. CASE phase[s] # "warmup"
    <3>1. Report(s) \in Nat
      BY ConstantsAssumption DEF Report
    <3> QED
      BY <1>6, <2>2, <3>1 DEF next_phase
  <2> QED
    BY <2>1, <2>2
<1>7. CASE UNCHANGED vars
  BY <1>7 DEF vars
<1> QED
  BY <1>1, <1>2, <1>3, <1>4, <1>5, <1>6, <1>7 DEF Next, SideStep

\* The counter of a phase never falls.
LEMMA ReturnedStep ==
  ASSUME TypeOK, ReturnedInv, NEW s \in Sides, SideStep(s), NEW i \in Workers,
         worker'[s][i] = "returned", phase'[s] # "finished"
  PROVE  counter'[s] >= Total(s)'
<1>1. phase'[s] = phase[s] /\ test' = test
  BY DEF TypeOK, SideStep, create, io_now, io_pending, io_done, return, next_phase
<1>2. Total(s)' = Total(s)
  BY <1>1 DEF Total, Unit
<1>3. worker[s][i] = "returned" \/ counter[s] >= Total(s)
  BY <1>1 DEF TypeOK, SideStep, create, io_now, io_pending, io_done, return, next_phase
<1>4. counter[s] >= Total(s)
  BY <1>1, <1>3 DEF ReturnedInv
<1>5. ASSUME NEW j \in Workers, create(s, j) \/ io_pending(s, j) \/ return(s, j)
      PROVE  counter'[s] = counter[s]
  BY <1>5 DEF create, io_pending, return
<1>6. ASSUME NEW j \in Workers, io_now(s, j) \/ io_done(s, j)
      PROVE  counter'[s] \in Nat /\ counter'[s] >= counter[s]
  BY <1>6, TotalType DEF io_now, io_done, TypeOK
<1>7. ~next_phase(s)
  BY <1>1 DEF next_phase, TypeOK
<1> QED
  BY <1>2, <1>4, <1>5, <1>6, <1>7, TotalType DEF SideStep, TypeOK

\* A step of side s keeps the bound of s.
LEMMA BoundStep ==
  ASSUME Inv, TypeOK', NEW s \in Sides, SideStep(s)
  PROVE  (counter[s] + Unit(s) * Cardinality(Waiting(s))
             < Total(s) + Unit(s) * Concurrency)'
<1> DEFINE W == Cardinality(Waiting(s))
           U == Unit(s)
<1>1. /\ counter[s] \in Nat
      /\ W \in Nat
      /\ U \in Nat \ {0}
      /\ Total(s) \in Nat \ {0}
      /\ Concurrency \in Nat \ {0}
      /\ counter[s] + U * W < Total(s) + U * Concurrency
  BY WaitingCardinality, TotalType, ConstantsAssumption DEF Inv, TypeOK, CounterBound
<1>2. /\ U * W \in Nat
      /\ U * Concurrency \in Nat
      /\ U * (W + 1) = U * W + U
      /\ W < Concurrency => U * W + U <= U * Concurrency
      /\ W > 0 => U * (W - 1) = U * W - U
  BY <1>1, Products
<1>3. Unit(s)' = U
  BY DEF Unit, SideStep, create, io_now, io_pending, io_done, return, next_phase
<1>4. phase'[s] = phase[s] => Total(s)' = Total(s)
  BY <1>3 DEF Total
<1>5. ASSUME NEW i \in Workers, create(s, i) \/ return(s, i)
      PROVE  (counter[s] + Unit(s) * Cardinality(Waiting(s))
                 < Total(s) + Unit(s) * Concurrency)'
  <2>1. counter'[s] = counter[s] /\ Waiting(s)' = Waiting(s) /\ phase'[s] = phase[s]
    BY <1>5 DEF create, return, Waiting, Inv, TypeOK
  <2> QED
    BY <2>1, <1>1, <1>3, <1>4
<1>6. ASSUME NEW i \in Workers, io_now(s, i)
      PROVE  (counter[s] + Unit(s) * Cardinality(Waiting(s))
                 < Total(s) + Unit(s) * Concurrency)'
  <2>1. i \notin Waiting(s)
    BY <1>6 DEF io_now, GoesOn, Waiting
  <2>2. W < Concurrency
    BY <2>1, WaitingCardinality DEF Inv
  <2>3. PICK n \in 1 .. U : counter' = [counter EXCEPT ![s] = @ + n]
    BY <1>6 DEF io_now
  <2>4. counter'[s] = counter[s] + n
    BY <2>3 DEF Inv, TypeOK
  <2>5. counter[s] < Total(s) /\ Waiting(s)' = Waiting(s) /\ phase'[s] = phase[s]
    BY <1>6 DEF io_now, GoesOn, Waiting
  <2>6. counter[s] + n + U * W < Total(s) + U * Concurrency
    <3>1. n \in 0 .. U /\ U \in Nat /\ U * W + U <= U * Concurrency
      BY <2>2, <1>1, <1>2
    <3> QED
      BY <2>5, <3>1, <1>1, <1>2, Sums
  <2> QED
    BY <2>4, <2>5, <2>6, <1>3, <1>4
<1>7. ASSUME NEW i \in Workers, io_pending(s, i)
      PROVE  (counter[s] + Unit(s) * Cardinality(Waiting(s))
                 < Total(s) + Unit(s) * Concurrency)'
  <2>1. i \notin Waiting(s)
    BY <1>7 DEF io_pending, GoesOn, Waiting
  <2>2. W < Concurrency
    BY <2>1, WaitingCardinality DEF Inv
  <2>3. Waiting(s)' = Waiting(s) \cup {i}
    BY <1>7 DEF io_pending, Waiting, Inv, TypeOK
  <2>4. Cardinality(Waiting(s)') = W + 1
    BY <2>1, <2>3, WaitingCardinality, FS_AddElement DEF Inv
  <2>5. counter'[s] = counter[s] /\ counter[s] < Total(s) /\ phase'[s] = phase[s]
    BY <1>7 DEF io_pending, GoesOn
  <2>6. counter[s] + U * (W + 1) < Total(s) + U * Concurrency
    <3>1. /\ U * (W + 1) <= U * Concurrency /\ U * (W + 1) \in Nat
          /\ 0 \in 0 .. 0
      BY <2>2, <1>1, <1>2
    <3> QED
      BY <2>5, <3>1, <1>1, <1>2, Sums
  <2> QED
    BY <2>4, <2>5, <2>6, <1>3, <1>4
<1>8. ASSUME NEW i \in Workers, io_done(s, i)
      PROVE  (counter[s] + Unit(s) * Cardinality(Waiting(s))
                 < Total(s) + Unit(s) * Concurrency)'
  <2>1. i \in Waiting(s)
    BY <1>8 DEF io_done, Waiting
  <2>2. Waiting(s)' = Waiting(s) \ {i}
    BY <1>8 DEF io_done, Waiting, Inv, TypeOK
  <2>3. Cardinality(Waiting(s)') = W - 1 /\ W > 0
    <3>1. Cardinality(Waiting(s)') = W - 1
      BY <2>1, <2>2, WaitingCardinality, FS_RemoveElement DEF Inv
    <3>2. W # 0
      BY <2>1, WaitingCardinality, FS_EmptySet DEF Inv
    <3> QED
      BY <3>1, <3>2, <1>1
  <2>4. PICK n \in 1 .. U : counter' = [counter EXCEPT ![s] = @ + n]
    BY <1>8 DEF io_done
  <2>5. counter'[s] = counter[s] + n /\ phase'[s] = phase[s]
    BY <1>8, <2>4 DEF io_done, Inv, TypeOK
  <2>6. counter[s] + n + U * (W - 1) < Total(s) + U * Concurrency
    BY <2>3, <1>1, <1>2
  <2> QED
    BY <2>3, <2>5, <2>6, <1>3, <1>4
<1>9. ASSUME next_phase(s)
      PROVE  (counter[s] + Unit(s) * Cardinality(Waiting(s))
                 < Total(s) + Unit(s) * Concurrency)'
  <2>1. Waiting(s)' = {}
    BY <1>9 DEF next_phase, Waiting, Inv, TypeOK
  <2>2. Unit(s)' * Cardinality(Waiting(s)') = 0
    BY <2>1, <1>1, <1>3, FS_EmptySet
  <2>3. Total(s)' \in Nat \ {0}
    BY <1>3, TotalType, <1>1, ConstantsAssumption DEF Total
  <2>4. CASE phase[s] = "warmup"
    <3>1. counter'[s] = 0
      BY <1>9, <2>4 DEF next_phase, Inv, TypeOK
    <3>2. 0 < Total(s)' + U * Concurrency
      BY <2>3, <1>2
    <3> QED
      BY <2>2, <3>1, <3>2, <1>3
  <2>5. CASE phase[s] # "warmup"
    <3>1. counter'[s] = Report(s) /\ Total(s)' = Total(s) /\ Total(s) = U * Iterations
      BY <1>9, <1>3, <2>5 DEF next_phase, Inv, TypeOK, Total
    <3>2. CASE Report(s) = counter[s]
      BY <3>1, <3>2, <2>2, <1>1, <1>2, <1>3
    <3>3. CASE Report(s) = Iterations
      <4>1. Iterations <= U * Iterations /\ U * Concurrency > 0
        BY <1>1, ConstantsAssumption
      <4> QED
        BY <3>1, <3>3, <4>1, <2>2, <1>1, <1>2, <1>3, ConstantsAssumption
    <3> QED
      BY <3>2, <3>3 DEF Report
  <2> QED
    BY <2>4, <2>5
<1> QED
  BY <1>5, <1>6, <1>7, <1>8, <1>9 DEF SideStep

\* A step of one side leaves the other side alone.
LEMMA StepFrame ==
  ASSUME TypeOK, NEW s \in Sides, NEW t \in Sides, t # s, SideStep(s)
  PROVE  UNCHANGED <<test, phase[t], counter[t], worker[t]>>
BY DEF TypeOK, SideStep, create, io_now, io_pending, io_done, return, next_phase

LEMMA InvStep == Inv /\ [Next]_vars => Inv'
<1> SUFFICES ASSUME Inv, [Next]_vars
             PROVE  Inv'
  OBVIOUS
<1>1. TypeOK'
  BY TypeStep DEF Inv
<1>2. CASE UNCHANGED vars
  BY <1>1, <1>2 DEF vars, Inv, ReturnedInv, CounterBound, Waiting, Total, Unit
<1>3. ASSUME NEW s \in Sides, SideStep(s)
      PROVE  CounterBound'
  <2> SUFFICES ASSUME NEW t \in Sides
               PROVE  (counter[t] + Unit(t) * Cardinality(Waiting(t))
                         < Total(t) + Unit(t) * Concurrency)'
    BY DEF CounterBound
  <2>1. CASE t = s
    BY <1>1, <1>3, <2>1, BoundStep
  <2>2. CASE t # s
    BY <1>3, <2>2, StepFrame, OtherSide DEF Inv, CounterBound
  <2> QED
    BY <2>1, <2>2
<1>4. ASSUME NEW s \in Sides, SideStep(s)
      PROVE  ReturnedInv'
  <2> SUFFICES ASSUME NEW t \in Sides, NEW i \in Workers,
                      worker'[t][i] = "returned", phase'[t] # "finished"
               PROVE  counter'[t] >= Total(t)'
    BY DEF ReturnedInv
  <2>1. CASE t = s
    BY <1>4, <2>1, ReturnedStep DEF Inv
  <2>2. CASE t # s
    BY <1>4, <2>2, StepFrame, OtherSide DEF Inv, ReturnedInv
  <2> QED
    BY <2>1, <2>2
<1> QED
  BY <1>1, <1>2, <1>3, <1>4 DEF Next, Inv

\* The invariant of the benchmark, from which the bound follows.
THEOREM Invariance == Spec => []Inv
BY InitInv, InvStep, PTL DEF Spec

\* Type correctness (g_counter and the workers of perftest.cc).
THEOREM TypeCorrect == Spec => []TypeOK
BY Invariance, PTL DEF Inv

\* The counter that the workers of one program share overshoots the total of
\* messages or bytes by less than one operation per worker (perftest.cc:109-118,
\* :168-178).
THEOREM CounterBounded == Spec => []CounterBound
BY Invariance, PTL DEF Inv
=============================================================================
