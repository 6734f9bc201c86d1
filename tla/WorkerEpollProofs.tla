-------------------------- MODULE WorkerEpollProofs --------------------------
(***************************************************************************)
(* Proofs, for any number of coroutines, that the readable callback which  *)
(* drives a worker loses no event and is not given up while a coroutine    *)
(* may still need it.                                                      *)
(*                                                                         *)
(* The invariant says where the reference of the callback can be: it       *)
(* exists from register_loop until it finds itself alone with main(); from *)
(* then on no coroutine exists, and none can come into being because only  *)
(* coroutines start others.                                                *)
(***************************************************************************)
EXTENDS WorkerEpoll, FiniteSetTheorems, TLAPS

\* The event fd accounts for pending events: not only between two calls of the
\* callback, also after it has armed the worker.
SignalInv ==
    step \in {"idle", "check"} =>
        IF events # {} THEN signaled ELSE signaled \/ armed

\* The life of the callback, relative to main().
CallbackInv ==
    /\ main = "start" => callback # "dropped" /\ step = "idle"
    /\ main # "start" => callback # "unset"
    /\ callback = "unset" => ~registered
    /\ callback = "set" => (registered <=> step = "idle")
    /\ callback = "dropped" => ~registered /\ step = "idle" /\ Holders = {}
    /\ step # "idle" => callback = "set"

\* Only the thread or a running coroutine executes.
TopInv == top # Thread => pc[top] = "run"

Inv == TypeOK /\ CallbackInv /\ TopInv

-----------------------------------------------------------------------------
\* What the callback and main() learn from the reference count.
LEMMA UseCount ==
  ASSUME TypeOK
  PROVE  /\ ~(use_count > 2) /\ callback = "set" => Holders = {}
         /\ ~(use_count > 1) => callback # "set" /\ Holders = {}
<1>1. Holders \in SUBSET Coros
  BY DEF Holders, TypeOK
<1>2. IsFiniteSet(Holders)
  BY <1>1, FS_Subset, ConstantsAssumption
<1>3. /\ Cardinality(Holders) \in Nat
      /\ Cardinality(Holders) = 0 <=> Holders = {}
  BY <1>2, FS_CardinalityType, FS_EmptySet
<1>4. CASE callback = "set"
  BY <1>3, <1>4 DEF use_count
<1>5. CASE callback # "set"
  BY <1>3, <1>5 DEF use_count
<1> QED
  BY <1>4, <1>5

-----------------------------------------------------------------------------
LEMMA InitInv == Init => Inv
BY ConstantsAssumption
   DEF Init, Inv, TypeOK, CallbackInv, TopInv, Holders

LEMMA TypeStep == Inv /\ [Next]_vars => TypeOK'
<1> SUFFICES ASSUME Inv, [Next]_vars
             PROVE  TypeOK'
  OBVIOUS
<1> USE DEF Inv, TypeOK
<1>1. ASSUME NEW c \in Coros, start(c)
      PROVE  TypeOK'
  BY <1>1 DEF start, begin, workerVars, loopVars
<1>2. ASSUME NEW c \in Coros, NEW b \in Coros, spawn(b, c)
      PROVE  TypeOK'
  BY <1>2 DEF spawn, begin, workerVars, loopVars
<1>3. ASSUME NEW c \in Coros, await(c) \/ finish(c)
      PROVE  TypeOK'
  BY <1>3 DEF await, finish, workerVars, loopVars
<1>4. ASSUME NEW c \in Coros, progress(c) \/ poll_tcp(c)
      PROVE  TypeOK'
  BY <1>4 DEF progress, poll_tcp, workerVars, loopVars
<1>5. ASSUME NEW c \in Coros, arrive(c)
      PROVE  TypeOK'
  BY <1>5 DEF arrive, coroVars, loopVars
<1>6. CASE no_progress \/ arm
  BY <1>6 DEF no_progress, arm, Busy, Arms, coroVars, workerVars
<1>7. CASE check
  BY <1>7 DEF check, InUse, NoOp, coroVars, workerVars
<1>8. CASE register_loop \/ enter_loop \/ poll_worker \/ end
  BY <1>8 DEF register_loop, enter_loop, poll_worker, end, coroVars,
              workerVars, loopVars
<1>9. CASE UNCHANGED vars
  BY <1>9 DEF vars, coroVars, workerVars, loopVars
<1> QED
  BY <1>1, <1>2, <1>3, <1>4, <1>5, <1>6, <1>7, <1>8, <1>9
     DEF Next, CoroStep, Callback

LEMMA TopStep == Inv /\ [Next]_vars => TopInv'
<1> SUFFICES ASSUME Inv, [Next]_vars
             PROVE  TopInv'
  OBVIOUS
<1> USE ConstantsAssumption DEF Inv, TypeOK, TopInv
<1>1. ASSUME NEW c \in Coros, start(c) \/ \E b \in Coros : spawn(b, c)
      PROVE  TopInv'
  BY <1>1 DEF start, spawn, begin
<1>2. ASSUME NEW c \in Coros, await(c) \/ finish(c)
      PROVE  TopInv'
  BY <1>2 DEF await, finish
<1>3. ASSUME NEW c \in Coros, progress(c) \/ poll_tcp(c)
      PROVE  TopInv'
  BY <1>3 DEF progress, poll_tcp
<1>4. ASSUME UNCHANGED coroVars
      PROVE  TopInv'
  BY <1>4 DEF coroVars
<1>5. ASSUME \/ \E c \in Coros : arrive(c)
             \/ Callback \/ register_loop \/ enter_loop \/ poll_worker \/ end
             \/ UNCHANGED vars
      PROVE  UNCHANGED coroVars
  BY <1>5 DEF arrive, Callback, no_progress, arm, Busy, Arms, check, InUse, NoOp, register_loop,
              enter_loop, poll_worker, end, vars
<1> QED
  BY <1>1, <1>2, <1>3, <1>4, <1>5 DEF Next, CoroStep

LEMMA CallbackStep == Inv /\ [Next]_vars => CallbackInv'
<1> SUFFICES ASSUME Inv, [Next]_vars
             PROVE  CallbackInv'
  OBVIOUS
<1> USE DEF Inv, CallbackInv
<1>1. ASSUME NEW c \in Coros, start(c)
      PROVE  CallbackInv'
  BY <1>1 DEF start, loopVars
<1>2. ASSUME NEW c \in Coros, NEW b \in Coros, spawn(b, c)
      PROVE  CallbackInv'
  <2>1. b \in Holders
    BY <1>2, ConstantsAssumption DEF spawn, TopInv, Holders
  <2> QED
    BY <1>2, <2>1 DEF spawn, loopVars
<1>3. ASSUME NEW c \in Coros, await(c) \/ finish(c)
      PROVE  CallbackInv'
  <2>1. c \in Holders
    BY <1>3, ConstantsAssumption DEF await, finish, TopInv, Holders
  <2>2. UNCHANGED <<main, loopVars>>
    BY <1>3 DEF await, finish
  <2> QED
    BY <2>1, <2>2 DEF loopVars
<1>4. ASSUME NEW c \in Coros, progress(c) \/ poll_tcp(c)
      PROVE  CallbackInv'
  <2>1. callback # "dropped"
    BY <1>4 DEF progress, poll_tcp, Holders
  <2>2. UNCHANGED <<main, loopVars>>
    BY <1>4 DEF progress, poll_tcp
  <2> QED
    BY <2>1, <2>2 DEF loopVars
<1>5. ASSUME NEW c \in Coros, arrive(c)
      PROVE  CallbackInv'
  BY <1>5 DEF arrive, coroVars, loopVars, Holders
<1>6. CASE no_progress \/ arm
  BY <1>6 DEF no_progress, arm, Busy, Arms, coroVars, Holders
<1>7. CASE check
  <2>1. callback = "set" /\ ~registered /\ main # "start"
    BY <1>7 DEF check, InUse, NoOp
  <2>2. Holders' = Holders
    BY <1>7 DEF check, InUse, NoOp, coroVars, Holders
  <2>3. CASE use_count > 2
    BY <1>7, <2>1, <2>2, <2>3 DEF check, InUse, NoOp
  <2>4. CASE ~(use_count > 2)
    BY <1>7, <2>1, <2>2, <2>4, UseCount DEF check, InUse, NoOp
  <2> QED
    BY <2>3, <2>4
<1>8. CASE register_loop \/ enter_loop
  BY <1>8 DEF register_loop, enter_loop, coroVars, loopVars, Holders
<1>9. CASE poll_worker
  <2>1. callback = "set"
    BY <1>9 DEF poll_worker, TypeOK
  <2>2. callback' = callback /\ main' = main /\ main # "start"
    BY <1>9 DEF poll_worker, Polls
  <2> QED
    BY <1>9, <2>1, <2>2 DEF poll_worker
<1>10. CASE end
  BY <1>10 DEF end, coroVars, loopVars, Holders
<1>11. CASE UNCHANGED vars
  BY <1>11 DEF vars, coroVars, loopVars, Holders
<1> QED
  BY <1>1, <1>2, <1>3, <1>4, <1>5, <1>6, <1>7, <1>8, <1>9, <1>10, <1>11
     DEF Next, CoroStep, Callback

LEMMA InvStep == Inv /\ [Next]_vars => Inv'
BY TypeStep, TopStep, CallbackStep DEF Inv

\* An event, the callback's steps and the steps of coroutines keep the account;
\* arm() restores it.
LEMMA SignalStep == Inv /\ SignalInv /\ [Next]_vars => SignalInv'
<1> SUFFICES ASSUME Inv, SignalInv, [Next]_vars
             PROVE  SignalInv'
  OBVIOUS
<1> USE DEF SignalInv
<1>1. ASSUME UNCHANGED <<workerVars, step>>
      PROVE  SignalInv'
  BY <1>1 DEF workerVars
<1>2. ASSUME NEW c \in Coros, start(c) \/ (\E b \in Coros : spawn(b, c))
                                \/ await(c) \/ finish(c) \/ poll_tcp(c)
      PROVE  UNCHANGED <<workerVars, step>>
  BY <1>2 DEF start, spawn, await, finish, poll_tcp, loopVars
<1>3. ASSUME NEW c \in Coros, progress(c)
      PROVE  SignalInv'
  BY <1>3 DEF progress, loopVars
<1>4. ASSUME NEW c \in Coros, arrive(c)
      PROVE  SignalInv'
  BY <1>4 DEF arrive, loopVars
<1>5. CASE no_progress
  BY <1>5 DEF no_progress
<1>6. CASE arm
  BY <1>6 DEF arm, Busy, Arms
<1>7. CASE check
  BY <1>7 DEF check, InUse, NoOp, workerVars
<1>8. CASE poll_worker
  BY <1>8 DEF poll_worker
<1>9. ASSUME register_loop \/ enter_loop \/ end \/ UNCHANGED vars
      PROVE  UNCHANGED <<workerVars, step>>
  BY <1>9 DEF register_loop, enter_loop, end, loopVars, vars
<1> QED
  BY <1>1, <1>2, <1>3, <1>4, <1>5, <1>6, <1>7, <1>8, <1>9
     DEF Next, CoroStep, Callback

-----------------------------------------------------------------------------
\* The invariant of the callback's life, from which the next two follow.
THEOREM Invariance == Spec => []Inv
BY InitInv, InvStep, PTL DEF Spec

\* Type correctness of the worker, the callback and the coroutines
\* (worker_epoll.cc, helloworld.cc main()).
THEOREM TypeCorrect == Spec => []TypeOK
BY Invariance, PTL DEF Inv

\* register_loop's callback exists and the event loop watches the event fd
\* while any coroutine holds a reference to the worker (worker_epoll.cc:16-23).
THEOREM CallbackOutlivesCoroutines == Spec => []WorkerIsDriven
<1>1. Inv => WorkerIsDriven
  BY DEF Inv, TypeOK, CallbackInv, WorkerIsDriven
<1> QED
  BY <1>1, Invariance, PTL

\* No event of the worker is lost between progress and arm
\* (worker_epoll.cc:12-15), if UCX signals the first event of a worker that was
\* never armed.
THEOREM SignalsAreKept == FreshSignals /\ Spec => []NoLostSignal
<1>1. FreshSignals /\ Init => SignalInv
  BY DEF Init, SignalInv
<1>2. SignalInv => NoLostSignal
  BY DEF SignalInv, NoLostSignal
<1>3. ASSUME FreshSignals
      PROVE  Spec => []NoLostSignal
  BY <1>1, <1>2, <1>3, SignalStep, Invariance, PTL DEF Spec
<1> QED
  BY <1>3
=============================================================================
