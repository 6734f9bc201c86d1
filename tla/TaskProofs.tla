----------------------------- MODULE TaskProofs -----------------------------
(***************************************************************************)
(* Proofs, for any set of coroutine frames, that no wake-up of a coroutine *)
(* is lost or goes astray, that no frame is used after it was destroyed,   *)
(* and that finished frames are destroyed unless detach() came too late.   *)
(***************************************************************************)
EXTENDS Task, TLAPS

Executing(f) == st[f] \in {"running", "resumed"}

\* The call stack: from top through caller to Main, without branches.
StackInv ==
    /\ top \in Frames => Executing(top)
    /\ \A f \in Frames : st[f] = "resumed" => top = f
    /\ \A f \in Frames : Executing(f) =>
          /\ caller[f] \in Scopes
          /\ caller[f] # top
          /\ caller[f] # Main => st[caller[f]] = "running"
    /\ \A f, g \in Frames :
          Executing(f) /\ Executing(g) /\ caller[f] = caller[g] => f = g

\* A coroutine that waits for a task has that task.
AwaitsInv ==
    \A f \in Frames : st[f] \in {"awaiting", "resumed"} =>
        awaits[f] \in Frames /\ Has(f, awaits[f])

\* Every unfinished frame has a task object, or will destroy itself.
OwnerInv ==
    /\ \A f \in Frames : st[f] = "unborn" =>
          owner[f] = nullptr /\ continuation[f] = nullptr
    /\ \A f \in Frames : Unfinished(f) => owner[f] # nullptr \/ detached[f]
    /\ \A f \in Frames : detached[f] => release[f]
    /\ waiting = nullptr => \A f \in Frames : release[f] => detached[f]
    /\ \A f \in Frames : st[f] = "done" => future[f] # "empty"
    /\ waiting # nullptr => \A f \in Frames : st[f] # "resumed"

Parts == StackInv /\ AwaitsInv /\ OwnerInv
Claims == WakeUpsMatch /\ NoDanglingFrame /\ NoLeak
Inv == TypeOK /\ Parts /\ Claims

-----------------------------------------------------------------------------
LEMMA InitInv == Init => Inv
BY ConstantsAssumption
   DEF Init, Inv, Parts, Claims, TypeOK, States, Scopes, Executing, Unfinished,
       StackInv, AwaitsInv, OwnerInv, WakeUpsMatch, NoDanglingFrame, NoLeak

LEMMA CallStep ==
  ASSUME Inv, NEW p \in Scopes, NEW g \in Frames, call(p, g)
  PROVE  Inv'
<1> USE ConstantsAssumption DEF Inv, Parts, Claims, TypeOK, call, Executes, taskVars,
        promiseVars, Scopes, Executing, Unfinished
<1>1. TypeOK'
  BY DEF States
<1>2. StackInv'
  BY DEF StackInv
<1>3. AwaitsInv'
  BY DEF AwaitsInv, Has, OwnerInv
<1>4. OwnerInv'
  BY DEF OwnerInv
<1>5. WakeUpsMatch'
  BY DEF WakeUpsMatch, OwnerInv
<1>6. NoDanglingFrame'
  BY DEF NoDanglingFrame, AwaitsInv, OwnerInv, StackInv
<1>7. NoLeak'
  BY DEF NoLeak, OwnerInv
<1> QED
  BY <1>1, <1>2, <1>3, <1>4, <1>5, <1>6, <1>7

LEMMA SuspendStep ==
  ASSUME Inv, NEW f \in Frames, suspend(f) \/ resume(f)
  PROVE  Inv'
<1> USE ConstantsAssumption DEF Inv, Parts, Claims, TypeOK, suspend, resume, Executes,
        taskVars, promiseVars, Scopes, Executing, Unfinished
<1>1. TypeOK'
  BY DEF States, StackInv
<1>2. StackInv'
  BY DEF StackInv
<1>3. AwaitsInv'
  BY DEF AwaitsInv, Has
<1>4. OwnerInv'
  BY DEF OwnerInv
<1>5. WakeUpsMatch'
  BY DEF WakeUpsMatch
<1>6. NoDanglingFrame'
  BY DEF NoDanglingFrame, StackInv
<1>7. NoLeak'
  BY DEF NoLeak
<1> QED
  BY <1>1, <1>2, <1>3, <1>4, <1>5, <1>6, <1>7

LEMMA AwaitDoneStep ==
  ASSUME Inv, NEW p \in Scopes, NEW g \in Frames, co_await_done(p, g)
  PROVE  Inv'
<1> USE ConstantsAssumption DEF Inv, Parts, Claims, TypeOK, co_await_done, await_ready,
        get, Executes, taskVars, stackVars, Scopes, Executing, Unfinished
<1>1. TypeOK'
  BY DEF States, OwnerInv
<1>2. StackInv' /\ AwaitsInv' /\ OwnerInv'
  BY DEF StackInv, AwaitsInv, OwnerInv, Has
<1>3. WakeUpsMatch' /\ NoLeak'
  BY DEF WakeUpsMatch, NoLeak
<1>4. NoDanglingFrame'
  BY DEF NoDanglingFrame, StackInv
<1> QED
  BY <1>1, <1>2, <1>3, <1>4

LEMMA AwaitStep ==
  ASSUME Inv, NEW p \in Frames, NEW g \in Frames, co_await(p, g)
  PROVE  Inv'
<1> USE ConstantsAssumption DEF Inv, Parts, Claims, TypeOK, co_await, await_ready,
        Executes, taskVars, Scopes, Executing, Unfinished, Has
<1>1. TypeOK'
  BY DEF States, StackInv
<1>2. StackInv'
  BY DEF StackInv
<1>3. AwaitsInv'
  BY DEF AwaitsInv
<1>4. Unfinished(g)
  BY DEF NoDanglingFrame, States
<1>5. continuation[g] = nullptr
  BY <1>4 DEF WakeUpsMatch, AwaitsInv
<1>6. OwnerInv'
  BY <1>4 DEF OwnerInv
<1>7. WakeUpsMatch'
  BY <1>4, <1>5 DEF WakeUpsMatch
<1>8. NoDanglingFrame'
  BY DEF NoDanglingFrame, StackInv
<1>9. NoLeak'
  BY DEF NoLeak
<1> QED
  BY <1>1, <1>2, <1>3, <1>6, <1>7, <1>8, <1>9

LEMMA AwaitResumeStep ==
  ASSUME Inv, NEW p \in Frames, await_resume(p)
  PROVE  Inv'
<1> USE ConstantsAssumption DEF Inv, Parts, Claims, TypeOK, await_resume, get,
        taskVars, stackVars, Scopes, Executing, Unfinished, Has
<1>1. awaits[p] \in Frames /\ future[awaits[p]] \in {"value", "exception"}
  BY DEF AwaitsInv, NoDanglingFrame
<1>2. TypeOK'
  BY <1>1 DEF States
<1>3. StackInv'
  BY DEF StackInv
<1>4. AwaitsInv'
  BY DEF AwaitsInv, StackInv
<1>5. OwnerInv'
  BY <1>1 DEF OwnerInv
<1>6. WakeUpsMatch'
  BY DEF WakeUpsMatch
<1>7. NoDanglingFrame'
  BY <1>1 DEF NoDanglingFrame, StackInv
<1>8. NoLeak'
  BY DEF NoLeak
<1> QED
  BY <1>2, <1>3, <1>4, <1>5, <1>6, <1>7, <1>8

LEMMA FinishStep ==
  ASSUME Inv, NEW f \in Frames, finish(f)
  PROVE  Inv'
<1> USE ConstantsAssumption DEF Inv, Parts, Claims, TypeOK, finish, final_suspend,
        Executes, taskVars, Scopes, Executing, Unfinished, Has, Continues, Left
<1>1. CASE continuation[f] # nullptr
  <2> DEFINE p == continuation[f]
  <2>1. p \in Frames /\ st[p] = "awaiting" /\ awaits[p] = f /\ p # f
    BY <1>1 DEF WakeUpsMatch
  <2>2. /\ st' = [st EXCEPT ![f] = "done", ![p] = "resumed"]
        /\ top' = p
        /\ caller' = [caller EXCEPT ![p] = caller[f]]
    BY <1>1, <2>1 DEF Resumed
  <2>3. TypeOK'
    BY <2>1, <2>2 DEF States, StackInv
  <2>4. StackInv'
    BY <2>1, <2>2 DEF StackInv
  <2>5. AwaitsInv'
    BY <2>1, <2>2 DEF AwaitsInv
  <2>6. OwnerInv'
    BY <2>1, <2>2 DEF OwnerInv
  <2>7. WakeUpsMatch'
    BY <2>1, <2>2 DEF WakeUpsMatch
  <2>8. NoDanglingFrame'
    BY <2>1, <2>2 DEF NoDanglingFrame, StackInv
  <2>9. NoLeak'
    BY <2>1, <2>2 DEF NoLeak, AwaitsInv
  <2> QED
    BY <2>3, <2>4, <2>5, <2>6, <2>7, <2>8, <2>9
<1>2. CASE continuation[f] = nullptr
  <2>1. /\ st' = [st EXCEPT ![f] = IF release[f] THEN "destroyed" ELSE "done"]
        /\ top' = caller[f]
        /\ caller' = caller
    BY <1>2
  <2>2. TypeOK'
    BY <2>1 DEF States, StackInv
  <2>3. StackInv'
    BY <2>1 DEF StackInv
  <2>4. \A q \in Frames : st[q] \in {"awaiting", "resumed"} => awaits[q] # f
    BY <1>2 DEF WakeUpsMatch, StackInv
  <2>5. AwaitsInv'
    BY <2>1 DEF AwaitsInv
  <2>6. OwnerInv'
    BY <2>1 DEF OwnerInv
  <2>7. WakeUpsMatch'
    BY <1>2, <2>1 DEF WakeUpsMatch
  <2>8. NoDanglingFrame'
    BY <2>1, <2>4 DEF NoDanglingFrame, StackInv, OwnerInv
  <2>9. NoLeak'
    BY <2>1 DEF NoLeak, OwnerInv
  <2> QED
    BY <2>2, <2>3, <2>5, <2>6, <2>7, <2>8, <2>9
<1> QED
  BY <1>1, <1>2

LEMMA DropStep ==
  ASSUME Inv, NEW p \in Scopes, NEW g \in Frames,
         detach(p, g) \/ drop_detached(p, g) \/ drop_done(p, g) \/ drop_unfinished(p, g)
  PROVE  Inv'
<1> USE ConstantsAssumption DEF Inv, Parts, Claims, TypeOK, promiseVars, stackVars,
        taskVars, Executes, Scopes, Executing, Unfinished, Has
<1>1. \A q \in Frames : st[q] # "resumed" /\ (st[q] = "awaiting" => q # p)
  BY DEF detach, drop_detached, drop_done, drop_unfinished, StackInv
<1>2. CASE detach(p, g)
  BY <1>1, <1>2 DEF detach, States, StackInv, AwaitsInv, OwnerInv, WakeUpsMatch,
     NoDanglingFrame, NoLeak
<1>3. CASE drop_detached(p, g)
  BY <1>1, <1>3 DEF drop_detached, States, StackInv, AwaitsInv, OwnerInv, WakeUpsMatch,
     NoDanglingFrame, NoLeak
<1>4. CASE drop_done(p, g)
  <2>1. /\ st' = [st EXCEPT ![g] = "destroyed"] /\ st[g] = "done"
        /\ owner' = [owner EXCEPT ![g] = nullptr]
        /\ UNCHANGED <<promiseVars, detached, awaits, stackVars, waiting,
                       suspensions, late>>
    BY <1>4 DEF drop_done, Destroyed
  <2>2. owner[g] = p
    BY <1>4 DEF drop_done
  <2>3. TypeOK' /\ StackInv'
    BY <2>1 DEF States, StackInv
  <2>4. AwaitsInv' /\ OwnerInv'
    BY <1>1, <2>1, <2>2 DEF AwaitsInv, OwnerInv
  <2>5. WakeUpsMatch' /\ NoLeak'
    BY <2>1 DEF WakeUpsMatch, NoLeak
  <2>6. NoDanglingFrame'
    BY <1>1, <2>1 DEF NoDanglingFrame
  <2> QED
    BY <2>3, <2>4, <2>5, <2>6
<1>5. CASE drop_unfinished(p, g)
  BY <1>1, <1>5 DEF drop_unfinished, States, StackInv, AwaitsInv, OwnerInv, WakeUpsMatch,
     NoDanglingFrame, NoLeak
<1> QED
  BY <1>2, <1>3, <1>4, <1>5

LEMMA InvStep == Inv /\ [Next]_vars => Inv'
<1> SUFFICES ASSUME Inv, [Next]_vars
             PROVE  Inv'
  OBVIOUS
<1>1. CASE UNCHANGED vars
  BY <1>1 DEF vars, promiseVars, taskVars, stackVars, Inv, Parts, Claims, TypeOK,
     StackInv, AwaitsInv, OwnerInv, WakeUpsMatch, NoDanglingFrame, NoLeak, Executing,
     Unfinished, Has
<1>2. ASSUME NEW p \in Scopes, NEW g \in Frames, TaskStep(p, g)
      PROVE  Inv'
  BY <1>2, CallStep, AwaitDoneStep, AwaitStep, DropStep DEF TaskStep
<1>3. ASSUME NEW f \in Frames, FrameStep(f)
      PROVE  Inv'
  BY <1>3, SuspendStep, AwaitResumeStep, FinishStep DEF FrameStep
<1> QED
  BY <1>1, <1>2, <1>3 DEF Next

-----------------------------------------------------------------------------
\* The inductive invariant: call stack, ownership and waits.
THEOREM Invariance == Spec => []Inv
BY InitInv, InvStep, PTL DEF Spec

\* Type correctness of frames and task objects (task.h).
THEOREM TypeCorrect == Spec => []TypeOK
BY Invariance, PTL DEF Inv

\* final_suspend (task.h:35) finds the coroutine that waits, and no other.
THEOREM WakeUpsAreKept == Spec => []WakeUpsMatch
<1>1. Inv => WakeUpsMatch
  BY DEF Inv, Claims
<1> QED
  BY <1>1, Invariance, PTL

\* Nobody uses, resumes or destroys a frame that is gone or executes
\* (task.h:36, :39, :90).
THEOREM FramesDoNotDangle == Spec => []NoDanglingFrame
<1>1. Inv => NoDanglingFrame
  BY DEF Inv, Claims
<1> QED
  BY <1>1, Invariance, PTL

\* A finished frame is destroyed by itself or by a task object that still
\* exists (task.h:39, :90), unless it was detached after it had finished.
THEOREM FramesDoNotLeak == Spec => []NoLeak
<1>1. Inv => NoLeak
  BY DEF Inv, Claims
<1> QED
  BY <1>1, Invariance, PTL
=============================================================================
