------------------------- MODULE AwaitableProofs -------------------------
(***************************************************************************)
(* Proofs about Awaitable, for any number of coroutines and requests: the  *)
(* types, the invariants of the run Awaitable.cfg, and that the awaitables *)
(* implement Operation.                                                    *)
(***************************************************************************)
EXTENDS Awaitable, TLAPS

(***************************************************************************)
(* The inductive invariant.                                                *)
(***************************************************************************)
Waiting(c) == pc[c] \in {"ready", "suspended"}

\* A request's user_data is a waiting coroutine's awaitable ...
UsersWait == \A r \in Requests : user[r] # nullptr => Waiting(user[r])

\* ... no two requests have the same one ...
UsersDiffer ==
    \A r, q \in Requests : user[r] = user[q] /\ user[r] # nullptr => r = q

\* ... and every waiting coroutine is some request's.
WaitersAreUsers ==
    \A c \in Coros :
        Waiting(c) => status[c] = "INPROGRESS" /\ \E r \in Requests : user[r] = c

\* Where request_ means something, it is nullptr or the pending request.
RequestIsOwn ==
    \A c \in Coros :
        /\ request[c] # nullptr
        /\ \/ kind[c] \in {"stream", "tag"} /\ Waiting(c)
           \/ kind[c] = "tag" /\ pc[c] = "built"
        => user[request[c]] = c

\* Control: who is between two of the awaitable's members is running.
Control ==
    \A c \in Coros :
        /\ pc[c] # "wild"
        /\ pc[c] = "suspended" => h[c]
        /\ pc[c] \in {"ready", "resumed"} => top = c

\* A coroutine inside cancel() is in its user code, and the awaitable it
\* cancels is an existing tag receive.
InCancel ==
    \A c \in Coros :
        inCancel[c] # nullptr =>
            /\ pc[c] \in {"idle", "built"}
            /\ kind[inCancel[c]] = "tag"
            /\ pc[inCancel[c]] \in {"built", "ready", "suspended", "resumed"}

\* Only pending requests are marked, and an operation that has settled shows
\* in status_ what UCX reported.
Settled ==
    /\ \A r \in canceled : user[r] # nullptr
    /\ \A c \in Coros : pc[c] = "resumed" =>
          status[c] = outcome[c] /\ outcome[c] \in {"OK", "ERR", "CANCELED"}

Inv ==
    /\ TypeOK
    /\ UsersWait
    /\ UsersDiffer
    /\ WaitersAreUsers
    /\ RequestIsOwn
    /\ Control
    /\ InCancel
    /\ Settled

-----------------------------------------------------------------------------
LEMMA InitInv == Init => Inv
BY ConstantsAssumption DEF Init, Inv, TypeOK, UsersWait, UsersDiffer,
   WaitersAreUsers, RequestIsOwn, Control, InCancel, Settled, Waiting,
   PcStates, Kinds, Statuses

(***************************************************************************)
(* Types: every action assigns values of the declared sets.                *)
(***************************************************************************)
LEMMA TypeStep == TypeOK /\ [Next]_vars => TypeOK'
<1> SUFFICES ASSUME TypeOK, [Next]_vars
             PROVE  TypeOK'
  OBVIOUS
<1> USE ConstantsAssumption DEF TypeOK, PcStates, Kinds, Statuses, Completions,
        RunsUserCode, frameVars, objectVars, ucxVars, ghostVars
<1>1. ASSUME NEW c \in Coros, Start(c)
      PROVE  TypeOK'
  BY <1>1 DEF Start
<1>2. ASSUME NEW c \in Coros, NEW k \in Kinds, construct(c, k)
      PROVE  TypeOK'
  BY <1>2 DEF construct
<1>3. ASSUME NEW c \in Coros, destroy(c)
      PROVE  TypeOK'
  BY <1>3 DEF destroy
<1>4. ASSUME NEW c \in Coros, Finish(c)
      PROVE  TypeOK'
  BY <1>4 DEF Finish
<1>5. ASSUME NEW c \in Coros, await_ready_now(c)
      PROVE  TypeOK'
  BY <1>5 DEF await_ready_now
<1>6. ASSUME NEW c \in Coros, await_ready_pending(c)
      PROVE  TypeOK'
  BY <1>6 DEF await_ready_pending
<1>7. ASSUME NEW c \in Coros, await_suspend(c)
      PROVE  TypeOK'
  BY <1>7 DEF await_suspend, Stores
<1>8. ASSUME NEW c \in Coros, await_resume(c)
      PROVE  TypeOK'
  BY <1>8 DEF await_resume, Forgets, check_ucs_status
<1>9. ASSUME NEW c \in Coros, cancel_return(c)
      PROVE  TypeOK'
  BY <1>9 DEF cancel_return
<1>10. ASSUME NEW c \in Coros, NEW d \in Coros, cancel_deferred(c, d)
      PROVE  TypeOK'
  BY <1>10 DEF cancel_deferred, Asks, Marks, Forgets
<1>11. ASSUME NEW c \in Coros, NEW d \in Coros, cancel_inline(c, d)
      PROVE  TypeOK'
  BY <1>11 DEF cancel_inline, Complete, Records, Resumes
<1>12. ASSUME NEW r \in Requests, NEW k \in Kinds, Progress(r, k)
      PROVE  TypeOK'
  BY <1>12 DEF Progress, Complete, Records, Resumes
<1>13. CASE UNCHANGED vars
  BY <1>13 DEF vars
<1> QED
  BY <1>1, <1>2, <1>3, <1>4, <1>5, <1>6, <1>7, <1>8, <1>9, <1>10, <1>11,
     <1>12, <1>13
     DEF Next, CoroStep, Callback, send_cb, stream_recv_cb, tag_recv_cb

(***************************************************************************)
(* A completion of a request moves exactly its user from suspended to      *)
(* resumed.  The facts every step that calls Complete needs.               *)
(***************************************************************************)
LEMMA CompleteOwner ==
  ASSUME Inv, NEW r \in Requests, user[r] # nullptr, top # user[r]
  PROVE  /\ user[r] \in Coros
         /\ pc[user[r]] = "suspended"
         /\ h[user[r]] = TRUE
         /\ \A q \in Requests : user[q] = user[r] => q = r
BY DEF Inv, TypeOK, UsersWait, Waiting, UsersDiffer, Control

(***************************************************************************)
(* The inductive step.  The awaitable's members disturb few conjuncts; the *)
(* three actions at which requests change hands are split by conjunct.     *)
(***************************************************************************)
LEMMA InvStep == Inv /\ [Next]_vars => Inv'
<1> SUFFICES ASSUME Inv, [Next]_vars
             PROVE  Inv'
  OBVIOUS
<1>0. TypeOK'
  BY TypeStep DEF Inv
<1> USE ConstantsAssumption, <1>0 DEF Inv, TypeOK, Waiting, Completions,
        RunsUserCode, frameVars, objectVars, ucxVars, ghostVars
<1>1. ASSUME NEW c \in Coros, Start(c)
      PROVE  Inv'
  BY <1>1 DEF Start, UsersWait, UsersDiffer, WaitersAreUsers,
        RequestIsOwn, Control, InCancel, Settled
<1>2. ASSUME NEW c \in Coros, NEW k \in Kinds, construct(c, k)
      PROVE  Inv'
  BY <1>2 DEF construct, UsersWait, UsersDiffer, WaitersAreUsers,
        RequestIsOwn, Control, InCancel, Settled
<1>3. ASSUME NEW c \in Coros, destroy(c)
      PROVE  Inv'
  BY <1>3 DEF destroy, UsersWait, UsersDiffer, WaitersAreUsers,
        RequestIsOwn, Control, InCancel, Settled
<1>4. ASSUME NEW c \in Coros, Finish(c)
      PROVE  Inv'
  BY <1>4 DEF Finish, UsersWait, UsersDiffer, WaitersAreUsers,
        RequestIsOwn, Control, InCancel, Settled
<1>5. ASSUME NEW c \in Coros, await_ready_now(c)
      PROVE  Inv'
  BY <1>5 DEF await_ready_now, UsersWait, UsersDiffer, WaitersAreUsers,
        RequestIsOwn, Control, InCancel, Settled
<1>6. ASSUME NEW c \in Coros, await_ready_pending(c)
      PROVE  Inv'
  <2>1. UsersWait'
    BY <1>6 DEF await_ready_pending, UsersWait, UsersDiffer, Control
  <2>2. UsersDiffer'
    BY <1>6 DEF await_ready_pending, UsersDiffer, UsersWait
  <2>3. WaitersAreUsers'
    BY <1>6 DEF await_ready_pending, WaitersAreUsers, UsersDiffer, UsersWait, Control
  <2>4. RequestIsOwn'
    BY <1>6 DEF await_ready_pending, RequestIsOwn, UsersWait, Control
  <2>5. Control'
    BY <1>6 DEF await_ready_pending, Control, UsersWait, InCancel
  <2>6. InCancel'
    BY <1>6 DEF await_ready_pending, InCancel, Control, UsersWait
  <2>7. Settled'
    BY <1>6 DEF await_ready_pending, Settled, Control, UsersWait
  <2> QED
    BY <2>1, <2>2, <2>3, <2>4, <2>5, <2>6, <2>7
<1>7. ASSUME NEW c \in Coros, await_suspend(c)
      PROVE  Inv'
  BY <1>7 DEF await_suspend, Stores, UsersWait, UsersDiffer, WaitersAreUsers,
        RequestIsOwn, Control, InCancel, Settled
<1>8. ASSUME NEW c \in Coros, await_resume(c)
      PROVE  Inv'
  BY <1>8 DEF await_resume, Forgets, check_ucs_status, UsersWait, UsersDiffer, WaitersAreUsers,
        RequestIsOwn, Control, InCancel, Settled
<1>9. ASSUME NEW c \in Coros, cancel_return(c)
      PROVE  Inv'
  BY <1>9 DEF cancel_return, UsersWait, UsersDiffer, WaitersAreUsers,
        RequestIsOwn, Control, InCancel, Settled
<1>10. ASSUME NEW c \in Coros, NEW d \in Coros, cancel_deferred(c, d)
      PROVE  Inv'
  BY <1>10 DEF cancel_deferred, Asks, Marks, Forgets, Cancelable, UsersWait, UsersDiffer,
     WaitersAreUsers,
        RequestIsOwn, Control, InCancel, Settled
<1>11. ASSUME NEW c \in Coros, NEW d \in Coros, cancel_inline(c, d)
      PROVE  Inv'
  <2>0. /\ request[d] \in Requests /\ user[request[d]] \in Coros
        /\ pc[user[request[d]]] = "suspended" /\ h[user[request[d]]] = TRUE
        /\ \A q \in Requests : user[q] = user[request[d]] => q = request[d]
    <3>1. request[d] \in Requests /\ user[request[d]] # nullptr /\ top # user[request[d]]
      BY <1>11 DEF cancel_inline, UsersWait
    <3> QED
      BY <3>1, CompleteOwner
  <2>1. UsersWait'
    BY <1>11, <2>0 DEF cancel_inline, Cancelable, Complete, Records, Resumes, UsersWait,
       UsersDiffer, Control
  <2>2. UsersDiffer'
    BY <1>11, <2>0 DEF cancel_inline, Cancelable, Complete, Records, Resumes, UsersDiffer,
       UsersWait
  <2>3. WaitersAreUsers'
    BY <1>11, <2>0 DEF cancel_inline, Cancelable, Complete, Records, Resumes,
       WaitersAreUsers, UsersDiffer, UsersWait, Control
  <2>4. RequestIsOwn'
    BY <1>11, <2>0 DEF cancel_inline, Cancelable, Complete, Records, Resumes, RequestIsOwn,
       UsersWait, Control
  <2>5. Control'
    BY <1>11, <2>0 DEF cancel_inline, Cancelable, Complete, Records, Resumes, Control,
       UsersWait, InCancel
  <2>6. InCancel'
    BY <1>11, <2>0 DEF cancel_inline, Cancelable, Complete, Records, Resumes, InCancel,
       Control, UsersWait
  <2>7. Settled'
    BY <1>11, <2>0 DEF cancel_inline, Cancelable, Complete, Records, Resumes, Settled,
       Control, UsersWait
  <2> QED
    BY <2>1, <2>2, <2>3, <2>4, <2>5, <2>6, <2>7
<1>12. ASSUME NEW r \in Requests, NEW k \in Kinds, Progress(r, k)
      PROVE  Inv'
  <2>0. /\ r \in Requests /\ user[r] \in Coros
        /\ pc[user[r]] = "suspended" /\ h[user[r]] = TRUE
        /\ \A q \in Requests : user[q] = user[r] => q = r
    <3>1. r \in Requests /\ user[r] # nullptr /\ top # user[r]
      BY <1>12 DEF Progress, UsersWait
    <3> QED
      BY <3>1, CompleteOwner
  <2>1. UsersWait'
    BY <1>12, <2>0 DEF Progress, Complete, Records, Resumes, UsersWait, UsersDiffer, Control
  <2>2. UsersDiffer'
    BY <1>12, <2>0 DEF Progress, Complete, Records, Resumes, UsersDiffer, UsersWait
  <2>3. WaitersAreUsers'
    BY <1>12, <2>0 DEF Progress, Complete, Records, Resumes, WaitersAreUsers, UsersDiffer,
       UsersWait, Control
  <2>4. RequestIsOwn'
    BY <1>12, <2>0 DEF Progress, Complete, Records, Resumes, RequestIsOwn, UsersWait, Control
  <2>5. Control'
    BY <1>12, <2>0 DEF Progress, Complete, Records, Resumes, Control, UsersWait, InCancel
  <2>6. InCancel'
    BY <1>12, <2>0 DEF Progress, Complete, Records, Resumes, InCancel, Control, UsersWait
  <2>7. Settled'
    BY <1>12, <2>0 DEF Progress, Complete, Records, Resumes, Settled, Control, UsersWait
  <2> QED
    BY <2>1, <2>2, <2>3, <2>4, <2>5, <2>6, <2>7
<1>13. CASE UNCHANGED vars
  BY <1>13 DEF vars, UsersWait, UsersDiffer, WaitersAreUsers,
        RequestIsOwn, Control, InCancel, Settled
<1> QED
  BY <1>1, <1>2, <1>3, <1>4, <1>5, <1>6, <1>7, <1>8, <1>9, <1>10, <1>11,
     <1>12, <1>13
     DEF Next, CoroStep, Callback, send_cb, stream_recv_cb, tag_recv_cb, Kinds

(***************************************************************************)
(* Every reachable state satisfies the inductive invariant.                *)
(***************************************************************************)
THEOREM Invariance == Spec => []Inv
<1>1. Init => Inv
  BY InitInv
<1>2. Inv /\ [Next]_vars => Inv'
  BY InvStep
<1> QED
  BY <1>1, <1>2, PTL DEF Spec

(***************************************************************************)
(* The invariants the run checks follow from it.                           *)
(***************************************************************************)

\* Every variable keeps its type; in particular UCX is asked to cancel only
\* requests, never the null pointer.
THEOREM TypeCorrect == Spec => []TypeOK
BY Invariance, PTL DEF Inv

\* A waiting coroutine is the user_data of exactly one request, any other
\* coroutine of none.
THEOREM RequestsMatchWaiters == Spec => []OneRequestPerWaiter
<1>1. Inv => OneRequestPerWaiter
  <2> SUFFICES ASSUME Inv, NEW c \in Coros
               PROVE  LET mine == {r \in Requests : user[r] = c} IN
                      IF pc[c] \in {"ready", "suspended"}
                      THEN \E r \in mine : mine = {r}
                      ELSE mine = {}
    BY DEF OneRequestPerWaiter
  <2>1. CASE Waiting(c)
    <3>1. PICK r \in Requests : user[r] = c
      BY <2>1 DEF Inv, WaitersAreUsers
    <3>2. {q \in Requests : user[q] = c} = {r}
      BY <3>1, ConstantsAssumption DEF Inv, UsersDiffer
    <3> QED
      BY <2>1, <3>2 DEF Waiting
  <2>2. CASE ~Waiting(c)
    BY <2>2, ConstantsAssumption DEF Inv, UsersWait, Waiting
  <2> QED
    BY <2>1, <2>2
<1> QED
  BY <1>1, Invariance, PTL

\* No callback resumes a coroutine that is not suspended in its co_await.
THEOREM ResumesAreTame == Spec => []NoWildResume
<1>1. Inv => NoWildResume
  BY DEF Inv, Control, NoWildResume
<1> QED
  BY <1>1, Invariance, PTL

\* cancel() never reaches another operation's request, or a freed one.
THEOREM CancelIsOwn == Spec => []CancelHitsOwnRequest
<1>1. Inv => CancelHitsOwnRequest
  BY DEF Inv, RequestIsOwn, Waiting, Cancelable, CancelHitsOwnRequest
<1> QED
  BY <1>1, Invariance, PTL

-----------------------------------------------------------------------------
(***************************************************************************)
(* Refinement: each action is the step of Operation that its name suggests *)
(* or leaves the abstract state alone.                                     *)
(***************************************************************************)
LEMMA InitRefines == Init => Op!Init
BY DEF Init, Op!Init, Phase, Asked

LEMMA StepRefines == Inv /\ [Next]_vars => [Op!Next]_(Op!vars)
<1> SUFFICES ASSUME Inv, [Next]_vars
             PROVE  [Op!Next]_(Op!vars)
  OBVIOUS
<1>0. TypeOK
  BY DEF Inv
<1> USE ConstantsAssumption, <1>0 DEF TypeOK, Completions, RunsUserCode,
        frameVars, objectVars, ucxVars, ghostVars
<1>1. ASSUME NEW c \in Coros, Start(c)
      PROVE  UNCHANGED Op!vars
  BY <1>1 DEF Start, Phase, Asked, Op!vars
<1>2. ASSUME NEW c \in Coros, NEW k \in Kinds, construct(c, k)
      PROVE  UNCHANGED Op!vars
  BY <1>2 DEF construct, Phase, Asked, Op!vars
<1>3. ASSUME NEW c \in Coros, destroy(c)
      PROVE  UNCHANGED Op!vars
  BY <1>3 DEF destroy, Phase, Asked, Op!vars
<1>4. ASSUME NEW c \in Coros, Finish(c)
      PROVE  UNCHANGED Op!vars
  BY <1>4 DEF Finish, Phase, Asked, Op!vars
<1>5. ASSUME NEW c \in Coros, await_ready_now(c)
      PROVE  Op!SubmitNow(c)
  <2>1. Phase[c] = "idle" /\ Phase' = [Phase EXCEPT ![c] = "settled"]
    BY <1>5 DEF await_ready_now, Phase
  <2>2. \E s \in {"OK", "ERR"} : outcome' = [outcome EXCEPT ![c] = s]
    BY <1>5 DEF await_ready_now
  <2>3. Asked' = Asked
    BY <1>5 DEF await_ready_now, Asked
  <2>4. result' = [result EXCEPT ![c] = "none"]
    BY <1>5 DEF await_ready_now
  <2> QED
    BY <2>1, <2>2, <2>3, <2>4 DEF Op!SubmitNow
<1>6. ASSUME NEW c \in Coros, await_ready_pending(c)
      PROVE  Op!Submit(c)
  <2>1. Phase[c] = "idle" /\ Phase' = [Phase EXCEPT ![c] = "pending"]
    BY <1>6 DEF await_ready_pending, Phase
  <2>2. PICK r \in Requests : user[r] = nullptr /\ user' = [user EXCEPT ![r] = c]
    BY <1>6 DEF await_ready_pending
  <2>3. r \notin canceled
    BY <2>2 DEF Inv, Settled
  <2>4. Asked' = Asked
    BY <1>6, <2>2, <2>3 DEF await_ready_pending, Asked
  <2>5. result' = [result EXCEPT ![c] = "none"] /\ outcome' = outcome
    BY <1>6 DEF await_ready_pending
  <2> QED
    BY <2>1, <2>2, <2>3, <2>4, <2>5 DEF Op!Submit
<1>7. ASSUME NEW c \in Coros, await_suspend(c)
      PROVE  UNCHANGED Op!vars
  BY <1>7 DEF await_suspend, Stores, Phase, Asked, Op!vars, Inv, WaitersAreUsers, Waiting
<1>8. ASSUME NEW c \in Coros, await_resume(c)
      PROVE  Op!Observe(c)
  BY <1>8 DEF await_resume, Forgets, check_ucs_status, Op!Observe, Phase, Asked, Inv, Settled
<1>9. ASSUME NEW c \in Coros, cancel_return(c)
      PROVE  UNCHANGED Op!vars
  BY <1>9 DEF cancel_return, Phase, Asked, Op!vars
<1>10. ASSUME NEW c \in Coros, NEW d \in Coros, cancel_deferred(c, d)
      PROVE  Op!Ask(d)
  <2>1. request[d] \in Requests /\ user[request[d]] = d
    BY <1>10 DEF cancel_deferred, Asks, Marks, Forgets, Cancelable, Inv, RequestIsOwn, Waiting
  <2>2. Phase[d] = "pending" /\ Phase' = Phase
    BY <1>10, <2>1 DEF cancel_deferred, Asks, Marks, Forgets, Inv, UsersWait, Waiting, Phase
  <2>3. Asked' = [Asked EXCEPT ![d] = TRUE]
    BY <1>10, <2>1 DEF cancel_deferred, Asks, Marks, Forgets, Asked
  <2>4. UNCHANGED <<outcome, result>>
    BY <1>10 DEF cancel_deferred, Asks, Marks, Forgets
  <2> QED
    BY <2>1, <2>2, <2>3, <2>4 DEF Op!Ask
<1>11. ASSUME NEW c \in Coros, NEW d \in Coros, cancel_inline(c, d)
      PROVE  Op!Abort(d)
  <2>1. request[d] \in Requests /\ user[request[d]] = d
    BY <1>11 DEF cancel_inline, Cancelable, Inv, RequestIsOwn, Waiting
  <2>2. pc[d] = "suspended" /\ h[d] = TRUE
    BY <1>11, <2>1 DEF cancel_inline, Cancelable, Inv, Control, UsersWait, Waiting
  <2>3. Phase[d] = "pending" /\ Phase' = [Phase EXCEPT ![d] = "settled"]
    BY <1>11, <2>1, <2>2 DEF cancel_inline, Complete, Records, Resumes, Phase
  <2>4. Asked' = [Asked EXCEPT ![d] = FALSE]
    BY <1>11, <2>1 DEF cancel_inline, Complete, Records, Resumes, Asked, Inv, UsersDiffer
  <2>5. outcome' = [outcome EXCEPT ![d] = "CANCELED"] /\ result' = result
    BY <1>11, <2>1 DEF cancel_inline, Complete, Records, Resumes
  <2> QED
    BY <2>1, <2>2, <2>3, <2>4, <2>5 DEF Op!Abort
<1>12. ASSUME NEW r \in Requests, NEW k \in Kinds, Progress(r, k)
      PROVE  \E c \in Coros : Op!Settle(c)
  <2>0. user[r] # nullptr /\ top # user[r]
    BY <1>12 DEF Progress
  <2>1. PICK c \in Coros : c = user[r] /\ pc[c] = "suspended" /\ h[c] = TRUE
    BY <2>0, CompleteOwner
  <2>2. PICK s \in Completions \cup (IF r \in canceled THEN {"CANCELED"} ELSE {}) :
           Complete(r, s, Loop)
    BY <1>12 DEF Progress
  <2>3. Phase[c] = "pending" /\ Phase' = [Phase EXCEPT ![c] = "settled"]
    <3>1. pc' = [pc EXCEPT ![c] = "resumed"]
      BY <2>1, <2>2 DEF Complete, Records, Resumes
    <3> QED
      BY <2>1, <3>1 DEF Phase
  <2>4. r \in canceled => Asked[c]
    BY <2>1 DEF Asked
  <2>5. \E t \in {"OK", "ERR"} \cup (IF Asked[c] THEN {"CANCELED"} ELSE {}) :
           outcome' = [outcome EXCEPT ![c] = t]
    BY <2>1, <2>2, <2>4 DEF Complete, Records, Resumes
  <2>6. Asked' = [Asked EXCEPT ![c] = FALSE]
    <3>1. user' = [user EXCEPT ![r] = nullptr] /\ canceled' = canceled \ {r}
      BY <1>12, <2>2 DEF Progress, Complete, Records, Resumes
    <3>2. \A q \in Requests : user[q] = c => q = r
      BY <2>1, <2>0, CompleteOwner
    <3> QED
      BY <2>1, <3>1, <3>2 DEF Asked
  <2>7. result' = result
    BY <2>2 DEF Complete, Records, Resumes
  <2> QED
    BY <2>1, <2>3, <2>5, <2>6, <2>7 DEF Op!Settle
<1>13. CASE UNCHANGED vars
  BY <1>13 DEF vars, Phase, Asked, Op!vars
<1> QED
  BY <1>1, <1>2, <1>3, <1>4, <1>5, <1>6, <1>7, <1>8, <1>9, <1>10, <1>11,
     <1>12, <1>13
     DEF Next, CoroStep, Callback, send_cb, stream_recv_cb, tag_recv_cb, Kinds,
         Op!Next, Progress

\* The awaitables keep what Operation promises to a co_await.
THEOREM Refinement == Spec => ImplementsOperation
<1>1. Init => Op!Init
  BY InitRefines
<1>2. Inv /\ [Next]_vars => [Op!Next]_(Op!vars)
  BY StepRefines
<1> QED
  BY <1>1, <1>2, Invariance, PTL DEF Spec, ImplementsOperation, Op!Spec
==========================================================================
