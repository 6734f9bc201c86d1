---------------------------- MODULE Awaitable ----------------------------
(***************************************************************************)
(* The awaitables of awaitable.h: what happens between `co_await` of a UCX *)
(* operation and the coroutine going on with its result.                   *)
(*                                                                         *)
(* A coroutine constructs an awaitable object, co_awaits it (await_ready   *)
(* posts the UCX request, await_suspend stores the coroutine handle), is   *)
(* resumed by the completion callback that UCX calls from worker progress, *)
(* and await_resume turns the status into a value or an exception.  Other  *)
(* coroutines of the thread may cancel() a receive through the pointer the *)
(* constructor handed out.  One thread drives a worker                     *)
(* (UCS_THREAD_MODE_SINGLE), so exactly one of the progress loop and the   *)
(* coroutines runs at a time: top names it.                                *)
(*                                                                         *)
(* Every coroutine has at most one awaitable object at a time, so objects  *)
(* are named by their coroutine.                                           *)
(***************************************************************************)

CONSTANTS
    Coros,      \* coroutines of the thread
    Requests,   \* UCX requests (addresses that UCX frees and hands out again)
    nullptr,    \* no request, no coroutine
    Loop        \* the progress loop, the thread's bottom-most frame

ASSUME ConstantsAssumption ==
    /\ nullptr \notin Coros \cup Requests
    /\ Loop \notin Coros

VARIABLES
    pc,         \* pc[c]: where coroutine c stands, see PcStates
    kind,       \* kind[c]: class of c's awaitable object
    status,     \* status[c]: base_awaitable::status_
    h,          \* h[c]: base_awaitable::h_ is set
    request,    \* request[c]: request_ of a receive awaitable
    user,       \* user[r]: owner of the request's user_data; nullptr: r is free
    canceled,   \* requests UCX was asked to cancel and has not completed
    top,        \* who runs: the loop or a coroutine
    caller,     \* caller[c]: who runs again when c suspends or finishes
    inCancel,   \* inCancel[c]: owner of the awaitable whose cancel() c is in
    outcome,    \* outcome[c]: status UCX completed c's operation with
    result      \* result[c]: what the last co_await of c delivered

frameVars == <<pc, top, caller>>
objectVars == <<kind, status, h, request>>
ucxVars == <<user, canceled>>
ghostVars == <<outcome, result>>
vars == <<frameVars, objectVars, ucxVars, inCancel, ghostVars>>

(***************************************************************************)
(* "none"      no coroutine (not started, or finished)                     *)
(* "idle"      runs user code, has no awaitable object                     *)
(* "built"     runs user code, has an awaitable object                     *)
(* "ready"     await_ready returned false, await_suspend comes next        *)
(* "suspended" waits for the completion callback                           *)
(* "resumed"   await_resume comes next                                     *)
(* "wild"      resumed although it was not suspended (undefined behaviour) *)
(***************************************************************************)
PcStates == {"none", "idle", "built", "ready", "suspended", "resumed", "wild"}
Kinds == {"send", "stream", "tag"}
Statuses == {"OK", "INPROGRESS", "ERR", "CANCELED"}

\* UCS_OK or an error: how UCX may complete an operation nobody canceled.
Completions == {"OK", "ERR"}

Init ==
    /\ pc = [c \in Coros |-> "none"]
    /\ top = Loop
    /\ caller = [c \in Coros |-> Loop]
    /\ kind = [c \in Coros |-> "none"]
    /\ status = [c \in Coros |-> "OK"]
    /\ h = [c \in Coros |-> FALSE]
    /\ request = [c \in Coros |-> nullptr]
    /\ user = [r \in Requests |-> nullptr]
    /\ canceled = {}
    /\ inCancel = [c \in Coros |-> nullptr]
    /\ outcome = [c \in Coros |-> "none"]
    /\ result = [c \in Coros |-> "none"]

-----------------------------------------------------------------------------
(* The coroutine's own code around the co_await. *)

\* c executes user code (not one of the awaitable's members).
RunsUserCode(c) == /\ top = c
                   /\ pc[c] \in {"idle", "built"}
                   /\ inCancel[c] = nullptr

\* The loop starts a coroutine; it runs at once (initial_suspend never waits).
Start(c) ==
    /\ top = Loop
    /\ pc[c] = "none"
    /\ pc' = [pc EXCEPT ![c] = "idle"]
    /\ top' = c
    /\ caller' = [caller EXCEPT ![c] = Loop]
    /\ UNCHANGED <<objectVars, ucxVars, inCancel, ghostVars>>

\* The constructors: tag_recv_awaitable clears request_, stream_recv_awaitable
\* leaves it uninitialised, send_awaitable has no such member.
construct(c, k) ==
    /\ RunsUserCode(c)
    /\ pc[c] = "idle"
    /\ pc' = [pc EXCEPT ![c] = "built"]
    /\ kind' = [kind EXCEPT ![c] = k]
    /\ status' = [status EXCEPT ![c] = "OK"]
    /\ h' = [h EXCEPT ![c] = FALSE]
    /\ \E garbage \in IF k = "stream" THEN Requests \cup {nullptr}
                                      ELSE {nullptr} :
          request' = [request EXCEPT ![c] = garbage]
    /\ UNCHANGED <<top, caller, ucxVars, inCancel, ghostVars>>

\* The awaitable object dies at the end of its scope.  Whoever holds it keeps
\* it alive while a cancel() on it is still executing: a client obligation,
\* cancel() stores to the object after ucp_request_cancel returns.
destroy(c) ==
    /\ RunsUserCode(c)
    /\ pc[c] = "built"
    /\ \A d \in Coros : inCancel[d] # c
    /\ pc' = [pc EXCEPT ![c] = "idle"]
    /\ kind' = [kind EXCEPT ![c] = "none"]
    /\ status' = [status EXCEPT ![c] = "OK"]
    /\ h' = [h EXCEPT ![c] = FALSE]
    /\ request' = [request EXCEPT ![c] = nullptr]
    /\ UNCHANGED <<top, caller, ucxVars, inCancel, ghostVars>>

\* The coroutine returns; control goes back to whoever resumed it.
Finish(c) ==
    /\ RunsUserCode(c)
    /\ pc[c] = "idle"
    /\ pc' = [pc EXCEPT ![c] = "none"]
    /\ top' = caller[c]
    /\ UNCHANGED <<caller, objectVars, ucxVars, inCancel, ghostVars>>

-----------------------------------------------------------------------------
(* co_await: await_ready, await_suspend, await_resume. *)

\* UCX completes or refuses the operation inside the call (no request
\* pointer): check_request_ready records the status, no callback will come.
await_ready_now(c) ==
    /\ RunsUserCode(c)
    /\ pc[c] = "built"
    /\ pc' = [pc EXCEPT ![c] = "resumed"]
    /\ \E s \in Completions :
          /\ status' = [status EXCEPT ![c] = s]
          /\ outcome' = [outcome EXCEPT ![c] = s]
    /\ result' = [result EXCEPT ![c] = "none"]
    /\ UNCHANGED <<top, caller, kind, h, request, ucxVars, inCancel>>

\* UCX returns a request whose user_data is the awaitable: it is in progress.
await_ready_pending(c) ==
    /\ RunsUserCode(c)
    /\ pc[c] = "built"
    /\ pc' = [pc EXCEPT ![c] = "ready"]
    /\ status' = [status EXCEPT ![c] = "INPROGRESS"]
    /\ \E r \in {q \in Requests : user[q] = nullptr} :
          /\ user' = [user EXCEPT ![r] = c]
          /\ request' = IF kind[c] = "send" THEN request
                        ELSE [request EXCEPT ![c] = r]
    /\ result' = [result EXCEPT ![c] = "none"]
    /\ UNCHANGED <<top, caller, kind, h, canceled, inCancel, outcome>>

\* Seeded fault: await_suspend does not store the coroutine handle.
Stores_not(c) == UNCHANGED h

Stores(c) == h' = [h EXCEPT ![c] = TRUE]

\* The coroutine handle is stored before control leaves the coroutine.
await_suspend(c) ==
    /\ top = c
    /\ pc[c] = "ready"
    /\ Stores(c)
    /\ IF status[c] = "INPROGRESS"
       THEN /\ pc' = [pc EXCEPT ![c] = "suspended"]
            /\ top' = caller[c]
       ELSE /\ pc' = [pc EXCEPT ![c] = "resumed"]
            /\ UNCHANGED top
    /\ UNCHANGED <<caller, kind, status, request, ucxVars, inCancel, ghostVars>>

\* check_ucs_status: UCS_OK and UCS_INPROGRESS pass, anything else throws.
check_ucs_status(s) == IF s \in {"OK", "INPROGRESS"} THEN "value" ELSE "throw"

\* Seeded fault: request_ of a tag receive survives its completion.
Forgets_not(c) == UNCHANGED request

\* Only tag_recv_awaitable forgets its request, on completion and in cancel().
Forgets(c) == request' = IF kind[c] = "tag" THEN [request EXCEPT ![c] = nullptr]
                                            ELSE request

await_resume(c) ==
    /\ top = c
    /\ pc[c] = "resumed"
    /\ pc' = [pc EXCEPT ![c] = "built"]
    /\ Forgets(c)
    /\ result' = [result EXCEPT ![c] = check_ucs_status(status[c])]
    /\ outcome' = [outcome EXCEPT ![c] = "none"]
    /\ UNCHANGED <<top, caller, kind, status, h, ucxVars, inCancel>>

-----------------------------------------------------------------------------
(* Completion callbacks and cancellation. *)

\* Seeded faults: the callback does not store the status, or does not resume.
Records_not(c, s) == UNCHANGED status
Resumes_not(c, from) == UNCHANGED frameVars

Records(c, s) == status' = [status EXCEPT ![c] = s]

\* h_.resume(): only a suspended coroutine may be resumed.
Resumes(c, from) ==
    /\ pc' = [pc EXCEPT ![c] = IF pc[c] = "suspended" /\ h[c] THEN "resumed"
                               ELSE "wild"]
    /\ top' = c
    /\ caller' = [caller EXCEPT ![c] = from]

\* What every callback does with request r completed with s while `from`
\* executes: store the status, free the request, resume the coroutine.
Complete(r, s, from) ==
    LET c == user[r] IN
    /\ Records(c, s)
    /\ user' = [user EXCEPT ![r] = nullptr]
    /\ Resumes(c, from)
    /\ outcome' = [outcome EXCEPT ![c] = s]
    /\ UNCHANGED <<kind, h, request, result>>

\* Worker progress finds request r complete and calls its callback.
Progress(r, k) ==
    /\ top = Loop
    /\ user[r] # nullptr
    /\ kind[user[r]] = k
    /\ \E s \in Completions \cup (IF r \in canceled THEN {"CANCELED"} ELSE {}) :
          Complete(r, s, Loop)
    /\ canceled' = canceled \ {r}
    /\ UNCHANGED inCancel

send_cb(r) == Progress(r, "send")
stream_recv_cb(r) == Progress(r, "stream")
tag_recv_cb(r) == Progress(r, "tag")

\* d's awaitable may be cancelled: a tag receive whenever the object exists
\* (request_ says whether there is something to cancel), a stream receive
\* only while its coroutine is suspended (request_ is neither initialised nor
\* reset, so this is left to the caller).
Cancelable(d) ==
    \/ kind[d] = "tag" /\ pc[d] \in {"built", "suspended"}
    \/ kind[d] = "stream" /\ pc[d] = "suspended"

\* Seeded faults: cancel() lacks the test `if (request_)`, or frees the request.
Asks_always(d) == TRUE
Marks_frees(r) == user' = [user EXCEPT ![r] = nullptr] /\ UNCHANGED canceled

Asks(d) == request[d] # nullptr
Marks(r) == canceled' = canceled \cup {r} /\ UNCHANGED user

\* cancel(), called by coroutine c; UCX only marks the request and completes
\* it from a later progress.
cancel_deferred(c, d) ==
    /\ RunsUserCode(c)
    /\ Cancelable(d)
    /\ Asks(d)
    /\ Marks(request[d])
    /\ Forgets(d)
    /\ UNCHANGED <<frameVars, kind, status, h, inCancel, ghostVars>>

\* cancel() of a tag receive; UCX completes the request inside
\* ucp_request_cancel, so tag_recv_cb resumes d on top of c.
cancel_inline(c, d) ==
    /\ RunsUserCode(c)
    /\ kind[d] = "tag"
    /\ Cancelable(d)
    /\ request[d] # nullptr
    /\ user[request[d]] # nullptr
    /\ Complete(request[d], "CANCELED", c)
    /\ canceled' = canceled \ {request[d]}
    /\ inCancel' = [inCancel EXCEPT ![c] = d]

\* ucp_request_cancel returns; cancel() clears request_ and returns.
cancel_return(c) ==
    /\ top = c
    /\ inCancel[c] # nullptr
    /\ request' = [request EXCEPT ![inCancel[c]] = nullptr]
    /\ inCancel' = [inCancel EXCEPT ![c] = nullptr]
    /\ UNCHANGED <<frameVars, kind, status, h, ucxVars, ghostVars>>

-----------------------------------------------------------------------------
CoroStep(c) ==
    \/ Start(c)
    \/ \E k \in Kinds : construct(c, k)
    \/ destroy(c)
    \/ Finish(c)
    \/ await_ready_now(c)
    \/ await_ready_pending(c)
    \/ await_suspend(c)
    \/ await_resume(c)
    \/ cancel_return(c)
    \/ \E d \in Coros : cancel_deferred(c, d) \/ cancel_inline(c, d)

Callback(r) == send_cb(r) \/ stream_recv_cb(r) \/ tag_recv_cb(r)

Next ==
    \/ \E c \in Coros : CoroStep(c)
    \/ \E r \in Requests : Callback(r)

\* UCX completes every send-like operation, and every tag receive it was
\* asked to cancel, if the thread keeps calling progress.  A receive nobody
\* cancels may wait for ever: the peer need not send anything.
MustComplete(c) ==
    \E r \in Requests : /\ user[r] = c
                        /\ \/ send_cb(r)
                           \/ r \in canceled /\ tag_recv_cb(r)

Spec == Init /\ [][Next]_vars
FairSpec == Spec /\ \A c \in Coros : SF_vars(MustComplete(c))

-----------------------------------------------------------------------------
TypeOK ==
    /\ pc \in [Coros -> PcStates]
    /\ kind \in [Coros -> Kinds \cup {"none"}]
    /\ status \in [Coros -> Statuses]
    /\ h \in [Coros -> BOOLEAN]
    /\ request \in [Coros -> Requests \cup {nullptr}]
    /\ user \in [Requests -> Coros \cup {nullptr}]
    /\ canceled \subseteq Requests
    /\ top \in Coros \cup {Loop}
    /\ caller \in [Coros -> Coros \cup {Loop}]
    /\ inCancel \in [Coros -> Coros \cup {nullptr}]
    /\ outcome \in [Coros -> {"none", "OK", "ERR", "CANCELED"}]
    /\ result \in [Coros -> {"none", "value", "throw"}]

\* A coroutine waits for exactly one request, and only waiting coroutines are
\* some request's user_data: no completion is lost (the coroutine would hang)
\* and none arrives for a frame that has moved on or is gone.
OneRequestPerWaiter ==
    \A c \in Coros :
        LET mine == {r \in Requests : user[r] = c} IN
        IF pc[c] \in {"ready", "suspended"}
        THEN \E r \in mine : mine = {r}
        ELSE mine = {}

\* A callback resumes only a coroutine that is suspended in the co_await of
\* the very awaitable the callback belongs to, through a handle that is set.
NoWildResume == \A c \in Coros : pc[c] # "wild"

\* Whenever cancel() is called with request_ set, that request is still the
\* pending request of this very awaitable, not one that UCX has freed and
\* handed to another operation meanwhile.
CancelHitsOwnRequest ==
    \A d \in Coros :
        Cancelable(d) /\ request[d] # nullptr => user[request[d]] = d

\* What co_await promises (Operation): one completion, the coroutine sees
\* exactly the status UCX reported, canceled only on demand.
Phase == [c \in Coros |->
            CASE pc[c] \in {"ready", "suspended"} -> "pending"
              [] pc[c] = "resumed" -> "settled"
              [] OTHER -> "idle"]

Asked == [c \in Coros |-> \E r \in canceled : user[r] = c]

Op == INSTANCE Operation WITH Clients <- Coros, phase <- Phase, asked <- Asked

ImplementsOperation == Op!Spec

\* If the coroutines keep giving the thread back to the loop, a coroutine that
\* awaits a send-like operation, or a tag receive that was cancelled, is
\* resumed eventually.
CompletionResumes ==
    []<>(top = Loop) =>
        \A c \in Coros :
            (/\ pc[c] = "suspended"
             /\ kind[c] = "send" \/ (kind[c] = "tag" /\ Asked[c]))
            ~> pc[c] = "resumed"
==========================================================================
