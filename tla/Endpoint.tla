----------------------------- MODULE Endpoint -----------------------------
(***************************************************************************)
(* The life of an endpoint object (endpoint.h, endpoint.cc) and of the UCX *)
(* endpoint it wraps: three pieces of code may close the UCX endpoint, the *)
(* coroutine close(), the error handler error_cb that UCX calls from       *)
(* progress, and the destructor; they coordinate through ep_ and           *)
(* close_request_.  The object lives as long as somebody holds a           *)
(* shared_ptr: coroutines of the program, and the awaitable of close().    *)
(*                                                                         *)
(* The constructor does not initialise close_request_: it starts as what   *)
(* the memory holds, zero or not.                                          *)
(*                                                                         *)
(* Client obligation: close() is called at most once.  It may be called    *)
(* after error_cb ran: nothing tells the client that it did.  The          *)
(* coroutine that calls it may detach it and drop its own reference.       *)
(*                                                                         *)
(* Closing through a null handle, or an endpoint that was closed before,   *)
(* is a misuse of UCX.  It may refuse it, or the process may crash, which  *)
(* ends the behaviour at that point.                                       *)
(***************************************************************************)
EXTENDS Naturals

CONSTANTS
    Users,              \* what may hold a shared_ptr to the endpoint
    Closer              \* the one that may call close()

ASSUME ConstantsAssumption == Closer \in Users

VARIABLES
    object,             \* "none", "alive" or "destroyed"
    ep_,                \* "handle" or "null"
    close_request_,     \* "null", "garbage", "request", or "stale": freed
    refs,               \* users that hold a shared_ptr
    awaitable_ref,      \* ep_close_awaitable::endpoint_ holds one
    close_pc,           \* the coroutine close(): "idle", "suspended", "done", "threw"
    native,             \* UCX endpoint: "none", "open", "closing" or "closed"
    closing_for,        \* whose close is in progress in UCX
    misused,            \* history: who closed a null or closed endpoint
    refused,            \* history: UCX refused what error_cb or ~endpoint asked
    failed,             \* error_cb was called
    zeroed              \* history: the memory of close_request_ was zero

objectVars == <<object, ep_, close_request_, refs, awaitable_ref, close_pc>>
ucxVars == <<native, closing_for, misused, refused, failed>>
vars == <<objectVars, ucxVars, zeroed>>

Init ==
    /\ object = "none"
    /\ ep_ = "null"
    /\ close_request_ = "garbage"
    /\ refs = {}
    /\ awaitable_ref = FALSE
    /\ close_pc = "idle"
    /\ native = "none"
    /\ closing_for = "nobody"
    /\ misused = {}
    /\ refused = FALSE
    /\ failed = FALSE
    /\ zeroed \in BOOLEAN

\* ucp_ep_create succeeds (else the constructor throws and there is no object).
construct ==
    /\ object = "none"
    /\ object' = "alive"
    /\ ep_' = "handle"
    /\ close_request_' = IF zeroed THEN "null" ELSE "garbage"
    /\ refs' = {Closer}
    /\ native' = "open"
    /\ UNCHANGED <<awaitable_ref, close_pc, closing_for, misused, refused, failed,
                   zeroed>>

\* A holder hands out a copy of its shared_ptr, or moves it.
share(u) ==
    /\ refs # {}
    /\ u \in Users \ refs
    /\ refs' = refs \cup {u}
    /\ UNCHANGED <<object, ep_, close_request_, awaitable_ref, close_pc, ucxVars,
                   zeroed>>

pass(u, w) ==
    /\ u \in refs
    /\ w \in Users \ refs
    /\ refs' = (refs \ {u}) \cup {w}
    /\ UNCHANGED <<object, ep_, close_request_, awaitable_ref, close_pc, ucxVars,
                   zeroed>>

\* UCX accepts to close the endpoint, and is done at once or later.
CloseNow == native' = "closed" /\ UNCHANGED closing_for

CloseLater(who) == native' = "closing" /\ closing_for' = who

Misuses(who) == misused' = misused \cup {who}

-----------------------------------------------------------------------------
(* task<void> endpoint::close() *)

MayClose == close_pc = "idle" /\ Closer \in refs

\* ep_ names an endpoint that was not closed before.
Closable == ep_ = "handle" /\ native = "open"

\* ucp_ep_close_nbx completes at once: co_await does not suspend, ep_ is
\* cleared.
close_now ==
    /\ MayClose
    /\ Closable
    /\ CloseNow
    /\ ep_' = "null"
    /\ close_pc' = "done"
    /\ UNCHANGED <<object, close_request_, refs, awaitable_ref, misused, refused,
                   failed, zeroed>>

\* Seeded fault: the pointer UCX returned is stored before it is tested.
Remember_error == close_request_' = "error pointer"

Forget == UNCHANGED close_request_

\* It fails at once: await_resume throws, ep_ stays.
close_refused ==
    /\ MayClose
    /\ Closable
    /\ close_pc' = "threw"
    /\ Forget
    /\ UNCHANGED <<object, ep_, refs, awaitable_ref, ucxVars, zeroed>>

\* close() tests neither ep_ nor close_request_.
close_misuses ==
    /\ MayClose
    /\ ~Closable
    /\ Misuses("close")
    /\ close_pc' = "threw"
    /\ UNCHANGED <<object, ep_, close_request_, refs, awaitable_ref, native,
                   closing_for, refused, failed, zeroed>>

\* Seeded fault: ep_close_awaitable does not remember the request.
Remember_not == UNCHANGED close_request_

Remember == close_request_' = "request"

\* It returns a request: remembered in close_request_, close() suspends with a
\* reference to the endpoint.
close_pending ==
    /\ MayClose
    /\ Closable
    /\ CloseLater("close")
    /\ Remember
    /\ awaitable_ref' = TRUE
    /\ close_pc' = "suspended"
    /\ UNCHANGED <<object, ep_, refs, misused, refused, failed, zeroed>>

\* Seeded fault: the destructor tests close_request_ the wrong way round.
MustClose_inverted == ep_ # "null" /\ close_request_ # "null"

MustClose == ep_ # "null" /\ close_request_ = "null"

\* endpoint::~endpoint
destructor ==
    /\ object' = "destroyed"
    /\ \/ /\ ~MustClose
          /\ UNCHANGED <<native, closing_for, misused, refused>>
       \/ /\ MustClose /\ Closable
          /\ UNCHANGED misused
          /\ \/ CloseNow /\ UNCHANGED refused
             \/ CloseLater("destructor") /\ UNCHANGED refused
             \/ refused' = TRUE /\ UNCHANGED <<native, closing_for>>
       \/ /\ MustClose /\ ~Closable
          /\ Misuses("destructor")
          /\ UNCHANGED <<native, closing_for, refused>>

NoDestructor == UNCHANGED <<object, native, closing_for, misused, refused>>

\* Seeded fault: close() does not clear ep_.
Cleared_not == UNCHANGED ep_

Cleared == ep_' = "null"

\* UCX completes the request: send_cb frees it and resumes close().  The
\* awaitable and its reference are gone by the end of the co_await, then ep_ is
\* cleared (a store to a destroyed object, if that was the last reference); an
\* error status is thrown instead.  close_request_ is not null, so a
\* destructor that runs here closes nothing.
send_cb ==
    /\ native = "closing"
    /\ closing_for = "close"
    /\ native' = "closed"
    /\ closing_for' = "nobody"
    /\ close_request_' = "stale"
    /\ awaitable_ref' = FALSE
    /\ object' = IF refs = {} THEN "destroyed" ELSE object
    /\ \/ /\ close_pc' = "done"
          /\ Cleared
       \/ /\ close_pc' = "threw"
          /\ UNCHANGED ep_
    /\ UNCHANGED <<refs, misused, refused, failed, zeroed>>

-----------------------------------------------------------------------------
HandlerCloses == close_request_ = "null"

\* UCX reports an error of the endpoint, once: the handler closes it, unless
\* close_request_ says that this was done.  It is taken not to be called for an
\* object that is gone.
error_cb ==
    /\ object = "alive"
    /\ native \in {"open", "closing"}
    /\ ~failed
    /\ failed' = TRUE
    /\ \/ /\ ~HandlerCloses
          /\ UNCHANGED <<ep_, close_request_, native, closing_for, misused, refused>>
       \/ /\ HandlerCloses /\ native = "open"
          /\ UNCHANGED misused
          /\ \/ /\ CloseNow \/ UNCHANGED <<native, closing_for>>
                /\ refused' = (native' = "open")
                /\ close_request_' = "null"
                /\ ep_' = "null"
             \/ /\ CloseLater("error_cb")
                /\ close_request_' = "request"
                /\ UNCHANGED <<ep_, refused>>
       \/ /\ HandlerCloses /\ native = "closing"
          /\ Misuses("error_cb")
          /\ UNCHANGED <<ep_, close_request_, native, closing_for, refused>>
    /\ UNCHANGED <<object, refs, awaitable_ref, close_pc, zeroed>>

\* UCX completes a close that error_cb asked for (nobody frees the request) or
\* that the destructor asked for (close_cb frees it).
close_cb ==
    /\ native = "closing"
    /\ closing_for \in {"error_cb", "destructor"}
    /\ native' = "closed"
    /\ closing_for' = "nobody"
    /\ UNCHANGED <<objectVars, misused, refused, failed, zeroed>>

-----------------------------------------------------------------------------
\* A coroutine drops its shared_ptr; the last reference takes the object along.
drop(u) ==
    /\ u \in refs
    /\ refs' = refs \ {u}
    /\ IF refs = {u} /\ ~awaitable_ref
       THEN destructor
       ELSE NoDestructor
    /\ UNCHANGED <<ep_, close_request_, awaitable_ref, close_pc, failed, zeroed>>

-----------------------------------------------------------------------------
close == close_now \/ close_refused \/ close_misuses \/ close_pending

Next ==
    \/ construct
    \/ close
    \/ send_cb
    \/ error_cb
    \/ close_cb
    \/ \E u \in Users : drop(u) \/ share(u) \/ \E w \in Users : pass(u, w)

Spec == Init /\ [][Next]_vars

\* Progress is called for as long as UCX has something to complete.
FairSpec == Spec /\ WF_vars(send_cb) /\ WF_vars(close_cb)

-----------------------------------------------------------------------------
TypeOK ==
    /\ object \in {"none", "alive", "destroyed"}
    /\ ep_ \in {"handle", "null"}
    /\ close_request_ \in {"null", "garbage", "request", "stale"}
    /\ refs \subseteq Users
    /\ awaitable_ref \in BOOLEAN
    /\ close_pc \in {"idle", "suspended", "done", "threw"}
    /\ native \in {"none", "open", "closing", "closed"}
    /\ closing_for \in {"nobody", "close", "error_cb", "destructor"}
    /\ misused \subseteq {"close", "error_cb", "destructor"}
    /\ refused \in BOOLEAN
    /\ failed \in BOOLEAN
    /\ zeroed \in BOOLEAN

\* However close(), error_cb and the destructor interleave, only one of them
\* ever closes an endpoint that is null or closed: a close() called after an
\* error_cb that found zeroed memory and therefore closed the endpoint itself.
\* This close() does happen, since it tests nothing.  error_cb and the
\* destructor always know what the others did.
OnlyLateCloseMisuses ==
    /\ misused \subseteq {"close"}
    /\ misused # {} => failed /\ zeroed

\* When the object is gone the UCX endpoint was closed or is being closed
\* (endpoint.h: "If the endpoint is not closed yet, it will be closed").
ClosedOnDestroy == object = "destroyed" => native # "open" \/ refused

\* The same where the constructor found zeroed memory.
ClosedOnDestroyIfZeroed == zeroed => ClosedOnDestroy

\* close() returns, and when it returns without an exception the UCX endpoint
\* is gone and the object does not refer to it any more.
CloseReturns ==
    /\ (close_pc = "suspended") ~> (close_pc \in {"done", "threw"})
    /\ [](close_pc = "done" => native = "closed" /\ ep_ = "null")
===========================================================================
