---------------------------- MODULE WorkerEpoll ----------------------------
(***************************************************************************)
(* How the example programs drive a worker from the epoll loop, and how    *)
(* they end: worker::progress and worker::arm, the readable callback that  *)
(* register_loop installs on the worker's event fd, and the loop of main() *)
(* that runs while somebody else holds a reference to the worker.          *)
(*                                                                         *)
(* The callback keeps a reference to the worker itself.  It gives it up    *)
(* when it finds, after an event, that only main() and itself are left;    *)
(* main() ends when it is the only one.  A coroutine holds a reference as  *)
(* long as its frame exists.                                               *)
(*                                                                         *)
(* Everything runs on one thread; events of the worker arrive at any time. *)
(***************************************************************************)
EXTENDS Naturals, FiniteSets

CONSTANTS
    Coros,          \* coroutines of the program
    Thread,         \* main(), poll() and the callback, below every coroutine
    FreshSignals    \* UCX: a worker that was never armed signals its first event

ASSUME ConstantsAssumption ==
    /\ Thread \notin Coros
    /\ IsFiniteSet(Coros)
    /\ FreshSignals \in BOOLEAN

VARIABLES
    main,           \* "start" (before the loop), "loop" or "ended"
    pc,             \* pc[c]: "none", "run", "worker", "tcp" or "done"
    leaked,         \* coroutines detached after they had finished (Task.late)
    top,            \* who executes
    events,         \* coroutines whose operation has completed in the worker
    armed,          \* the next event makes the event fd readable
    signaled,       \* the event fd is readable
    registered,     \* the event loop watches the event fd
    callback,       \* register_loop's callback: "unset", "set" or "dropped"
    step,           \* where it stands: "idle", "progress", "arm" or "check"
    lastIn          \* history: where a coroutine finished last

coroVars == <<pc, leaked, top>>
workerVars == <<events, armed, signaled>>
loopVars == <<registered, callback, step>>
vars == <<main, coroVars, workerVars, loopVars, lastIn>>

Init ==
    /\ main = "start"
    /\ pc = [c \in Coros |-> "none"]
    /\ leaked = {}
    /\ top = Thread
    /\ events = {}
    /\ armed = FreshSignals
    /\ signaled = FALSE
    /\ registered = FALSE
    /\ callback = "unset"
    /\ step = "idle"
    /\ lastIn = "main"

\* Coroutines whose frames hold a reference to the worker.
Holders == {c \in Coros : pc[c] \in {"run", "worker", "tcp"}} \cup leaked

use_count == 1 + (IF callback = "set" THEN 1 ELSE 0) + Cardinality(Holders)

-----------------------------------------------------------------------------
(* Coroutines. *)

\* A coroutine is called and detached.  It runs at once until it awaits the
\* worker or a socket; if it finishes (throws) first, detach() is too late.
begin(c) ==
    /\ pc[c] = "none"
    /\ \E p \in {"worker", "tcp", "done"} :
          /\ pc' = [pc EXCEPT ![c] = p]
          /\ leaked' = IF p = "done" THEN leaked \cup {c} ELSE leaked

start(c) ==
    /\ main = "start"
    /\ begin(c)
    /\ UNCHANGED <<main, top, workerVars, loopVars, lastIn>>

\* handle_endpoint(ep).detach() in server().
spawn(b, c) ==
    /\ top = b
    /\ begin(c)
    /\ UNCHANGED <<main, top, workerVars, loopVars, lastIn>>

await(c) ==
    /\ top = c
    /\ \E p \in {"worker", "tcp"} : pc' = [pc EXCEPT ![c] = p]
    /\ top' = Thread
    /\ UNCHANGED <<main, leaked, workerVars, loopVars, lastIn>>

\* By co_return or by an exception; a detached frame destroys itself.
finish(c) ==
    /\ top = c
    /\ pc' = [pc EXCEPT ![c] = "done"]
    /\ top' = Thread
    /\ lastIn' = IF step = "idle" THEN "poll" ELSE "callback"
    /\ UNCHANGED <<main, leaked, workerVars, loopVars>>

-----------------------------------------------------------------------------
(* The worker. *)

\* An operation completes in UCX: worker progress will call its callback.
arrive(c) ==
    /\ pc[c] = "worker"
    /\ c \notin events
    /\ events' = events \cup {c}
    /\ signaled' = (signaled \/ armed)
    /\ armed' = FALSE
    /\ UNCHANGED <<main, coroVars, loopVars, lastIn>>

\* ucp_worker_progress returns non-zero: a completion callback was called.
progress(c) ==
    /\ step = "progress"
    /\ top = Thread
    /\ c \in events
    /\ events' = events \ {c}
    /\ pc' = [pc EXCEPT ![c] = "run"]
    /\ top' = c
    /\ UNCHANGED <<main, leaked, armed, signaled, loopVars, lastIn>>

\* It returns zero: the inner loop of the callback ends.
no_progress ==
    /\ step = "progress"
    /\ top = Thread
    /\ events = {}
    /\ step' = "arm"
    /\ UNCHANGED <<main, coroVars, workerVars, registered, callback, lastIn>>

\* Seeded faults: arm() does not report that the worker is busy, or is not
\* called.
Busy_not == FALSE
Arms_not == UNCHANGED armed

Busy == events # {}
Arms == armed' = TRUE

\* arm() is false if an event arrived after the last progress, then the outer
\* loop goes on; else the event fd is drained and armed.
arm ==
    /\ step = "arm"
    /\ IF Busy
       THEN step' = "progress" /\ UNCHANGED <<armed, signaled>>
       ELSE Arms /\ signaled' = FALSE /\ step' = "check"
    /\ UNCHANGED <<main, coroVars, events, registered, callback, lastIn>>

-----------------------------------------------------------------------------
(* The event loop and main(). *)

register_loop ==
    /\ main = "start"
    /\ callback = "unset"
    /\ callback' = "set"
    /\ registered' = TRUE
    /\ UNCHANGED <<main, coroVars, workerVars, step, lastIn>>

enter_loop ==
    /\ main = "start"
    /\ callback = "set"
    /\ main' = "loop"
    /\ UNCHANGED <<coroVars, workerVars, loopVars, lastIn>>

Polls == main = "loop" /\ top = Thread /\ step = "idle" /\ use_count > 1

\* poll() finds the event fd readable and calls the callback.
poll_worker ==
    /\ Polls
    /\ registered /\ signaled
    /\ registered' = FALSE
    /\ step' = "progress"
    /\ UNCHANGED <<main, coroVars, workerVars, callback, lastIn>>

\* poll() resumes a coroutine that waits for a socket.
poll_tcp(c) ==
    /\ Polls
    /\ pc[c] = "tcp"
    /\ pc' = [pc EXCEPT ![c] = "run"]
    /\ top' = c
    /\ UNCHANGED <<main, leaked, workerVars, loopVars, lastIn>>

\* Seeded faults: the callback gives up while one other reference is left, or
\* does not count its own one, or leaves an empty function object behind.
InUse_off_by_one == use_count > 3
InUse_own == use_count > 1
NoOp_empty == "empty function"

\* Somebody besides main() and the callback holds a reference.
InUse == use_count > 2
NoOp == "dropped"

\* The end of the callback: watch the event fd again, or give up the references
\* to the event loop and, by replacing the callback, to the worker.
check ==
    /\ step = "check"
    /\ IF InUse
       THEN registered' = TRUE /\ UNCHANGED callback
       ELSE callback' = NoOp /\ UNCHANGED registered
    /\ step' = "idle"
    /\ UNCHANGED <<main, coroVars, workerVars, lastIn>>

\* main() finds that it holds the last reference.
end ==
    /\ main = "loop"
    /\ top = Thread
    /\ step = "idle"
    /\ use_count <= 1
    /\ main' = "ended"
    /\ UNCHANGED <<coroVars, workerVars, loopVars, lastIn>>

-----------------------------------------------------------------------------
CoroStep(c) ==
    \/ start(c)
    \/ \E b \in Coros : spawn(b, c)
    \/ await(c)
    \/ finish(c)
    \/ progress(c)
    \/ poll_tcp(c)

Callback == no_progress \/ arm \/ check

Next ==
    \/ \E c \in Coros : CoroStep(c) \/ arrive(c)
    \/ Callback
    \/ register_loop
    \/ enter_loop
    \/ poll_worker
    \/ end

Spec == Init /\ [][Next]_vars

\* The thread executes; epoll reports a readable event fd although sockets are
\* ready too; UCX completes what it has, in some fair order.
FairSpec ==
    /\ Spec
    /\ WF_vars(register_loop) /\ WF_vars(enter_loop)
    /\ WF_vars(Callback) /\ WF_vars(end) /\ SF_vars(poll_worker)
    /\ \A c \in Coros : WF_vars(await(c) \/ finish(c)) /\ SF_vars(progress(c))

-----------------------------------------------------------------------------
TypeOK ==
    /\ main \in {"start", "loop", "ended"}
    /\ pc \in [Coros -> {"none", "run", "worker", "tcp", "done"}]
    /\ leaked \subseteq Coros
    /\ top \in Coros \cup {Thread}
    /\ events \subseteq Coros
    /\ armed \in BOOLEAN /\ signaled \in BOOLEAN /\ registered \in BOOLEAN
    /\ callback \in {"unset", "set", "dropped"}
    /\ step \in {"idle", "progress", "arm", "check"}
    /\ lastIn \in {"main", "poll", "callback"}

\* While the callback is not at work, an event of the worker that nobody has
\* progressed keeps the event fd readable; with no event pending the next one
\* will make it readable.  The race of an event with arm() loses nothing.
NoLostSignal ==
    step = "idle" => IF events # {} THEN signaled ELSE signaled \/ armed

\* While a coroutine can wait for the worker, the callback exists, and the
\* event loop watches the event fd unless the callback is at work.
WorkerIsDriven ==
    main # "start" /\ Holders # {}
        => callback = "set" /\ (registered <=> step = "idle")

\* Every completed operation is progressed.
EventIsProgressed ==
    \A c \in Coros : (c \in events) ~> (c \notin events)

\* When no coroutine is left, main() ends.
NobodyLeft == main # "start" /\ \A c \in Coros : pc[c] \in {"none", "done"}
ProgramEnds == NobodyLeft ~> main = "ended"

\* When no coroutine is left, the last one finished in worker progress and no
\* frame leaked, main() ends.
ProgramEndsAfterProgress ==
    (NobodyLeft /\ leaked = {} /\ lastIn = "callback") ~> main = "ended"
============================================================================
