------------------------------- MODULE Task -------------------------------
(***************************************************************************)
(* task<T> of task.h: coroutine frames, who resumes them, and who destroys *)
(* them, on one thread.                                                    *)
(*                                                                         *)
(* Calling a coroutine creates a frame that runs at once, on top of its    *)
(* caller, until it first suspends or finishes; the caller gets a task     *)
(* object that owns the frame.  The owner may co_await the task, detach()  *)
(* it or let ~task run.  A frame that finishes transfers control to the    *)
(* coroutine that awaits it, or destroys itself if it was detached, or     *)
(* stays until its task object is destroyed.  ~task of an unfinished task  *)
(* waits for its future: on the thread that would have to run the          *)
(* coroutine this wait never ends.                                         *)
(*                                                                         *)
(* A frame is one allocation, so its name is never used again.  The        *)
(* client's part, and all the model demands of it: only the scope that     *)
(* created a task uses it, and not any more after detach(); and it         *)
(* co_awaits a task at most once (task_awaiter does not test this, and     *)
(* get() of a future that was read before throws or is undefined).         *)
(***************************************************************************)
EXTENDS Naturals

CONSTANTS
    Frames,         \* coroutine frames
    Main,           \* the plain code of the thread: main() and its event loop
    nullptr,        \* no frame
    MaxSuspend      \* bound: suspensions of one coroutine outside of tasks

ASSUME ConstantsAssumption ==
    /\ Main \notin Frames
    /\ nullptr \notin Frames \cup {Main}
    /\ MaxSuspend \in Nat

VARIABLES
    st,             \* st[f]: the state of the frame, see States
    continuation,   \* continuation[f]: promise_base::continuation_
    release,        \* release[f]: promise_base::release_detached_ is set
    future,         \* future[f]: state of the promise's future
    owner,          \* owner[f]: the scope that has f's task object
    detached,       \* detached[f]: task::detached_
    awaits,         \* awaits[f]: h_ of the task_awaiter f is suspended in
    top,            \* who executes
    caller,         \* caller[f]: who executes when f suspends or finishes
    waiting,        \* whose future the thread waits for in ~task
    suspensions,    \* how often f has suspended outside of tasks
    late            \* history: frames detached after they had finished

promiseVars == <<continuation, release, future>>
taskVars == <<owner, detached>>
stackVars == <<top, caller>>
vars == <<st, promiseVars, taskVars, awaits, stackVars, waiting, suspensions, late>>

(***************************************************************************)
(* "unborn"    not created                                                 *)
(* "running"   executes, or called a coroutine that executes               *)
(* "suspended" in an awaitable of UCX or of the event loop                 *)
(* "awaiting"  in the task_awaiter of awaits[f]                            *)
(* "resumed"   resumed from there, await_resume comes next                 *)
(* "done"      at its final suspension point                               *)
(* "destroyed" gone                                                        *)
(* "wild"      resumed, or destroyed, when it must not be                  *)
(***************************************************************************)
States == {"unborn", "running", "suspended", "awaiting", "resumed", "done",
           "destroyed", "wild"}
Scopes == Frames \cup {Main}

Init ==
    /\ st = [f \in Frames |-> "unborn"]
    /\ continuation = [f \in Frames |-> nullptr]
    /\ release = [f \in Frames |-> FALSE]
    /\ future = [f \in Frames |-> "empty"]
    /\ owner = [f \in Frames |-> nullptr]
    /\ detached = [f \in Frames |-> FALSE]
    /\ awaits = [f \in Frames |-> nullptr]
    /\ top = Main
    /\ caller = [f \in Frames |-> nullptr]
    /\ waiting = nullptr
    /\ suspensions = [f \in Frames |-> 0]
    /\ late = {}

-----------------------------------------------------------------------------
\* Scope p executes its own code.
Executes(p) == /\ top = p
               /\ waiting = nullptr
               /\ p \in Frames => st[p] = "running"

\* p has the task object of g and may still use it.
Has(p, g) == owner[g] = p /\ ~detached[g]

\* p calls a coroutine: get_return_object makes the task, initial_suspend does
\* not suspend.
call(p, g) ==
    /\ Executes(p)
    /\ st[g] = "unborn"
    /\ st' = [st EXCEPT ![g] = "running"]
    /\ owner' = [owner EXCEPT ![g] = p]
    /\ top' = g
    /\ caller' = [caller EXCEPT ![g] = p]
    /\ UNCHANGED <<promiseVars, detached, awaits, waiting, suspensions, late>>

\* f suspends in some other awaitable ...
suspend(f) ==
    /\ Executes(f)
    /\ suspensions[f] < MaxSuspend
    /\ suspensions' = [suspensions EXCEPT ![f] = @ + 1]
    /\ st' = [st EXCEPT ![f] = "suspended"]
    /\ top' = caller[f]
    /\ UNCHANGED <<promiseVars, taskVars, awaits, caller, waiting, late>>

\* ... whose callback resumes it from the event loop.
resume(f) ==
    /\ Executes(Main)
    /\ st[f] = "suspended"
    /\ st' = [st EXCEPT ![f] = "running"]
    /\ top' = f
    /\ caller' = [caller EXCEPT ![f] = Main]
    /\ UNCHANGED <<promiseVars, taskVars, awaits, waiting, suspensions, late>>

\* future::get(): once only, a second get() finds no state.
get(f) == future' = [future EXCEPT ![f] = IF @ \in {"value", "exception"}
                                          THEN "taken" ELSE "invalid"]

\* Seeded fault: task_awaiter::await_ready always returns false.
await_ready_never(g) == FALSE

await_ready(g) == st[g] = "done"

\* co_await of a finished task: await_resume follows.
co_await_done(p, g) ==
    /\ Executes(p)
    /\ Has(p, g)
    /\ await_ready(g)
    /\ future[g] # "taken"
    /\ get(g)
    /\ UNCHANGED <<st, continuation, release, taskVars, awaits, stackVars,
                   waiting, suspensions, late>>

\* co_await of an unfinished task: await_suspend leaves the handle of p.
co_await(p, g) ==
    /\ Executes(p)
    /\ Has(p, g)
    /\ ~await_ready(g)
    /\ continuation' = [continuation EXCEPT ![g] = p]
    /\ awaits' = [awaits EXCEPT ![p] = g]
    /\ st' = [st EXCEPT ![p] = "awaiting"]
    /\ top' = caller[p]
    /\ UNCHANGED <<release, future, taskVars, caller, waiting, suspensions, late>>

\* p goes on after the task it awaited has finished.
await_resume(p) ==
    /\ top = p
    /\ st[p] = "resumed"
    /\ get(awaits[p])
    /\ st' = [st EXCEPT ![p] = "running"]
    /\ awaits' = [awaits EXCEPT ![p] = nullptr]
    /\ UNCHANGED <<continuation, release, taskVars, stackVars, waiting,
                   suspensions, late>>

-----------------------------------------------------------------------------
\* Resuming f through a handle.
Resumed(f) == IF st[f] = "awaiting" THEN "resumed" ELSE "wild"

\* Seeded fault: ~task does not destroy the frame.
Destroyed_not(f) == st[f]

\* Destroying f through a handle: only a frame that is suspended for good.
Destroyed(f) == IF st[f] = "done" THEN "destroyed" ELSE "wild"

\* Seeded faults: final_suspend transfers control without a test, or never.
Continues_always(f) == TRUE
Continues_never(f) == FALSE

Continues(f) == continuation[f] # nullptr

\* Seeded fault: a frame nobody awaits destroys itself, detached or not.
Left_destroyed(f) == "destroyed"

\* What becomes of a frame that nobody awaits.
Left(f) == IF release[f] THEN "destroyed" ELSE "done"

\* f reached its final suspension point: control goes to the continuation
\* (symmetric transfer), or back to where f was resumed from.
final_suspend(f) ==
    LET p == continuation[f] IN
    IF Continues(f)
    THEN /\ st' = [st EXCEPT ![f] = "done", ![p] = Resumed(p)]
         /\ top' = p
         /\ caller' = [caller EXCEPT ![p] = caller[f]]
    ELSE /\ st' = [st EXCEPT ![f] = Left(f)]
         /\ top' = caller[f]
         /\ UNCHANGED caller

\* The body of f ends, by co_return or by an exception; its local task objects
\* are gone by the time of final_suspend.
finish(f) ==
    /\ Executes(f)
    /\ \A g \in Frames : owner[g] # f
    /\ \E r \in {"value", "exception"} : future' = [future EXCEPT ![f] = r]
    /\ final_suspend(f)
    /\ UNCHANGED <<continuation, release, taskVars, awaits, waiting, suspensions, late>>

detach(p, g) ==
    /\ Executes(p)
    /\ Has(p, g)
    /\ release' = [release EXCEPT ![g] = TRUE]
    /\ detached' = [detached EXCEPT ![g] = TRUE]
    /\ late' = IF st[g] = "done" THEN late \cup {g} ELSE late
    /\ UNCHANGED <<st, continuation, future, owner, awaits, stackVars, waiting,
                   suspensions>>

\* ~task of a detached task does nothing, ...
drop_detached(p, g) ==
    /\ Executes(p)
    /\ owner[g] = p
    /\ detached[g]
    /\ owner' = [owner EXCEPT ![g] = nullptr]
    /\ UNCHANGED <<st, promiseVars, detached, awaits, stackVars, waiting,
                   suspensions, late>>

\* ... of a finished one destroys the frame, ...
drop_done(p, g) ==
    /\ Executes(p)
    /\ Has(p, g)
    /\ st[g] = "done"
    /\ st' = [st EXCEPT ![g] = Destroyed(g)]
    /\ owner' = [owner EXCEPT ![g] = nullptr]
    /\ UNCHANGED <<promiseVars, detached, awaits, stackVars, waiting,
                   suspensions, late>>

\* ... and of an unfinished one lets the frame destroy itself and waits for
\* its result.
drop_unfinished(p, g) ==
    /\ Executes(p)
    /\ Has(p, g)
    /\ st[g] # "done"
    /\ release' = [release EXCEPT ![g] = TRUE]
    /\ waiting' = g
    /\ UNCHANGED <<st, continuation, future, taskVars, awaits, stackVars,
                   suspensions, late>>

-----------------------------------------------------------------------------
TaskStep(p, g) ==
    \/ call(p, g)
    \/ co_await_done(p, g)
    \/ p \in Frames /\ co_await(p, g)
    \/ detach(p, g)
    \/ drop_detached(p, g)
    \/ drop_done(p, g)
    \/ drop_unfinished(p, g)

FrameStep(f) ==
    \/ suspend(f)
    \/ resume(f)
    \/ await_resume(f)
    \/ finish(f)

Next ==
    \/ \E p \in Scopes, g \in Frames : TaskStep(p, g)
    \/ \E f \in Frames : FrameStep(f)

Spec == Init /\ [][Next]_vars

\* The thread executes while it can, and every operation a coroutine is
\* suspended in completes.
FairSpec == Spec /\ WF_vars(Next)

-----------------------------------------------------------------------------
TypeOK ==
    /\ st \in [Frames -> States]
    /\ continuation \in [Frames -> Frames \cup {nullptr}]
    /\ release \in [Frames -> BOOLEAN]
    /\ future \in [Frames -> {"empty", "value", "exception", "taken"}]
    /\ owner \in [Frames -> Scopes \cup {nullptr}]
    /\ detached \in [Frames -> BOOLEAN]
    /\ awaits \in [Frames -> Frames \cup {nullptr}]
    /\ top \in Scopes
    /\ caller \in [Frames -> Scopes \cup {nullptr}]
    /\ waiting \in Frames \cup {nullptr}
    /\ suspensions \in [Frames -> 0 .. MaxSuspend]
    /\ late \subseteq Frames

\* A coroutine suspended in co_await of a task is the continuation of an
\* unfinished frame, so its wake-up is not lost; and the continuation of an
\* unfinished frame is a coroutine suspended in co_await of it, so the
\* transfer of control in final_suspend hits a coroutine that may be resumed.
Unfinished(f) == st[f] \in {"running", "suspended", "awaiting", "resumed"}

WakeUpsMatch ==
    \A p, g \in Frames :
        st[p] = "awaiting" /\ awaits[p] = g
            <=> Unfinished(g) /\ continuation[g] = p

\* No frame is used after it was destroyed, or destroyed or resumed while it
\* executes: whoever still refers to a frame finds it alive.  Referrers are
\* task objects that are not detached, task_awaiters and the call stack.
NoDanglingFrame ==
    /\ \A f \in Frames : st[f] # "wild"
    /\ \A f \in Frames : owner[f] # nullptr /\ ~detached[f]
                            => st[f] \notin {"unborn", "destroyed"}
    /\ \A f \in Frames : st[f] = "resumed"
                            => /\ st[awaits[f]] = "done"
                               /\ future[awaits[f]] \in {"value", "exception"}
    /\ \A f \in Frames : st[f] = "running" /\ caller[f] # Main
                            => st[caller[f]] = "running"

\* A frame that has finished but is not destroyed still has a task object that
\* will destroy it, unless detach() came too late: then it leaks, with every
\* parameter it holds.
NoLeak ==
    \A f \in Frames :
        st[f] = "done" /\ f \notin late => owner[f] # nullptr /\ ~detached[f]

\* Every coroutine that is started finishes and its frame is released, unless
\* the thread waits in ~task or detach() came too late.
FramesReleased ==
    \A f \in Frames :
        st[f] = "running" ~> \/ st[f] = "destroyed"
                             \/ waiting # nullptr
                             \/ f \in late
===========================================================================
