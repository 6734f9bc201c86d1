# Verification of ucxpp

ucxpp wraps UCX in C++20 coroutines: `co_await ep->tag_send(...)` posts a UCX
operation, suspends the coroutine, and the completion callback that UCX calls
from `worker::progress()` resumes it. This directory holds TLA+ models of that
machinery and of the epoll based programs shipped as examples, TLC
configurations for them, and proofs checked by TLAPS.

## 1. The system

Everything runs on one thread per worker (`UCS_THREAD_MODE_SINGLE`,
worker.cc:25). Concurrency is the interleaving of coroutines with callbacks: a
resume is a nested call, so a coroutine may be resumed in the middle of
`progress()`, of `poll()`, or of another coroutine's `cancel()`.

| component | state | operations | hard about it | correct when |
|---|---|---|---|---|
| awaitables (`awaitable.h/.cc`) | `h_`, `status_`, `request_`; UCX request and its user_data | constructors, `await_ready/suspend/resume`, callbacks, `cancel` | callback order, freed and reused requests, cancel during a completion | each operation resumes its coroutine once, with its own status |
| task (`task.h`) | frame, continuation, release flag, promise/future, `detached_` | call, `co_await`, `detach`, `~task`, final suspension | who destroys a frame, nested resumes, blocking destructor | no lost wake-up, no dangling frame, no leak |
| endpoint (`endpoint.h/.cc`) | `ep_`, `close_request_`, references | constructor, `close`, `error_cb`, `close_cb`, destructor | three parties close one handle | what is open is closed, what is closed is left alone |
| event loop, channel (`examples/socket`) | epoll interest, `channels_`, callbacks, batch of events | `register_*`, `deregister`, `poll`, `close`, `~channel` | events of a batch grow stale, fd reuse, stale callbacks | ready waiters are resumed, nobody else |
| TCP connection, listener | channel, partial I/O | `connect`, `accept`, `recv`, `send` | EAGAIN, second try after resumption | no spurious error |
| worker, `register_loop` | pending events, armed event fd, reference count | `progress`, `arm`, callback | event between progress and arm; exit by reference count | no event lost, program ends |
| acceptor, connector, `ep_transmission` | message position on either side | `connect`, `accept`, `send_address`, `from_tcp_connection` | partial reads, end of file, one client at a time | both sides know each other |
| `perftest` | shared counter, worker coroutines, warm-up and measured run | `sender`, `receiver`, `client`, `server` | test, await, then count; a stream receive may return part of a message | bounded overshoot; the server finishes unless it can be said what it starves of |
| `helloworld` | the conversation of two programs | `client`, `handle_endpoint`, `server` | all handlers of a server share one worker and its tags; memory in a coroutine's frame is accessed by the peer | a bell means that the access is done, memory outlives it, conversations end |
| context, worker, addresses, memory handles, keys | the UCX handle each object owns, shared references to parents; `remote_memory_handle` caches the endpoint's raw handle | constructors (with their failures), `register_mem`, `allocate_mem`, `get_address`, `pack_rkey`, move, move assignment, destructors | handles moved and overwritten, parents dropped in any order, a handle copied where it can go stale | each handle has one owner or is a known leak; parents outlive what is made from them; the cached handle is valid until the endpoint is closed |
| configuration builder, utilities | flags, text | builder, (de)serialisation, logging | - | sequential, see Not modelled |

How they interact: programs call coroutines (task), which co_await awaitables;
UCX callbacks resume them from `worker::progress`, which `register_loop`'s
callback calls from `event_loop::poll`; TCP awaitables are resumed by `poll`
directly; a coroutine's frame owns the references (endpoint, worker) whose
counts decide when endpoints are closed and when `main()` ends.

## 2. Modules

| module | models | state and actions |
|---|---|---|
| `Operation` | abstract: what a co_await of an operation promises | phase, outcome and result of each client's operation |
| `Awaitable` | `awaitable.h/.cc` | `pc`, `top`, `caller` are the call stack; `kind`, `status`, `h`, `request` the members; `user[r]` is the user_data of UCX request r. One action per member function; callbacks are `send_cb`, `stream_recv_cb`, `tag_recv_cb`. `Op` is the refinement mapping to `Operation` |
| `AwaitableProofs` | proofs about `Awaitable` | |
| `Task` | `task.h` | `st`, `continuation`, `release`, `future` per frame, `owner`, `detached` per task object, `top`/`caller` the stack, `waiting` the blocking `~task` |
| `TaskProofs` | proofs about `Task` | |
| `Endpoint` | `endpoint.h/.cc`, close part | the object, its members, the UCX endpoint behind it (`native`), references. Proved about in `ResourcesProofs` |
| `Resources`, `ResourcesProofs` | `context.cc`, `worker.cc` (construction, destruction), `address.cc`, `memory.cc`, and the endpoint | extends `Endpoint`: `context`, `worker` and `held` (who keeps them), per C++ variable the `class` of its object, the `handle` it owns and whether it has its `parent`, per UCX handle what is `live`, and `orphans`. The clients of the endpoint are here variables and coroutines that share the worker. `Endpoint`'s actions are reused, conjoined with what they do to the graph, and `EndpointRefined` shows that the endpoint inside the graph behaves as `Endpoint` says |
| `BlockingIO` | abstract: what a co_await of a read, write or accept promises | which fds are open and ready, who is blocked in which call |
| `EventLoop`, `EventLoopProofs` | `event_loop.cc`, `channel.cc`, `tcp_connection.cc`, `tcp_listener.cc` | epoll interest, `channels`, callbacks, the batch; `poll()` is cut at every point where a coroutine may run. `IO` is the refinement mapping to `BlockingIO`: it forgets the loop, its table, the batch and the callbacks |
| `WorkerEpoll`, `WorkerEpollProofs` | `worker_epoll.cc`, `worker.cc`, `main()` of the examples | events, `armed`, `signaled`; the callback's steps; holders of worker references |
| `Handshake`, `HandshakeProofs`, `MCHandshake` | `ep_transmission.cc`, `acceptor.cc`, `connector.cc`, `server()` | bytes written and read per connection and direction |
| `HelloWorld`, `HelloWorldProofs` | `helloworld.cc`, with `tag_*`, `stream_*`, memory handles as it uses them | `client_script` and `handle_endpoint` are the sequences of co_awaits, `client` and `handler` the positions; tag matching in the server's worker |
| `PerfTest`, `PerfTestProofs` | `perftest.cc`, tag and stream tests | phase, shared counter (messages, or bytes for a stream) and worker states per side, what is in flight |

Operators commented "Seeded fault" are variants of the operator that follows
them and has their name without the suffix, each with a plausible programming error. They are not part of any
specification; substituting one for the operator it stands before makes the
property named in `PROJECT.json` fail, which shows that the property depends on
the code being right.

## 3. What is abstracted

* Payloads, tags, lengths and logging. A status is OK, an error, or canceled.
* All send-like awaitables (stream and tag send, put, get, atomics, flushes,
  close) are one kind: they differ only in the UCX call.
* UCX, epoll and TCP are modelled by how the code uses them. UCX may complete
  an operation at once or later, may complete a canceled tag receive inside
  `ucp_request_cancel` or later, and reuses requests as soon as they are freed.
* A coroutine's own code is arbitrary: it may do any operation the API allows.
  What the models demand of it is stated at the action concerned:
  `Awaitable.destroy` (the awaitable outlives a `cancel()` on it),
  `Awaitable.Cancelable` (a stream receive is canceled only while it is
  pending), `Task` (only the creator of a task uses it, not after detach, and
  it co_awaits the task at most once, which task.h:73-77 does not test),
  `Endpoint` (`close()` is called at most once; it may come after `error_cb`),
  `Resources` (what was moved from is only destroyed, assigned or moved; no
  remote handle is made of a closed endpoint).

## 4. Runs

| run | bounds | shows |
|---|---|---|
| `awaitable` | 3 coroutines, 2 requests | Nested resumptions need three coroutines (one cancels, one is resumed by it, one takes the freed request); two requests so that one is reused while the other is pending. Safety, refinement of `Operation`, and completion |
| `task` | 3 frames, 1 suspension each | A chain of awaiting coroutines and a sibling; frames are never reused, so more frames only lengthen chains. Wake-ups match, nothing dangles, nothing leaks, every frame is released |
| `event_loop` | 2 fds, 2 coroutines, batches of 2 | The second event of a batch meets every thing the coroutine of the first can do: close either fd, reopen it, register it. One direction per fd at a time, no resets. Safety, refinement of `BlockingIO`, and resumption of ready waiters |
| `event_loop_duplex` | as above, full duplex | finding: the assertion in `poll()` fails |
| `event_loop_reset` | as above, resets | finding: a stale callback resumes a coroutine whose fd is not ready |
| `endpoint` (module `Resources`) | 1 context, 1 worker, 1 endpoint with one user, 2 variables, 3 handles | only a `close()` after `error_cb` closes what is null or closed, the destructor closes what is open (if the memory was zero), `close()` returns; every handle has one owner or is a known orphan, parents outlive their children, the cached endpoint handle is valid. Two variables are what a move or an assignment needs, three handles let an assignment orphan one while both variables hold another |
| `endpoint_uninitialised` (module `Endpoint`) | 3 users of one endpoint | finding: `close_request_` is not initialised |
| `worker_epoll` | 3 coroutines | events race with progress and arm; exit through the callback |
| `worker_epoll_exit` | 2 coroutines | finding: the programs do not end if the last coroutine does not end in progress |
| `handshake` | 2 clients, length field of 2 bytes, addresses of 1 and 2 bytes | every split of the messages, second client waiting in the backlog, death of a client at any point |
| `hello_world` | 2 clients, all 6 atomics of the code | conversations one after the other and overlapping. Alone: a bell means the access is done, memory outlives it. Overlapping: handlers take each other's bells, but are ahead of their client by at most one bell per other client, and all conversations end unless a client was lost |
| `perftest` | 3 workers a side, 2 and 3 iterations, messages of 2 bytes, tag and stream | overshoot bound; client and server finish unless the server starves for one of the reasons `FinishesUnlessStarved` names |

Deadlock checking is off where a program really ends or blocks: `Task` (all
frames released, or the thread blocked in `~task`), `EventLoop` (loop closed),
`Endpoint` (object gone), `WorkerEpoll` (main ended), `Handshake`, `HelloWorld`,
`PerfTest` (programs ended, or a client lost). `Awaitable` never stops and is checked for deadlock.

Fairness, and why the code justifies it:

* `Awaitable`: strong fairness on completing each send-like operation and each
  canceled tag receive. Progress is called again and again, UCX completes
  these without the peer's help; but progress is callable only when the loop
  runs, hence strong. Receives nobody cancels get no fairness. That coroutines
  return to the loop is a hypothesis inside `CompletionResumes`.
* `Task`: weak fairness of `Next`: the thread executes, and what coroutines are
  suspended in completes. Nobody is obliged to drop or detach a task: leaving
  its scope is what a coroutine does next.
* `EventLoop`: strong fairness of `poll`, and of a ready fd being in a batch
  (`epoll_wait` rotates through the ready list).
* `Endpoint`, `Resources`: weak fairness of the completions, as long as there is
  a worker to make progress (`GraphFairSpec`).
* `WorkerEpoll`: weak fairness of the thread's steps, strong fairness of
  `poll()` reporting the event fd and of UCX completing each operation.
* `Handshake`, `HelloWorld`, `PerfTest`: weak fairness of each program's steps.

Deliberate limits of passing runs, each one a known hazard: `EventLoop` with
`Errors = TRUE` also violates `WaiterIsRegistered` (the entry of a renewed
registration is erased, event_loop.cc:141); that the UCX endpoint is closed
at most once is false and therefore not claimed: when `error_cb` has closed it
(which it does if the memory of `close_request_` was zero), `close()` closes it
again or passes the null `ep_` to UCX, since it tests neither (endpoint.cc:80);
no API tells a client that `error_cb` ran, and the programs call `close()`
unconditionally. `OnlyLateCloseMisuses` says that this is the only misuse, and
when it happens; after it the models assume that UCX refused it (if it crashes,
the behaviour ends there);
`FramesReleased` excuses frames of a thread that is blocked in `~task` (a
deadlock the code admits, task.h:88); `WorkerEpoll` with `FreshSignals = FALSE`
violates `NoLostSignal` (the first `wait_readable()` is not preceded by
`arm()`); in `PerfTest` the server may wait for messages nobody sends as soon as
two workers run, or as soon as one stream receive returns part of a message:
`FinishesUnlessStarved` excuses exactly these cases; in `Resources` four places
leak a handle, each named by the action that adds to `orphans` (a move
assignment over an address that holds one, `allocate_mem` when the query
fails, the constructor of a worker when it has no event fd, the request of the
close that `error_cb` asks for); the close that the destructor of an endpoint
asks for may be cut off, because the endpoint may take the last reference to
its worker along; `CachedHandleIsOpen` ends with `close()` and `error_cb`, since
after them not to use a remote handle is up to the client; in `HelloWorld`
`BellMeansDone` and `MemoryOutlivesAccess` fail without their hypothesis
`alone`: with two clients at once a handler may print "Written by client" before
its client has written, or end while its client is about to access `value`; and
`close()`, if it is detached and nobody else holds the endpoint, stores `ep_` to
an object that is gone (`send_cb` with no `refs` left).

## 5. Proofs

`AwaitableProofs` proves, for any sets of coroutines and requests:
`TypeCorrect`, `RequestsMatchWaiters`, `ResumesAreTame`, `CancelIsOwn` (the four
invariants of the run) and `Refinement` (`Spec => ImplementsOperation`). The
only assumption is `ConstantsAssumption`: `nullptr` and `Loop` are not
coroutines or requests.

The inductive invariant `Inv` adds to the invariants what makes them
self-supporting: a request's user is a waiting coroutine and no two requests
have the same user (`UsersWait`, `UsersDiffer`), a waiting coroutine has a
request (`WaitersAreUsers`), `request_` of a tag receive is null or the pending
request of that object (`RequestIsOwn`), the coroutine that executes is not
suspended and a suspended one has stored its handle (`Control`), a `cancel()` in
progress has an object and that object's request is gone (`InCancel`), and the
status of a settled operation is the one UCX reported (`Settled`). The last one
is needed only for the refinement. `InvStep` has one case per action;
`StepRefines` maps each action to a step of `Operation` or to a stutter.

`WorkerEpollProofs` proves for any finite set of coroutines: `TypeCorrect`;
`CallbackOutlivesCoroutines` (`WorkerIsDriven`); and `SignalsAreKept`
(`NoLostSignal`) under the assumption `FreshSignals`, without which the very
first event could be missed. `CallbackInv` says where the callback's reference
to the worker can be in its life and that nobody holds one any more when the
callback has given up; that stays so because only `main()` before the loop and
running coroutines start coroutines (`TopInv`). `UseCount` is where counting
matters: a count of 2 with the callback alive means that no coroutine holds the
worker. `SignalInv` extends `NoLostSignal` to the moment between `arm()` and the
end of the callback.

`ResourcesProofs` proves, first, of the endpoint alone and for any set of
coroutines that share it, whenever `close()` and `error_cb` come: `TypeCorrect`,
`MisuseIsLate` (`OnlyLateCloseMisuses`) and `DestructorCloses`
(`ClosedOnDestroyIfZeroed`). `KnowledgeInv` says what `ep_` and
`close_request_` tell `close()`, `error_cb` and the destructor of each other
while the object lives; what they cannot tell `close()` is that `error_cb` ran,
which is where `failed /\ zeroed` comes in. `NativeInv` ties the UCX endpoint to
the object, `OpenInv` says that an open endpoint is not forgotten.

Then, of the whole graph and for any sets of users, variables and handles:
`EndpointRefined` (every step of the graph is a step of `Endpoint` or leaves the
endpoint alone, so what is proved of the endpoint holds here too),
`GraphTypeCorrect`, `HandlesOwnedOnce` (`OwnedOnce`), `ParentsLive`
(`ParentsOutlive`) and `CachedHandles` (`CachedHandleIsOpen`). `HandleInv` is
the accounting: used handles are those in variables and the orphans, disjointly.
`RefsInv` says who holds a reference to context and worker; a parent dies only
in the step that takes its last reference away.

`TaskProofs` proves for any set of frames: `TypeCorrect`, `WakeUpsAreKept`
(`WakeUpsMatch`), `FramesDoNotDangle` (`NoDanglingFrame`) and `FramesDoNotLeak`
(`NoLeak`). The invariants are inductive only together with what the call stack
says of the frames: who executes, who called whom, and that a frame nobody owns
is either unfinished and detached or destroys itself.

`EventLoopProofs` proves, for any numbers of fds and coroutines and any size of a
batch, under `Mild` (each connection is used in one direction at a time and
none is reset, the two conditions whose absence the findings of
`event_loop_duplex` and `event_loop_reset` need): `TypeCorrect`,
`EventsStayValid` (`AssertionHolds`), `WaitersAreFound`
(`WaiterIsRegistered`), `ResumesAreGenuine` (`NoSpuriousResume`) and
`Refinement` (`Spec => ImplementsBlockingIO`). The heart is
`BatchInv`: an event that waits in the batch stays `Valid`, that is, the owner of
its fd still waits for it, it is what epoll was asked for, and it is still there.
A coroutine resumed by another event of the batch cannot invalidate it, because
the fds it may touch are those it owns, and it does not wait
(`RunnerIsFree`). `DroppedInv` says that a channel that only poll() keeps alive
has no registration.

`StepRefines` maps every step of a coroutine that opens, drops, reads, writes,
suspends or goes on to the step of `BlockingIO` of that meaning, a callback to
`Wake`, what a peer does to `Arrive`, and everything else to a stutter, the
destruction of a channel that poll() kept alive included. `BlockingIO` lets a
call wake up only when its fd is ready and return only with success on an fd
still open, and no call can wake up twice; besides `NoSpuriousResume` this takes
`ResumedOpen`: between the callback and the second `do_io` nobody closes the
channel. `NoSpuriousResume` is not checked by a run of its own, since the
refinement contains it: a coroutine in state "wild" is in no state of
`BlockingIO`.

`HandshakeProofs` proves for any number of clients and lengths: `TypeCorrect`,
`BothConnected` (`ConnectedBothWays`) and `NothingIsReset` (`NoReset`).
`ServerInv` and `KnownInv` order the two messages: a byte of the server's
answer is written only when the client's whole address was read.

`PerfTestProofs` proves for any number of workers, iterations and message size,
messages or bytes, `TypeCorrect` and `CounterBounded` (`CounterBound`). The bound
is inductive because it counts the operations in progress: a worker that posts
one has seen the counter below the total and is itself not among the waiting
ones, of which there are then at most `Concurrency - 1`.

`HelloWorldProofs` proves, for any finite set of clients and any positive number
of atomic operations, `TypeCorrect`, `BellsMeanDone` (`BellMeansDone`),
`HandlersClose` (`HandlersStayClose`) and `MemoryOutlives`
(`MemoryOutlivesAccess`). What a position of a script says of the past (bells
rung, answered or received, accesses finished, pieces of the stream sent or
read) is written as a function of the position (`RungAt`, `BellsAt`, ...); two
lemmas, `ClientCounts` and `HandlerCounts`, say how one step changes each of them. The
scripts themselves are taken apart once, at the start. The invariant is about counts:

* `CountInv`: the cardinalities in the properties are what the positions say;
* `OrderInv`: a client's tag messages arrive in order, the test first, bells after;
* `ReplyInv`: what is on the way from a handler to its own client is what it has
  sent and the client has not received;
* `BellInv`: no bell is lost or rings twice: those that have arrived are the
  unexpected ones and those some handler has taken, whichever handler that was;
* `AloneInv`: while conversations do not overlap, no handler has taken more bells
  than its own client's that arrived.

`HandlersClose` follows from `BellInv` and `ReplyInv` by counting (`UptoExcess`): a
client does not ring again before its handler has answered, so no client is
ahead of its handler by more than one bell, and what one handler has taken too
many the others lack, at most one each.

All of this rests on nothing but the modules' assumptions about their constants
(`ConstantsAssumption`, `ResourcesAssumption`, ...: special values differ from
each other, sizes are positive) and the hypotheses named in the theorems.

Only model-checked: the liveness properties (`CompletionResumes`,
`ReadyWaiterResumes`, `ConversationsEnd` and the like), which rest on fairness
and ENABLED, which the prover does not reason about. Every safety property of a
passing run is also stated by a theorem. Not provable are the properties of the
runs that find a violation.

## 6. Not modelled

* A `task` object handed to another scope or thread: a move changes only the
  name under which the frame is owned. No program of the repository runs tasks
  of one context on several threads.
* `worker::wait`, `fence`: they call UCX and change nothing on this side.
* `config` (read, modify, print) and the flags of `context::builder`: sequential
  text and bit sets, used before anything runs. That `enable_mt_` is not
  initialised is listed as a hazard; for one thread either value will do.
* Name resolution, socket options, `bind`/`listen` and their failures: sequential
  calls of the system before the first event.
* Option parsing, printing and time measurement of the examples.
* The main loop of `perftest` without `-e` (perftest.cc:307-316): it polls the
  event loop until `g_connected`, closes it and then only calls `progress()`
  until the worker's count is 1. `WorkerEpoll` is the loop with `-e`, which is
  that of `helloworld`, too.
* Signals: a write to a closed connection raises SIGPIPE (`do_io` calls plain
  `write`) and ends the process. `Handshake` has the same effect in
  `client_fails` and `server_fails`.
* `detail/` (serialisation, debug output, error texts).
* Short stream receives in `helloworld`, the order of one-sided and two-sided
  operations within UCX: behaviour of UCX that the code relies on without asking.

## 7. Plan

Done: Awaitable (with Operation), Task, EventLoop, Endpoint, WorkerEpoll,
Handshake, HelloWorld, PerfTest, Resources, and BlockingIO, in this order, with
the proofs of section 5.

Left, for whoever continues:

1. Composition of `Task` with `Awaitable`: a program of tasks whose leaves are
   UCX operations, refining a sequential program.
2. Short stream receives in `HelloWorld`.
