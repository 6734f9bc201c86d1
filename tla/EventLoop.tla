----------------------------- MODULE EventLoop -----------------------------
(***************************************************************************)
(* The epoll loop of examples/socket: event_loop, channel and the way the  *)
(* awaitables of tcp_connection and tcp_listener use them.                 *)
(*                                                                         *)
(* A coroutine that cannot read, write or accept at once stores its handle *)
(* in the channel's readable or writable callback and registers the fd     *)
(* with epoll and with the loop's table channels_.  poll() takes a batch   *)
(* of events and, for each, looks the channel up, removes the registration *)
(* and calls the callback, which resumes the coroutine on top of poll();   *)
(* coroutines register, close and open fds while the rest of the batch     *)
(* waits.  A channel is identified with its fd; the kernel gives a closed  *)
(* fd out again.                                                           *)
(***************************************************************************)
EXTENDS Naturals, FiniteSets

CONSTANTS
    Fds,            \* file descriptors of channels
    Coros,          \* coroutines
    nullptr,        \* noop_callback, no owner, no fd
    Loop,           \* event_loop::poll and its caller
    MaxEvents,      \* max_events_, the size of a batch
    FullDuplex,     \* client: one coroutine may read while another one writes
    Errors          \* environment: connections may be reset (EPOLLERR)

ASSUME ConstantsAssumption ==
    /\ nullptr \notin Fds \cup Coros
    /\ Loop \notin Coros
    /\ MaxEvents \in Nat \ {0}
    /\ FullDuplex \in BOOLEAN /\ Errors \in BOOLEAN

VARIABLES
    channel,        \* channel[fd]: "closed", "open" or "dropped" (see drop)
    owner,          \* owner[fd]: the coroutine that opened it
    readable_callback,  \* per fd: the coroutine it resumes, or nullptr (noop)
    writable_callback,
    channels,       \* keys of event_loop::channels_
    epoll,          \* epoll[fd]: interest in the kernel, "none", "in" or "out"
    ready,          \* ready[fd]: what the kernel would report
    pc,             \* pc[c]: "none", "run", "wait", "resumed" or "wild"
    at,             \* at[c]: fd and direction of the operation c awaits
    top,            \* who executes
    phase,          \* where poll() stands
    batch,          \* batch[fd]: events returned by epoll_wait, not yet handled
    cur,            \* fd and events poll() is handling
    closing         \* close_event_fd_ was written

ioVars == <<readable_callback, writable_callback, channels, epoll>>
fdVars == <<channel, owner>>
coroVars == <<pc, at, top>>
pollVars == <<phase, batch, cur>>
vars == <<fdVars, ioVars, ready, coroVars, pollVars, closing>>

Directions == {"in", "out"}

\* "reset" stands for a connection the peer has reset: reads and writes do not
\* block any more.  It comes with EPOLLERR until the error is read.
Conditions == Directions \cup {"err", "reset"}
Phases == {"poll", "dispatch", "readable", "readable done", "writable",
           "writable done", "stopped", "assertion failed"}
NoFd == [fd |-> nullptr, events |-> {}]

Init ==
    /\ channel = [fd \in Fds |-> "closed"]
    /\ owner = [fd \in Fds |-> nullptr]
    /\ readable_callback = [fd \in Fds |-> nullptr]
    /\ writable_callback = [fd \in Fds |-> nullptr]
    /\ channels = {}
    /\ epoll = [fd \in Fds |-> "none"]
    /\ ready = [fd \in Fds |-> {}]
    /\ pc = [c \in Coros |-> "none"]
    /\ at = [c \in Coros |-> NoFd]
    /\ top = Loop
    /\ phase = "poll"
    /\ batch = [fd \in {} |-> {}]
    /\ cur = NoFd
    /\ closing = FALSE

-----------------------------------------------------------------------------
(* Coroutines. *)

Runs(c) == top = c /\ pc[c] = "run"

\* Between two calls of poll() the program starts a coroutine.
start(c) ==
    /\ phase = "poll"
    /\ top = Loop
    /\ pc[c] = "none"
    /\ pc' = [pc EXCEPT ![c] = "run"]
    /\ top' = c
    /\ UNCHANGED <<fdVars, ioVars, ready, at, pollVars, closing>>

\* socket() or accept() and the channel made for its fd.
open(c, fd) ==
    /\ Runs(c)
    /\ channel[fd] = "closed"
    /\ channel' = [channel EXCEPT ![fd] = "open"]
    /\ owner' = [owner EXCEPT ![fd] = c]
    /\ ready' = [ready EXCEPT ![fd] = {}]
    /\ UNCHANGED <<ioVars, coroVars, pollVars, closing>>

\* Seeded fault: deregister() forgets EPOLL_CTL_DEL.
epoll_ctl_del_not(fd) == UNCHANGED epoll

epoll_ctl_del(fd) == epoll' = [epoll EXCEPT ![fd] = "none"]

deregister(fd) ==
    /\ epoll_ctl_del(fd)
    /\ channels' = channels \ {fd}

\* ~channel
destroy_channel(fd) ==
    /\ deregister(fd)
    /\ channel' = [channel EXCEPT ![fd] = "closed"]
    /\ owner' = [owner EXCEPT ![fd] = nullptr]
    /\ readable_callback' = [readable_callback EXCEPT ![fd] = nullptr]
    /\ writable_callback' = [writable_callback EXCEPT ![fd] = nullptr]

\* A suspended awaitable holds a reference to its channel.
InUse(fd) == \E c \in Coros : pc[c] = "wait" /\ at[c].fd = fd

\* The owner drops its reference to the channel.  poll() holds one while it
\* handles the fd's event, then ~channel waits for the end of that.
drop(c, fd) ==
    /\ Runs(c)
    /\ owner[fd] = c
    /\ channel[fd] = "open"
    /\ ~InUse(fd)
    /\ IF cur.fd = fd
       THEN /\ channel' = [channel EXCEPT ![fd] = "dropped"]
            /\ UNCHANGED <<owner, ioVars>>
       ELSE destroy_channel(fd)
    /\ UNCHANGED <<ready, coroVars, pollVars, closing>>

\* c may read, write or accept on fd: its own, or another coroutine's in the
\* direction that coroutine does not wait for.
MayUse(c, fd, d) ==
    /\ channel[fd] = "open"
    /\ owner[fd] = c \/ FullDuplex
    /\ \A b \in Coros : ~(pc[b] = "wait" /\ at[b] = [fd |-> fd, events |-> {d}])

\* do_io does not return EAGAIN: some data is moved, or an error is consumed
\* and thrown.  Used by await_ready and by await_resume.
do_io(fd, d) ==
    /\ d \in ready[fd]
    /\ \E left \in IF "reset" \in ready[fd] THEN {ready[fd] \ {"err"}}
                   ELSE {ready[fd], ready[fd] \ {d}} :
          ready' = [ready EXCEPT ![fd] = left]

io_now(c, fd, d) ==
    /\ Runs(c)
    /\ MayUse(c, fd, d)
    /\ do_io(fd, d)
    /\ UNCHANGED <<fdVars, ioVars, coroVars, pollVars, closing>>

\* Seeded fault: every event is asked for.
Interest_all(d) == "all"

\* register_read, register_write
Interest(d) == d

\* register_channel: insert into channels_, EPOLL_CTL_ADD; an fd that epoll
\* already has is refused with EEXIST, then the entry is erased and the
\* exception leaves co_await.
register_channel(c, fd, d) ==
    IF epoll[fd] = "none"
    THEN /\ channels' = channels \cup {fd}
         /\ epoll' = [epoll EXCEPT ![fd] = Interest(d)]
         /\ pc' = [pc EXCEPT ![c] = "wait"]
         /\ at' = [at EXCEPT ![c] = [fd |-> fd, events |-> {d}]]
         /\ top' = Loop
    ELSE /\ channels' = channels \ {fd}
         /\ UNCHANGED <<epoll, coroVars>>

\* Seeded fault: a writer stores its handle in the readable callback.
set_callback_readable(c, fd, d) ==
    /\ readable_callback' = [readable_callback EXCEPT ![fd] = c]
    /\ UNCHANGED writable_callback

set_callback(c, fd, d) ==
    IF d = "in"
    THEN /\ readable_callback' = [readable_callback EXCEPT ![fd] = c]
         /\ UNCHANGED writable_callback
    ELSE /\ writable_callback' = [writable_callback EXCEPT ![fd] = c]
         /\ UNCHANGED readable_callback

\* do_io returned EAGAIN: await_suspend.
await_suspend(c, fd, d) ==
    /\ Runs(c)
    /\ MayUse(c, fd, d)
    /\ d \notin ready[fd]
    /\ set_callback(c, fd, d)
    /\ register_channel(c, fd, d)
    /\ UNCHANGED <<fdVars, ready, pollVars, closing>>

\* The second do_io; EAGAIN would be thrown as an error.
await_resume(c) ==
    /\ top = c
    /\ pc[c] = "resumed"
    /\ LET fd == at[c].fd
           d == CHOOSE e \in at[c].events : TRUE
       IN IF d \in ready[fd] THEN do_io(fd, d) ELSE UNCHANGED ready
    /\ pc' = [pc EXCEPT ![c] = "run"]
    /\ at' = [at EXCEPT ![c] = NoFd]
    /\ UNCHANGED <<fdVars, ioVars, top, pollVars, closing>>

\* The coroutine ends, its channels are gone.
finish(c) ==
    /\ Runs(c)
    /\ \A fd \in Fds : owner[fd] = c => channel[fd] = "dropped"
    /\ pc' = [pc EXCEPT ![c] = "none"]
    /\ top' = Loop
    /\ UNCHANGED <<fdVars, ioVars, ready, at, pollVars, closing>>

-----------------------------------------------------------------------------
(* event_loop::poll *)

\* What epoll_wait reports for an fd that is registered.
Reported(fd) == ready[fd] \cap {epoll[fd], "err"}
Pending == {fd \in Fds : epoll[fd] # "none" /\ Reported(fd) # {}}

epoll_wait ==
    /\ phase = "poll"
    /\ top = Loop
    /\ \E B \in SUBSET Pending :
          /\ B # {}
          /\ Cardinality(B) <= MaxEvents
          /\ batch' = [fd \in B |-> Reported(fd)]
    /\ phase' = "dispatch"
    /\ UNCHANGED <<fdVars, ioVars, ready, coroVars, cur, closing>>

\* loop() ends after the batch in which the close event is seen.
stop ==
    /\ phase = "poll"
    /\ top = Loop
    /\ closing
    /\ phase' = "stopped"
    /\ UNCHANGED <<fdVars, ioVars, ready, coroVars, batch, cur, closing>>

\* The next event: the channel must be in channels_ (assert), and alive.
dispatch(fd) ==
    /\ phase = "dispatch"
    /\ fd \in DOMAIN batch
    /\ batch' = [g \in DOMAIN batch \ {fd} |-> batch[g]]
    /\ IF fd \in channels
       THEN /\ phase' = "readable"
            /\ cur' = [fd |-> fd, events |-> batch[fd]]
       ELSE /\ phase' = "assertion failed"
            /\ UNCHANGED cur
    /\ UNCHANGED <<fdVars, ioVars, ready, coroVars, closing>>

\* channel::readable_callback and writable_callback: deregister, then resume
\* the coroutine whose handle is stored there, if any.
callback(c) ==
    /\ deregister(cur.fd)
    /\ IF c = nullptr
       THEN UNCHANGED <<pc, top>>
       ELSE /\ pc' = [pc EXCEPT ![c] = IF @ = "wait" THEN "resumed" ELSE "wild"]
            /\ top' = c

readable ==
    /\ phase = "readable"
    /\ IF cur.events \cap {"in", "err"} # {}
       THEN callback(readable_callback[cur.fd]) /\ phase' = "readable done"
       ELSE phase' = "writable" /\ UNCHANGED <<epoll, channels, pc, top>>
    /\ UNCHANGED <<fdVars, readable_callback, writable_callback, ready, at, batch,
                   cur, closing>>

\* After EPOLLERR the entry of channels_ is erased.
erase_on_error ==
    channels' = IF "err" \in cur.events THEN channels \ {cur.fd} ELSE channels

readable_done ==
    /\ phase = "readable done"
    /\ top = Loop
    /\ erase_on_error
    /\ phase' = "writable"
    /\ UNCHANGED <<fdVars, readable_callback, writable_callback, epoll, ready,
                   coroVars, batch, cur, closing>>

\* Seeded faults: poll() calls the writable callback whatever the event is, or
\* only for EPOLLERR.
CallsWritable_always == TRUE
CallsWritable_on_error == "err" \in cur.events

CallsWritable == cur.events \cap {"out", "err"} # {}

\* The second half of an event.
writable ==
    /\ phase = "writable"
    /\ IF CallsWritable
       THEN callback(writable_callback[cur.fd])
       ELSE UNCHANGED <<epoll, channels, pc, top>>
    /\ phase' = "writable done"
    /\ UNCHANGED <<fdVars, readable_callback, writable_callback, ready, at, batch,
                   cur, closing>>

\* The end of an event: poll() drops its reference to the channel.
writable_done ==
    /\ phase = "writable done"
    /\ top = Loop
    /\ IF channel[cur.fd] = "dropped"
       THEN destroy_channel(cur.fd)
       ELSE erase_on_error /\ UNCHANGED <<fdVars, readable_callback,
                                          writable_callback, epoll>>
    /\ phase' = IF DOMAIN batch = {} THEN "poll" ELSE "dispatch"
    /\ cur' = NoFd
    /\ UNCHANGED <<ready, coroVars, batch, closing>>

-----------------------------------------------------------------------------
(* The environment: peers, and whoever calls close(). *)

Arrivals == {{"in"}, {"out"}} \cup (IF Errors THEN {Conditions} ELSE {})

arrive(fd, new) ==
    /\ channel[fd] = "open"
    /\ ~(new \subseteq ready[fd])
    /\ "reset" \notin ready[fd]
    /\ ready' = [ready EXCEPT ![fd] = @ \cup new]
    /\ UNCHANGED <<fdVars, ioVars, coroVars, pollVars, closing>>

close ==
    /\ ~closing
    /\ closing' = TRUE
    /\ UNCHANGED <<fdVars, ioVars, ready, coroVars, pollVars>>

-----------------------------------------------------------------------------
CoroStep(c) ==
    \/ start(c)
    \/ \E fd \in Fds : open(c, fd) \/ drop(c, fd)
    \/ \E fd \in Fds, d \in Directions : io_now(c, fd, d) \/ await_suspend(c, fd, d)
    \/ await_resume(c)
    \/ finish(c)

Poll ==
    \/ epoll_wait
    \/ \E fd \in Fds : dispatch(fd)
    \/ readable
    \/ readable_done
    \/ writable
    \/ writable_done
    \/ stop

Next ==
    \/ \E c \in Coros : CoroStep(c)
    \/ Poll
    \/ \E fd \in Fds, new \in Arrivals : arrive(fd, new)
    \/ close

Spec == Init /\ [][Next]_vars

\* The program keeps calling poll(), and epoll_wait rotates through the ready
\* fds, so that none is left out of the batches for ever.
Wakes(fd) == epoll_wait /\ fd \in DOMAIN batch'
FairSpec == /\ Spec
            /\ SF_vars(Poll)
            /\ \A fd \in Fds : SF_vars(Wakes(fd))
-----------------------------------------------------------------------------
TypeOK ==
    /\ channel \in [Fds -> {"closed", "open", "dropped"}]
    /\ owner \in [Fds -> Coros \cup {nullptr}]
    /\ readable_callback \in [Fds -> Coros \cup {nullptr}]
    /\ writable_callback \in [Fds -> Coros \cup {nullptr}]
    /\ channels \subseteq Fds
    /\ epoll \in [Fds -> Directions \cup {"none"}]
    /\ ready \in [Fds -> SUBSET Conditions]
    /\ pc \in [Coros -> {"none", "run", "wait", "resumed", "wild"}]
    /\ at \in [Coros -> [fd : Fds \cup {nullptr}, events : SUBSET Directions]]
    /\ top \in Coros \cup {Loop}
    /\ phase \in Phases
    /\ DOMAIN batch \subseteq Fds
    /\ \A fd \in DOMAIN batch : batch[fd] \subseteq Conditions
    /\ cur \in [fd : Fds \cup {nullptr}, events : SUBSET Conditions]
    /\ closing \in BOOLEAN

\* assert(it != channels_.end()): every event of a batch finds its channel,
\* whatever the coroutines resumed by earlier events of the batch did.
AssertionHolds == phase # "assertion failed"

\* A suspended coroutine will be found: its fd is registered with epoll for
\* the direction it waits for, and the callback of that direction resumes it.
WaiterIsRegistered ==
    \A c \in Coros : pc[c] = "wait" =>
        LET fd == at[c].fd IN
        /\ channel[fd] = "open"
        /\ fd \in channels
        /\ at[c].events = {epoll[fd]}
        /\ c = IF epoll[fd] = "in" THEN readable_callback[fd]
                                   ELSE writable_callback[fd]

\* The second do_io happens after the fd became readable or writable: it
\* cannot fail with EAGAIN.
ResumedWhenReady ==
    \A c \in Coros : pc[c] = "resumed" => at[c].events \subseteq ready[at[c].fd]

\* A callback resumes only the coroutine that waits for this event: never one
\* that waits for something else, runs already or is finished.
NoSpuriousResume == ResumedWhenReady /\ \A c \in Coros : pc[c] # "wild"

\* A co_await of a read, write or accept behaves like a call that blocks:
\* the loop, its table, its batches and its callbacks do not show.
Opened == {fd \in Fds : channel[fd] = "open"}
State == [c \in Coros |-> IF pc[c] \in {"none", "run"} THEN "runs" ELSE pc[c]]

IO == INSTANCE BlockingIO WITH opened <- Opened, state <- State, call <- at, NoCall <- NoFd

ImplementsBlockingIO == IO!Spec

\* A coroutine that waits for an fd that is ready is resumed, unless the loop
\* is closed or the coroutines keep the thread for themselves.
ReadyWaiterResumes ==
    []<>(top = Loop) =>
        \A c \in Coros :
            (pc[c] = "wait" /\ at[c].events \subseteq ready[at[c].fd])
            ~> (pc[c] = "resumed" \/ closing)
============================================================================
