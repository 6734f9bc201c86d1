----------------------------- MODULE BlockingIO -----------------------------
(***************************************************************************)
(* What a co_await of a read, write or accept promises to a coroutine: it  *)
(* behaves like a call that blocks.                                        *)
(*                                                                         *)
(*   - the call returns only when the fd is ready, and then it succeeds:   *)
(*     nobody else takes what woke it up;                                  *)
(*   - it returns once, to the coroutine that made it;                     *)
(*   - its fd is neither closed nor given out again before that.           *)
(*                                                                         *)
(* EventLoop.tla is shown to implement this specification as long as each  *)
(* connection is used in one direction at a time and none is reset.        *)
(***************************************************************************)

CONSTANTS
    Fds,            \* file descriptors
    Coros,          \* coroutines
    NoCall          \* what a coroutine that was not blocked yet awaits

VARIABLES
    opened,         \* fds that are open
    ready,          \* ready[fd]: directions that would not block
    state,          \* state[c]: "runs", "wait" (blocked) or "resumed"
    call            \* call[c]: fd and direction c is blocked in

vars == <<opened, ready, state, call>>

Directions == {"in", "out"}
Call(fd, d) == [fd |-> fd, events |-> {d}]

Init ==
    /\ opened = {}
    /\ ready = [fd \in Fds |-> {}]
    /\ state = [c \in Coros |-> "runs"]
    /\ call = [c \in Coros |-> NoCall]

\* A fresh connection, or an fd that is used again: nothing is left in it.
Open(fd) ==
    /\ fd \notin opened
    /\ opened' = opened \cup {fd}
    /\ ready' = [ready EXCEPT ![fd] = {}]
    /\ UNCHANGED <<state, call>>

Close(fd) ==
    /\ fd \in opened
    /\ \A c \in Coros : state[c] # "runs" => call[c].fd # fd
    /\ opened' = opened \ {fd}
    /\ UNCHANGED <<ready, state, call>>

\* Some data is moved, perhaps the last.
Moves(fd, d) ==
    /\ d \in ready[fd]
    /\ ready' \in {ready, [ready EXCEPT ![fd] = @ \ {d}]}

\* A call that does not block.
Transfer(fd, d) ==
    /\ fd \in opened
    /\ \A c \in Coros : state[c] # "runs" => call[c] # Call(fd, d)
    /\ Moves(fd, d)
    /\ UNCHANGED <<opened, state, call>>

Block(c, fd, d) ==
    /\ state[c] = "runs"
    /\ fd \in opened
    /\ d \notin ready[fd]
    /\ \A b \in Coros : state[b] # "runs" => call[b] # Call(fd, d)
    /\ state' = [state EXCEPT ![c] = "wait"]
    /\ call' = [call EXCEPT ![c] = Call(fd, d)]
    /\ UNCHANGED <<opened, ready>>

Wake(c) ==
    /\ state[c] = "wait"
    /\ call[c].events \subseteq ready[call[c].fd]
    /\ state' = [state EXCEPT ![c] = "resumed"]
    /\ UNCHANGED <<opened, ready, call>>

\* The call returns; it never has to say that it would block.
Return(c) ==
    /\ state[c] = "resumed"
    /\ \E fd \in opened, d \in Directions : call[c] = Call(fd, d) /\ Moves(fd, d)
    /\ state' = [state EXCEPT ![c] = "runs"]
    /\ call' = [call EXCEPT ![c] = NoCall]
    /\ UNCHANGED opened

\* The peer sends or reads something.
Arrive(fd, d) ==
    /\ fd \in opened
    /\ ready' = [ready EXCEPT ![fd] = @ \cup {d}]
    /\ UNCHANGED <<opened, state, call>>

Next ==
    \/ \E fd \in Fds : Open(fd) \/ Close(fd)
    \/ \E fd \in Fds, d \in Directions : Transfer(fd, d) \/ Arrive(fd, d)
    \/ \E c \in Coros, fd \in Fds, d \in Directions : Block(c, fd, d)
    \/ \E c \in Coros : Wake(c) \/ Return(c)

Spec == Init /\ [][Next]_vars
=============================================================================
