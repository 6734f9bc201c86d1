---------------------------- MODULE Operation ----------------------------
(***************************************************************************)
(* What a `co_await` of a communication operation promises to a coroutine, *)
(* whatever the operation is and however UCX completes it:                 *)
(*                                                                         *)
(*   - every operation settles at most once, with one status;              *)
(*   - it settles as canceled only if somebody asked for that;             *)
(*   - the coroutine observes each settled operation exactly once, and     *)
(*     sees a value if and only if the operation settled successfully.     *)
(*                                                                         *)
(* Awaitable.tla is shown to implement this specification.                 *)
(***************************************************************************)

CONSTANT Clients        \* coroutines, each awaits one operation at a time

VARIABLES
    phase,              \* phase[c]: "idle", "pending" or "settled"
    asked,              \* asked[c]: a cancel of c's operation was requested
    outcome,            \* outcome[c]: status of a settled operation
    result              \* result[c]: what c saw of its last operation

vars == <<phase, asked, outcome, result>>

Init ==
    /\ phase = [c \in Clients |-> "idle"]
    /\ asked = [c \in Clients |-> FALSE]
    /\ outcome = [c \in Clients |-> "none"]
    /\ result = [c \in Clients |-> "none"]

\* An operation is started and does not complete at once.
Submit(c) ==
    /\ phase[c] = "idle"
    /\ phase' = [phase EXCEPT ![c] = "pending"]
    /\ result' = [result EXCEPT ![c] = "none"]
    /\ UNCHANGED <<asked, outcome>>

\* An operation is started and completes, or is refused, at once.
SubmitNow(c) ==
    /\ phase[c] = "idle"
    /\ phase' = [phase EXCEPT ![c] = "settled"]
    /\ result' = [result EXCEPT ![c] = "none"]
    /\ \E s \in {"OK", "ERR"} : outcome' = [outcome EXCEPT ![c] = s]
    /\ UNCHANGED asked

\* Somebody asks for a pending operation to be canceled.
Ask(c) ==
    /\ phase[c] = "pending"
    /\ asked' = [asked EXCEPT ![c] = TRUE]
    /\ UNCHANGED <<phase, outcome, result>>

\* A pending operation settles.
Settle(c) ==
    /\ phase[c] = "pending"
    /\ phase' = [phase EXCEPT ![c] = "settled"]
    /\ \E s \in {"OK", "ERR"} \cup (IF asked[c] THEN {"CANCELED"} ELSE {}) :
          outcome' = [outcome EXCEPT ![c] = s]
    /\ asked' = [asked EXCEPT ![c] = FALSE]
    /\ UNCHANGED result

\* A request to cancel that takes effect at once.
Abort(c) ==
    /\ phase[c] = "pending"
    /\ phase' = [phase EXCEPT ![c] = "settled"]
    /\ outcome' = [outcome EXCEPT ![c] = "CANCELED"]
    /\ asked' = [asked EXCEPT ![c] = FALSE]
    /\ UNCHANGED result

\* The coroutine goes on and sees the outcome: a value or an exception.
Observe(c) ==
    /\ phase[c] = "settled"
    /\ phase' = [phase EXCEPT ![c] = "idle"]
    /\ result' = [result EXCEPT ![c] =
                    IF outcome[c] = "OK" THEN "value" ELSE "throw"]
    /\ outcome' = [outcome EXCEPT ![c] = "none"]
    /\ UNCHANGED asked

Next ==
    \E c \in Clients :
        \/ Submit(c)
        \/ SubmitNow(c)
        \/ Ask(c)
        \/ Settle(c)
        \/ Abort(c)
        \/ Observe(c)

Spec == Init /\ [][Next]_vars
==========================================================================
