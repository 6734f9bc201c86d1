------------------------------ MODULE PerfTest ------------------------------
(***************************************************************************)
(* The benchmark of perftest.cc: the client runs a number of sender()      *)
(* coroutines at a time, the server as many receiver() coroutines, first   *)
(* for the warm-up and then for the measured run.  With test type tag an   *)
(* operation moves one message; with type stream a receive moves some      *)
(* bytes, at most a message's, and the server counts bytes.                *)
(*                                                                         *)
(* The workers of one side share one counter.  A worker tests the counter  *)
(* before it posts an operation and counts the operation when it is        *)
(* complete; other workers test and count in between.  client() and        *)
(* server() start all workers, await them one after the other and go on    *)
(* when all have returned.  The two sides are joined only by messages, all *)
(* with the same tag: what one side calls warm-up may be measured by the   *)
(* other.                                                                  *)
(***************************************************************************)
EXTENDS Naturals, FiniteSets

CONSTANTS
    Concurrency,        \* perf.concurrency
    WarmupIterations,   \* perf.warmup_iterations
    Iterations,         \* perf.iterations
    MessageSize         \* perf.message_size

ASSUME ConstantsAssumption ==
    /\ Concurrency \in Nat \ {0}
    /\ WarmupIterations \in Nat \ {0}
    /\ Iterations \in Nat \ {0}
    /\ MessageSize \in Nat \ {0}

VARIABLES
    test,               \* perf.test.first: "tag" or "stream"
    phase,              \* phase[s]: "warmup", "run" or "finished"
    counter,            \* counter[s]: g_counter of the program of side s
    worker,             \* worker[s][i]: "new", "active", "waiting" or "returned"
    flight,             \* messages, or bytes, sent and not received yet
    extra               \* history: what the server counted beyond its warm-up

vars == <<test, phase, counter, worker, flight, extra>>

Sides == {"client", "server"}
Workers == 1 .. Concurrency

\* The most one operation adds to the counter of side s.
Unit(s) == IF s = "server" /\ test = "stream" THEN MessageSize ELSE 1

Total(s) ==
    Unit(s) * IF phase[s] = "warmup" THEN WarmupIterations ELSE Iterations

Init ==
    /\ test \in {"tag", "stream"}
    /\ phase = [s \in Sides |-> "warmup"]
    /\ counter = [s \in Sides |-> 0]
    /\ worker = [s \in Sides |-> [i \in Workers |-> "new"]]
    /\ flight = 0
    /\ extra = 0

-----------------------------------------------------------------------------
\* Workers of side s that wait for the operation they have posted.
Waiting(s) == {i \in Workers : worker[s][i] = "waiting"}

\* One thread: nobody executes between the steps of an active worker.
NoneActive(s) == \A i \in Workers : worker[s][i] # "active"

\* client() or server() calls sender() or receiver(), which runs at once until
\* it waits or returns; then it calls the next.
create(s, i) ==
    /\ phase[s] # "finished"
    /\ NoneActive(s)
    /\ worker[s][i] = "new"
    /\ \A j \in 1 .. i - 1 : worker[s][j] # "new"
    /\ worker' = [worker EXCEPT ![s][i] = "active"]
    /\ UNCHANGED <<test, phase, counter, flight, extra>>

\* Seeded fault: the loop runs once more.
GoesOn_once_more(s, i) == worker[s][i] = "active" /\ counter[s] <= Total(s)

\* The loop's test of the shared counter.
GoesOn(s, i) == worker[s][i] = "active" /\ counter[s] < Total(s)

Sends(s) == s = "client" /\ flight' = flight + Unit("server")

\* Seeded fault: a receive is taken for complete without a message.
Receives_untested(s, n) == s = "server" /\ flight' = flight - n

Receives(s, n) == s = "server" /\ n <= flight /\ flight' = flight - n

\* The operation completes at once, the worker does not wait.  A message that
\* comes goes to a receive that was posted before, if there is one.
io_now(s, i) ==
    /\ GoesOn(s, i)
    /\ \E n \in 1 .. Unit(s) :
          /\ Sends(s) \/ (Receives(s, n) /\ Waiting(s) = {})
          /\ counter' = [counter EXCEPT ![s] = @ + n]
    /\ UNCHANGED <<test, phase, worker, extra>>

\* The operation is in progress: the worker waits.
io_pending(s, i) ==
    /\ GoesOn(s, i)
    /\ Sends(s) \/ (s = "server" /\ UNCHANGED flight)
    /\ worker' = [worker EXCEPT ![s][i] = "waiting"]
    /\ UNCHANGED <<test, phase, counter, extra>>

\* Worker progress completes the operation: the worker counts it and goes on.
\* Progress is not called before all workers were started.
io_done(s, i) ==
    /\ worker[s][i] = "waiting"
    /\ NoneActive(s)
    /\ \A j \in Workers : worker[s][j] # "new"
    /\ \E n \in 1 .. Unit(s) :
          /\ (s = "client" /\ UNCHANGED flight) \/ Receives(s, n)
          /\ counter' = [counter EXCEPT ![s] = @ + n]
    /\ worker' = [worker EXCEPT ![s][i] = "active"]
    /\ UNCHANGED <<test, phase, extra>>

\* Seeded fault: the loop ends only when the counter is the total.
return_on_equal(s, i) ==
    /\ worker[s][i] = "active"
    /\ counter[s] = Total(s)
    /\ worker' = [worker EXCEPT ![s][i] = "returned"]
    /\ UNCHANGED <<test, phase, counter, flight, extra>>

return(s, i) ==
    /\ worker[s][i] = "active"
    /\ counter[s] >= Total(s)
    /\ worker' = [worker EXCEPT ![s][i] = "returned"]
    /\ UNCHANGED <<test, phase, counter, flight, extra>>

\* The server's final report is to show iterations, not bytes.
Report(s) == IF s = "server" /\ test = "stream" THEN Iterations ELSE counter[s]

\* All workers were awaited: reset_report() and the measured run, or the final
\* report, flush and close.
next_phase(s) ==
    /\ phase[s] # "finished"
    /\ \A i \in Workers : worker[s][i] = "returned"
    /\ IF phase[s] = "warmup"
       THEN /\ phase' = [phase EXCEPT ![s] = "run"]
            /\ counter' = [counter EXCEPT ![s] = 0]
            /\ worker' = [worker EXCEPT ![s] = [i \in Workers |-> "new"]]
            /\ extra' = IF s = "server" THEN counter[s] - Total(s) ELSE extra
       ELSE /\ phase' = [phase EXCEPT ![s] = "finished"]
            /\ counter' = [counter EXCEPT ![s] = Report(s)]
            /\ UNCHANGED <<worker, extra>>
    /\ UNCHANGED <<test, flight>>

SideStep(s) ==
    \/ \E i \in Workers :
          \/ create(s, i)
          \/ io_now(s, i)
          \/ io_pending(s, i)
          \/ io_done(s, i)
          \/ return(s, i)
    \/ next_phase(s)

Next == \E s \in Sides : SideStep(s)

Spec == Init /\ [][Next]_vars

\* Both threads execute, and UCX completes what it can.
FairSpec == Spec /\ \A s \in Sides : WF_vars(SideStep(s))

-----------------------------------------------------------------------------
TypeOK ==
    /\ test \in {"tag", "stream"}
    /\ phase \in [Sides -> {"warmup", "run", "finished"}]
    /\ counter \in [Sides -> Nat]
    /\ worker \in [Sides -> [Workers -> {"new", "active", "waiting", "returned"}]]
    /\ flight \in Nat
    /\ extra \in Nat

\* The shared counter overshoots the total, because a worker tests it before it
\* posts and counts after; but by less than one operation per worker, operations
\* still in progress included.
CounterBound ==
    \A s \in Sides :
        counter[s] + Unit(s) * Cardinality(Waiting(s))
            < Total(s) + Unit(s) * Concurrency

\* Both programs finish, unless the server starves: everything there is was
\* received, and either its warm-up took messages of the measured run, or the
\* total is reached and a receive that another worker had posted is left over.
\* (The client's sends do not wait for the receives.)
FinishesUnlessStarved ==
    /\ <>(phase["client"] = "finished")
    /\ <>[](\/ phase["server"] = "finished"
            \/ /\ flight = 0
               /\ Waiting("server") # {}
               /\ extra > 0 \/ counter["server"] >= Total("server"))
============================================================================
