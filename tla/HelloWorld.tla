----------------------------- MODULE HelloWorld -----------------------------
(***************************************************************************)
(* The conversation of helloworld.cc: client() and the coroutine           *)
(* handle_endpoint() that the server starts for every client.  The two     *)
(* exchange tag messages and streams, the client reads and writes memory   *)
(* in the handler's frame, and a bell, a tag message, tells the other side *)
(* that it may go on.                                                      *)
(*                                                                         *)
(* Streams belong to an endpoint, but tags to a worker: all handlers of    *)
(* the server receive from the same one, with the same tags.  A message    *)
(* goes to the receive that was posted first, whichever handler's it is.   *)
(*                                                                         *)
(* A coroutine is the sequence of its co_awaits, each an operation and     *)
(* what it is about.  A stream receive is taken to get what one send sent, *)
(* and get, put and the atomics to be complete at the server when their    *)
(* co_await returns.                                                       *)
(***************************************************************************)
EXTENDS Naturals, Sequences, SequencesExt, FiniteSets

CONSTANTS
    Clients,        \* client programs, one endpoint and one handler each
    Atomics         \* how many atomic operations a client does; 6 in the code

ASSUME ConstantsAssumption ==
    /\ IsFiniteSet(Clients)
    /\ Atomics \in Nat \ {0}

VARIABLES
    client,         \* client[c]: index of c's next co_await, 0 before it connects
    handler,        \* handler[c]: the same of the handler of c
    up,             \* up[c]: tag messages from c to the server, in order
    posted,         \* posted[t]: handlers that wait for a message with tag t
    unexpected,     \* unexpected[t]: messages the server's worker has kept
    down,           \* down[c][t]: messages to c with tag t
    stream_up,      \* stream_up[c]: sends not received yet, from c
    stream_down,    \*               ... and to c
    strayed,        \* clients that accessed memory which was gone
    alone           \* history: no two conversations overlapped so far

tagVars == <<up, posted, unexpected, down>>
streamVars == <<stream_up, stream_down>>
historyVars == <<strayed, alone>>
vars == <<client, handler, tagVars, streamVars, historyVars>>

Tags == {"test", "bell"}

Init ==
    /\ client = [c \in Clients |-> 0]
    /\ handler = [c \in Clients |-> 0]
    /\ up = [c \in Clients |-> <<>>]
    /\ posted = [t \in Tags |-> <<>>]
    /\ unexpected = [t \in Tags |-> 0]
    /\ down = [c \in Clients |-> [t \in Tags |-> 0]]
    /\ stream_up = [c \in Clients |-> 0]
    /\ stream_down = [c \in Clients |-> 0]
    /\ strayed = {}
    /\ alone = TRUE

-----------------------------------------------------------------------------
(* What the coroutines await, in order. *)

\* s, n times over.
Times(n, s) == [i \in 1 .. n * Len(s) |-> s[((i - 1) % Len(s)) + 1]]

\* Address, length of the key, key.
receive_mr == Times(3, << <<"stream_recv", "memory">> >>)
send_mr == Times(3, << <<"stream_send", "memory">> >>)

Finish == << <<"flush", "ep">>, <<"close", "ep">> >>

ClientStart ==
    << <<"tag_recv", "test">>, <<"tag_send", "test">>,
       <<"stream_recv", "hello">>, <<"stream_send", "world">> >>

\* Seeded faults: the client rings the bell before it writes to the memory, or
\* does not wait for the handler's bell.
ClientAccess_bell_first ==
    << <<"get", "buffer">>, <<"tag_send", "bell">>, <<"put", "buffer">> >>
ClientAtomic_no_wait == << <<"atomic", "value">>, <<"tag_send", "bell">> >>

ClientAccess ==
    << <<"get", "buffer">>, <<"put", "buffer">>, <<"tag_send", "bell">> >>
ClientAtomic ==
    << <<"atomic", "value">>, <<"tag_send", "bell">>, <<"tag_recv", "bell">> >>

client_script ==
    ClientStart \o receive_mr \o ClientAccess
    \o receive_mr \o Times(Atomics, ClientAtomic) \o Finish

HandlerStart ==
    << <<"tag_send", "test">>, <<"tag_recv", "test">>,
       <<"stream_send", "hello">>, <<"stream_recv", "world">> >>

HandlerBell == << <<"tag_recv", "bell">> >>
HandlerAtomic == << <<"tag_recv", "bell">>, <<"tag_send", "bell">> >>

\* Seeded fault: the handler leaves one atomic operation out.
HandlerAtomics_short == Times(Atomics - 1, HandlerAtomic)

HandlerAtomics == Times(Atomics, HandlerAtomic)

handle_endpoint ==
    HandlerStart \o send_mr \o HandlerBell \o send_mr
    \o HandlerAtomics \o Finish

-----------------------------------------------------------------------------
ClientRuns(c) == client[c] \in DOMAIN client_script /\ c \notin strayed
ClientAwaits(c, op) == ClientRuns(c) /\ client_script[client[c]][1] = op
ClientArg(c) == client_script[client[c]][2]
ClientGoesOn(c) == client' = [client EXCEPT ![c] = @ + 1]

HandlerRuns(c) == handler[c] \in DOMAIN handle_endpoint
HandlerAwaits(c, op) == HandlerRuns(c) /\ handle_endpoint[handler[c]][1] = op
HandlerArg(c) == handle_endpoint[handler[c]][2]
HandlerGoesOn(c) == handler' = [handler EXCEPT ![c] = @ + 1]

\* c and the server have endpoints to each other; server() starts the handler.
connect(c) ==
    /\ client[c] = 0
    /\ client' = [client EXCEPT ![c] = 1]
    /\ handler' = [handler EXCEPT ![c] = 1]
    /\ alone' = (alone /\ \A d \in Clients : ~ClientRuns(d) /\ ~HandlerRuns(d))
    /\ UNCHANGED <<tagVars, streamVars, strayed>>

-----------------------------------------------------------------------------
(* The client. *)

client_tag_send(c) ==
    /\ ClientAwaits(c, "tag_send")
    /\ up' = [up EXCEPT ![c] = Append(@, ClientArg(c))]
    /\ ClientGoesOn(c)
    /\ UNCHANGED <<handler, posted, unexpected, down, streamVars, historyVars>>

client_tag_recv(c) ==
    /\ ClientAwaits(c, "tag_recv")
    /\ down[c][ClientArg(c)] > 0
    /\ down' = [down EXCEPT ![c][ClientArg(c)] = @ - 1]
    /\ ClientGoesOn(c)
    /\ UNCHANGED <<handler, up, posted, unexpected, streamVars, historyVars>>

client_stream_send(c) ==
    /\ ClientAwaits(c, "stream_send")
    /\ stream_up' = [stream_up EXCEPT ![c] = @ + 1]
    /\ ClientGoesOn(c)
    /\ UNCHANGED <<handler, tagVars, stream_down, historyVars>>

client_stream_recv(c) ==
    /\ ClientAwaits(c, "stream_recv")
    /\ stream_down[c] > 0
    /\ stream_down' = [stream_down EXCEPT ![c] = @ - 1]
    /\ ClientGoesOn(c)
    /\ UNCHANGED <<handler, tagVars, stream_up, historyVars>>

\* The memory is in the handler's frame: it goes, with its registration, when
\* the handler ends.
Accesses(c) == \E op \in {"get", "put", "atomic"} : ClientAwaits(c, op)

client_access(c) ==
    /\ Accesses(c)
    /\ HandlerRuns(c)
    /\ ClientGoesOn(c)
    /\ UNCHANGED <<handler, tagVars, streamVars, historyVars>>

\* What UCX and the client do then is not defined; the client stops here.
client_strays(c) ==
    /\ Accesses(c)
    /\ ~HandlerRuns(c)
    /\ strayed' = strayed \cup {c}
    /\ UNCHANGED <<client, handler, tagVars, streamVars, alone>>

client_ends(c) ==
    /\ ClientAwaits(c, "flush") \/ ClientAwaits(c, "close")
    /\ ClientGoesOn(c)
    /\ UNCHANGED <<handler, tagVars, streamVars, historyVars>>

-----------------------------------------------------------------------------
(* The server. *)

handler_tag_send(c) ==
    /\ HandlerAwaits(c, "tag_send")
    /\ down' = [down EXCEPT ![c][HandlerArg(c)] = @ + 1]
    /\ HandlerGoesOn(c)
    /\ UNCHANGED <<client, up, posted, unexpected, streamVars, historyVars>>

\* Seeded fault: a message that came before the receive is not found.
Finds_not(t) == FALSE

Finds(t) == unexpected[t] > 0

\* A message is there, or the receive is posted and the handler waits.
handler_tag_recv(c) ==
    /\ HandlerAwaits(c, "tag_recv")
    /\ \A t \in Tags : c \notin ToSet(posted[t])
    /\ LET t == HandlerArg(c) IN
          IF Finds(t)
          THEN /\ unexpected' = [unexpected EXCEPT ![t] = @ - 1]
               /\ HandlerGoesOn(c)
               /\ UNCHANGED posted
          ELSE /\ posted' = [posted EXCEPT ![t] = Append(@, c)]
               /\ UNCHANGED <<unexpected, handler>>
    /\ UNCHANGED <<client, up, down, streamVars, historyVars>>

handler_stream_send(c) ==
    /\ HandlerAwaits(c, "stream_send")
    /\ stream_down' = [stream_down EXCEPT ![c] = @ + 1]
    /\ HandlerGoesOn(c)
    /\ UNCHANGED <<client, tagVars, stream_up, historyVars>>

handler_stream_recv(c) ==
    /\ HandlerAwaits(c, "stream_recv")
    /\ stream_up[c] > 0
    /\ stream_up' = [stream_up EXCEPT ![c] = @ - 1]
    /\ HandlerGoesOn(c)
    /\ UNCHANGED <<client, tagVars, stream_down, historyVars>>

handler_ends(c) ==
    /\ HandlerAwaits(c, "flush") \/ HandlerAwaits(c, "close")
    /\ HandlerGoesOn(c)
    /\ UNCHANGED <<client, tagVars, streamVars, historyVars>>

\* Seeded fault: the receive is not taken from the queue when it is complete.
Takes_not(t) == UNCHANGED posted

Takes(t) == posted' = [posted EXCEPT ![t] = Tail(@)]

\* Tag matching in the server's worker.
arrive(c) ==
    /\ up[c] # <<>>
    /\ up' = [up EXCEPT ![c] = Tail(@)]
    /\ LET t == Head(up[c]) IN
          IF posted[t] # <<>>
          THEN /\ Takes(t)
               /\ HandlerGoesOn(Head(posted[t]))
               /\ UNCHANGED unexpected
          ELSE /\ unexpected' = [unexpected EXCEPT ![t] = @ + 1]
               /\ UNCHANGED <<posted, handler>>
    /\ UNCHANGED <<client, down, streamVars, historyVars>>

-----------------------------------------------------------------------------
ClientStep(c) ==
    \/ client_tag_send(c)
    \/ client_tag_recv(c)
    \/ client_stream_send(c)
    \/ client_stream_recv(c)
    \/ client_access(c)
    \/ client_strays(c)
    \/ client_ends(c)

HandlerStep(c) ==
    \/ handler_tag_send(c)
    \/ handler_tag_recv(c)
    \/ handler_stream_send(c)
    \/ handler_stream_recv(c)
    \/ handler_ends(c)

Next ==
    \E c \in Clients : connect(c) \/ ClientStep(c) \/ HandlerStep(c) \/ arrive(c)

Spec == Init /\ [][Next]_vars

\* All programs run, and messages arrive.
FairSpec ==
    /\ Spec
    /\ \A c \in Clients :
          WF_vars(ClientStep(c)) /\ WF_vars(HandlerStep(c)) /\ WF_vars(arrive(c))

-----------------------------------------------------------------------------
TypeOK ==
    /\ client \in [Clients -> 0 .. Len(client_script) + 1]
    /\ handler \in [Clients -> 0 .. Len(handle_endpoint) + 1]
    /\ up \in [Clients -> Seq(Tags)]
    /\ posted \in [Tags -> Seq(Clients)]
    /\ unexpected \in [Tags -> Nat]
    /\ down \in [Clients -> [Tags -> Nat]]
    /\ stream_up \in [Clients -> Nat]
    /\ stream_down \in [Clients -> Nat]
    /\ strayed \subseteq Clients
    /\ alone \in BOOLEAN
    \* A handler waits for one message at a time, the one its co_await names.
    /\ \A t \in Tags, c \in Clients :
          c \in ToSet(posted[t]) => HandlerAwaits(c, "tag_recv") /\ HandlerArg(c) = t

\* Bells the handler of c has received: each makes it print what c has done.
Bells(c) ==
    Cardinality({i \in 1 .. handler[c] - 1 : handle_endpoint[i] = <<"tag_recv", "bell">>})

\* Accesses that c has finished and that a bell is to announce.
Written(c) ==
    Cardinality({i \in 1 .. client[c] - 1 : client_script[i][1] \in {"put", "atomic"}})

\* As long as clients come one after the other, "Written by client" and the
\* lines after it are true when the handler prints them: a bell means that the
\* access is done.
BellMeansDone == alone => \A c \in Clients : Bells(c) <= Written(c)

\* Conversations that overlap take each other's bells, a handler may be ahead
\* of its client; but never by more than one bell per other client.
HandlersStayClose ==
    \A c \in Clients : Bells(c) < Written(c) + Cardinality(Clients)

\* As long as clients come one after the other, the memory is there when a
\* client accesses it (helloworld.cc: buffer and value in the handler's frame).
MemoryOutlivesAccess == alone => strayed = {}

\* Every conversation ends on both sides, even if messages cross, unless a
\* client was lost on the way.
Ended(c) == client[c] > Len(client_script) /\ handler[c] > Len(handle_endpoint)

ConversationsEnd == \A c \in Clients : client[c] = 1 ~> Ended(c) \/ strayed # {}
===========================================================================
