---------------------------- MODULE Handshake ----------------------------
(***************************************************************************)
(* The exchange of worker addresses over TCP by which two programs get     *)
(* endpoints to each other: connector::connect, acceptor::accept and the   *)
(* helpers send_address and from_tcp_connection they share, with the       *)
(* server's loop around accept (server() of helloworld.cc).                *)
(*                                                                         *)
(* A party's message is its serialized address: a length of SizeT bytes,   *)
(* then the address.  read() and write() move some of the bytes asked for, *)
(* so both sides loop; a reader learns how long the message is only from   *)
(* the bytes it has read.  The client sends first, the server answers,     *)
(* each closes its connection when its part is done.  A process may die at *)
(* any time, its connections are closed then.                              *)
(*                                                                         *)
(* Bytes of one direction arrive in order (TCP), so a message is known by  *)
(* how many of its bytes were written and how many were read.              *)
(***************************************************************************)
EXTENDS Naturals, Sequences, SequencesExt

CONSTANTS
    Clients,        \* client programs, one connection each
    SizeT,          \* sizeof(size_t)
    Length,         \* Length[p]: the length of the address of party p
    Server,         \* the server program
    MayDie          \* environment: clients may die during the exchange

ASSUME ConstantsAssumption ==
    /\ Server \notin Clients
    /\ SizeT \in Nat \ {0}
    /\ Length \in [Clients \cup {Server} -> Nat \ {0}]
    /\ MayDie \in BOOLEAN

VARIABLES
    client,         \* client[c]: see ClientStates
    server,         \* "accept", "receive", "send" or "dead" (left by exception)
    conn,           \* the client the server talks to, or Server
    backlog,        \* connections the kernel has accepted for the server
    open,           \* open[c]: ends of c's connection that are not closed
    up_sent, up_got,        \* per client: bytes of the client's message
    down_sent, down_got,    \* per client: bytes of the server's message
    known,          \* history: clients the server has an endpoint for
    lost            \* history: ends closed with unread bytes at the end of their
                    \* program's part (TCP resets the connection then)

ioVars == <<up_sent, up_got, down_sent, down_got>>
vars == <<client, server, conn, backlog, open, ioVars, known, lost>>

ClientStates == {"idle", "send", "receive", "connected", "failed", "died"}
Ends == {"client", "server"}
Size(p) == SizeT + Length[p]

Init ==
    /\ client = [c \in Clients |-> "idle"]
    /\ server = "accept"
    /\ conn = Server
    /\ backlog = <<>>
    /\ open = [c \in Clients |-> {}]
    /\ up_sent = [c \in Clients |-> 0]
    /\ up_got = [c \in Clients |-> 0]
    /\ down_sent = [c \in Clients |-> 0]
    /\ down_got = [c \in Clients |-> 0]
    /\ known = {}
    /\ lost = {}

-----------------------------------------------------------------------------
(* send_address and from_tcp_connection, for either side. *)

\* Seeded fault: the count of bytes left includes one too many.
Written_beyond(p, sent) == {n \in 1 .. Size(p) + 1 : sent < n}

\* One write() of send_address: `sent` of the party's bytes were written.
Written(p, sent) == {n \in 1 .. Size(p) : sent < n}

\* What from_tcp_connection asks of the next read(): the rest of the length,
\* then the rest of the address.
Wanted(p, got) == IF got < SizeT THEN SizeT - got ELSE Size(p) - got

\* One read() of from_tcp_connection.
Got(p, sent, got) == {n \in 1 .. sent : got < n /\ n <= got + Wanted(p, got)}

\* Seeded faults: neither side loops over the rest of the message.
Received_once(p, got) == got > SizeT
Sent_once(p, sent) == sent > 0

\* Where the two loops end.
Received(p, got) == got = Size(p)
Sent(p, sent) == sent = Size(p)

\* One end of c's connection is closed; unread bytes in its buffer make TCP
\* reset the connection.
Close(c, end, unread) ==
    /\ open' = [open EXCEPT ![c] = @ \ {end}]
    /\ lost' = IF unread THEN lost \cup {<<c, end>>} ELSE lost

-----------------------------------------------------------------------------
(* connector::connect *)

connect(c) ==
    /\ client[c] = "idle"
    /\ server # "dead"
    /\ client' = [client EXCEPT ![c] = "send"]
    /\ backlog' = Append(backlog, c)
    /\ open' = [open EXCEPT ![c] = Ends]
    /\ UNCHANGED <<server, conn, ioVars, known, lost>>

\* Nobody listens any more.
connect_refused(c) ==
    /\ client[c] = "idle"
    /\ server = "dead"
    /\ client' = [client EXCEPT ![c] = "failed"]
    /\ UNCHANGED <<server, conn, backlog, open, ioVars, known, lost>>

\* A write may succeed although the peer has closed its end meanwhile.
client_send(c) ==
    /\ client[c] = "send"
    /\ \E n \in Written(c, up_sent[c]) :
          /\ up_sent' = [up_sent EXCEPT ![c] = n]
          /\ client' = IF Sent(c, n) THEN [client EXCEPT ![c] = "receive"]
                       ELSE client
    /\ UNCHANGED <<server, conn, backlog, open, up_got, down_sent, down_got,
                   known, lost>>

\* The last read makes the endpoint and connect() returns it; the connection
\* goes out of scope.
client_receive(c) ==
    /\ client[c] = "receive"
    /\ \E n \in Got(Server, down_sent[c], down_got[c]) :
          /\ down_got' = [down_got EXCEPT ![c] = n]
          /\ IF Received(Server, n)
             THEN /\ client' = [client EXCEPT ![c] = "connected"]
                  /\ Close(c, "client", n < down_sent[c])
             ELSE UNCHANGED <<client, open, lost>>
    /\ UNCHANGED <<server, conn, backlog, up_sent, up_got, down_sent, known>>

\* read() returns 0, or a call fails: an exception leaves connect().  A write to
\* a connection that the server closed raises SIGPIPE instead (do_io calls plain
\* write), which ends the process: either way the client connects no more.
client_fails(c) ==
    /\ \/ client[c] = "send"
       \/ client[c] = "receive" /\ down_got[c] = down_sent[c]
    /\ "server" \notin open[c]
    /\ client' = [client EXCEPT ![c] = "failed"]
    /\ Close(c, "client", FALSE)
    /\ UNCHANGED <<server, conn, backlog, ioVars, known>>

die(c) ==
    /\ MayDie
    /\ client[c] \in {"send", "receive"}
    /\ client' = [client EXCEPT ![c] = "died"]
    /\ Close(c, "client", FALSE)
    /\ UNCHANGED <<server, conn, backlog, ioVars, known>>

-----------------------------------------------------------------------------
(* acceptor::accept and the loop around it *)

accept ==
    /\ server = "accept"
    /\ backlog # <<>>
    /\ conn' = Head(backlog)
    /\ backlog' = Tail(backlog)
    /\ server' = "receive"
    /\ UNCHANGED <<client, open, ioVars, known, lost>>

\* Seeded fault: accept() sends its address before it receives.
server_receive_late ==
    /\ server = "receive"
    /\ server' = "send"
    /\ UNCHANGED <<client, conn, backlog, open, ioVars, known, lost>>

\* The last read makes the endpoint.
server_receive ==
    /\ server = "receive"
    /\ \E n \in Got(conn, up_sent[conn], up_got[conn]) :
          /\ up_got' = [up_got EXCEPT ![conn] = n]
          /\ IF Received(conn, n)
             THEN server' = "send" /\ known' = known \cup {conn}
             ELSE UNCHANGED <<server, known>>
    /\ UNCHANGED <<client, conn, backlog, open, up_sent, down_sent, down_got, lost>>

\* The last write ends accept(); the connection goes out of scope, the server
\* hands the endpoint to a coroutine of its own and accepts again.
server_send ==
    /\ server = "send"
    /\ \E n \in Written(Server, down_sent[conn]) :
          /\ down_sent' = [down_sent EXCEPT ![conn] = n]
          /\ IF Sent(Server, n)
             THEN /\ server' = "accept"
                  /\ conn' = Server
                  /\ Close(conn, "server", up_got[conn] < up_sent[conn])
             ELSE UNCHANGED <<server, conn, open, lost>>
    /\ UNCHANGED <<client, backlog, up_sent, up_got, down_got, known>>

\* read() returns 0, or a call fails: the exception leaves accept() and the
\* coroutine server(), which has no handler; its listener is closed.  Or a write
\* to a client that is gone raises SIGPIPE, and the process ends.
server_fails ==
    /\ \/ server = "receive" /\ up_got[conn] = up_sent[conn]
       \/ server = "send"
    /\ "client" \notin open[conn]
    /\ server' = "dead"
    /\ conn' = Server
    /\ backlog' = <<>>
    /\ LET gone == ToSet(backlog) \cup {conn} IN
          open' = [c \in Clients |-> IF c \in gone THEN open[c] \ {"server"}
                                     ELSE open[c]]
    /\ UNCHANGED <<client, ioVars, known, lost>>

-----------------------------------------------------------------------------
ClientStep(c) == client_send(c) \/ client_receive(c) \/ client_fails(c)
ServerStep == accept \/ server_receive \/ server_send \/ server_fails

Next ==
    \/ \E c \in Clients :
          connect(c) \/ connect_refused(c) \/ die(c) \/ ClientStep(c)
    \/ ServerStep

Spec == Init /\ [][Next]_vars

\* Both programs keep polling their event loops, and TCP delivers.
FairSpec == Spec /\ WF_vars(ServerStep) /\ \A c \in Clients : WF_vars(ClientStep(c))

-----------------------------------------------------------------------------
TypeOK ==
    /\ client \in [Clients -> ClientStates]
    /\ server \in {"accept", "receive", "send", "dead"}
    /\ conn \in Clients \cup {Server}
    /\ backlog \in Seq(Clients)
    /\ open \in [Clients -> SUBSET Ends]
    /\ \A c \in Clients : /\ up_got[c] <= up_sent[c] /\ up_sent[c] <= Size(c)
                          /\ down_got[c] <= down_sent[c] /\ down_sent[c] <= Size(Server)
    /\ known \subseteq Clients
    /\ lost \subseteq Clients \X Ends

\* A client that is connected has the server's whole address, and the server
\* has, or had before it went on, an endpoint made of the client's whole
\* address: neither side can be connected to a peer that does not know it.
ConnectedBothWays ==
    \A c \in Clients :
        client[c] = "connected" =>
            /\ c \in known
            /\ up_got[c] = Size(c)
            /\ down_got[c] = Size(Server)

\* Neither side closes its connection while bytes for it are unread: TCP would
\* reset the connection and the peer could lose the end of its message.
NoReset == lost = {}

\* Every client that connects gets its endpoint: the server does not stay with
\* one connection, nobody waits for bytes that do not come, and no exchange
\* fails by itself; only a process that dies ends this.
EveryClientConnects ==
    \A c \in Clients :
        client[c] = "send" ~> client[c] \in {"connected", "died"} \/ server = "dead"

==========================================================================
