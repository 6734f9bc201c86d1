--------------------------- MODULE HandshakeProofs ---------------------------
(***************************************************************************)
(* Proofs, for any number of clients and any lengths of addresses: a       *)
(* client that is connected is known to the server, and no connection is   *)
(* closed while bytes are unread.                                          *)
(***************************************************************************)
EXTENDS Handshake, SequenceTheorems, TLAPS

\* The counters of bytes are bounded by the message they belong to.
CountersOK ==
    /\ up_sent \in [Clients -> Nat] /\ up_got \in [Clients -> Nat]
    /\ down_sent \in [Clients -> Nat] /\ down_got \in [Clients -> Nat]

\* The server answers one client at a time, and only one it knows.
ServerInv ==
    /\ server \in {"receive", "send"} => conn \in Clients
    /\ server = "send" => conn \in known
    /\ \A c \in Clients : down_sent[c] > 0 => c \in known

\* An endpoint is made of the whole address.
KnownInv == \A c \in known : up_got[c] = Size(c)

ClientInv == \A c \in Clients : client[c] = "connected" => down_got[c] = Size(Server)

Inv == TypeOK /\ CountersOK /\ ServerInv /\ KnownInv /\ ClientInv /\ NoReset

-----------------------------------------------------------------------------
\* Messages are not empty.
LEMMA Sizes == \A p \in Clients \cup {Server} : Size(p) \in Nat /\ Size(p) > 0
BY ConstantsAssumption DEF Size

\* What is written and read of a message stays within it and in order.
LEMMA Parts ==
  ASSUME NEW p \in Clients \cup {Server}, NEW sent \in Nat, NEW got \in Nat
  PROVE  /\ \A n \in Written(p, sent) : n \in Nat /\ sent < n /\ n <= Size(p)
         /\ \A n \in Got(p, sent, got) : n \in Nat /\ got < n /\ n <= sent
BY Sizes DEF Written, Got

LEMMA InitInv == Init => Inv
<1> SUFFICES ASSUME Init
             PROVE  Inv
  OBVIOUS
<1>1. TypeOK
  BY Sizes DEF Init, TypeOK, ClientStates
<1> QED
  BY <1>1 DEF Init, Inv, CountersOK, ServerInv, KnownInv, ClientInv, NoReset

\* The steps of a client that move no bytes.
LEMMA ClientControl ==
  ASSUME Inv, NEW c \in Clients,
         connect(c) \/ connect_refused(c) \/ die(c) \/ client_fails(c)
  PROVE  Inv'
<1> USE DEF Inv, connect, connect_refused, die, client_fails
<1>1. UNCHANGED <<server, conn, ioVars, known>>
  OBVIOUS
<1>2. PICK s \in ClientStates \ {"connected"} : client' = [client EXCEPT ![c] = s]
  BY DEF ClientStates
<1>3. lost' = {} /\ open' \in [Clients -> SUBSET Ends] /\ backlog' \in Seq(Clients)
  BY DEF NoReset, Close, TypeOK, Ends
<1>4. TypeOK'
  BY <1>1, <1>2, <1>3 DEF TypeOK, ioVars, ClientStates
<1> QED
  BY <1>1, <1>2, <1>3, <1>4 DEF TypeOK, CountersOK, ServerInv, KnownInv, ClientInv, NoReset,
     ioVars

LEMMA ClientSend ==
  ASSUME Inv, NEW c \in Clients, client_send(c)
  PROVE  Inv'
<1> USE DEF Inv, client_send
<1>1. PICK n \in Written(c, up_sent[c]) : up_sent' = [up_sent EXCEPT ![c] = n]
  OBVIOUS
<1>2. n \in Nat /\ up_sent[c] < n /\ n <= Size(c)
  BY Parts DEF CountersOK
<1>3. client' \in {client, [client EXCEPT ![c] = "receive"]}
  OBVIOUS
<1>4. UNCHANGED <<server, conn, backlog, open, up_got, down_sent, down_got, known, lost>>
  OBVIOUS
<1>5. TypeOK'
  BY <1>1, <1>2, <1>3, <1>4 DEF TypeOK, CountersOK, ClientStates
<1>6. ClientInv'
  BY <1>3, <1>4 DEF TypeOK, ClientInv
<1> QED
  BY <1>1, <1>2, <1>4, <1>5, <1>6 DEF CountersOK, ServerInv, KnownInv, NoReset

\* The client closes its connection only after the last byte the server sends.
LEMMA ClientReceive ==
  ASSUME Inv, NEW c \in Clients, client_receive(c)
  PROVE  Inv'
<1> USE DEF Inv, client_receive
<1>1. PICK n \in Got(Server, down_sent[c], down_got[c]) :
        /\ down_got' = [down_got EXCEPT ![c] = n]
        /\ IF Received(Server, n)
           THEN /\ client' = [client EXCEPT ![c] = "connected"]
                /\ Close(c, "client", n < down_sent[c])
           ELSE UNCHANGED <<client, open, lost>>
  OBVIOUS
<1>2. n \in Nat /\ down_got[c] < n /\ n <= down_sent[c]
  BY Parts DEF CountersOK
<1>3. down_sent[c] \in Nat /\ down_sent[c] <= Size(Server) /\ Size(Server) \in Nat
  BY Sizes DEF CountersOK, TypeOK
<1>4. lost' = {} /\ open' \in [Clients -> SUBSET Ends]
  BY <1>1, <1>2, <1>3 DEF Received, Close, NoReset, TypeOK
<1>5. client' = client \/ (n = Size(Server) /\ client' = [client EXCEPT ![c] = "connected"])
  BY <1>1 DEF Received
<1>6. UNCHANGED <<server, conn, backlog, up_sent, up_got, down_sent, known>>
  OBVIOUS
<1>7. TypeOK'
  BY <1>1, <1>2, <1>4, <1>5, <1>6 DEF TypeOK, CountersOK, ClientStates
<1>8. ClientInv'
  <2>1. client[c] = "receive"
    OBVIOUS
  <2> QED
    BY <1>1, <1>5, <2>1 DEF ClientInv, TypeOK, CountersOK
<1> QED
  BY <1>1, <1>2, <1>4, <1>6, <1>7, <1>8 DEF CountersOK, ServerInv, KnownInv, NoReset

\* The steps of the server that move no bytes.
LEMMA ServerControl ==
  ASSUME Inv, accept \/ server_fails
  PROVE  Inv'
<1> USE DEF Inv, accept, server_fails
<1>1. UNCHANGED <<client, ioVars, known, lost>>
  OBVIOUS
<1>2. /\ \/ server' = "receive" /\ conn' \in Clients
         \/ server' = "dead" /\ conn' = Server
      /\ backlog' \in Seq(Clients)
  <2>0. backlog \in Seq(Clients)
    BY DEF TypeOK
  <2>1. CASE accept
    <3>1. backlog # <<>> /\ conn' = Head(backlog) /\ backlog' = Tail(backlog) /\ server' = "receive"
      BY <2>1
    <3>2. Head(backlog) \in Clients /\ Tail(backlog) \in Seq(Clients)
      BY <2>0, <3>1, HeadTailProperties, Zenon
    <3> QED
      BY <3>1, <3>2
  <2>2. CASE server_fails
    <3>1. server' = "dead" /\ conn' = Server /\ backlog' = <<>>
      BY <2>2
    <3> QED
      BY <3>1
  <2> QED
    BY <2>1, <2>2
<1>3. open' \in [Clients -> SUBSET Ends]
  BY DEF TypeOK
<1>4. TypeOK'
  BY <1>1, <1>2, <1>3 DEF TypeOK, ioVars
<1> QED
  BY <1>1, <1>2, <1>4 DEF CountersOK, ServerInv, KnownInv, ClientInv, NoReset, ioVars

LEMMA ServerReceive ==
  ASSUME Inv, server_receive
  PROVE  Inv'
<1> USE DEF Inv, server_receive
<1>1. conn \in Clients /\ conn \notin {Server}
  BY ConstantsAssumption DEF ServerInv
<1>2. PICK n \in Got(conn, up_sent[conn], up_got[conn]) :
        /\ up_got' = [up_got EXCEPT ![conn] = n]
        /\ IF Received(conn, n)
           THEN server' = "send" /\ known' = known \cup {conn}
           ELSE UNCHANGED <<server, known>>
  OBVIOUS
<1>3. n \in Nat /\ up_got[conn] < n /\ n <= up_sent[conn]
  BY <1>1, Parts DEF CountersOK
<1>4. up_sent[conn] \in Nat /\ up_sent[conn] <= Size(conn) /\ Size(conn) \in Nat
  BY <1>1, Sizes DEF CountersOK, TypeOK
<1>5. UNCHANGED <<client, conn, backlog, open, up_sent, down_sent, down_got, lost>>
  OBVIOUS
<1>6. \/ server' = server /\ known' = known
      \/ server' = "send" /\ known' = known \cup {conn} /\ n = Size(conn)
  BY <1>2 DEF Received
<1>7. TypeOK'
  BY <1>1, <1>2, <1>3, <1>5, <1>6 DEF TypeOK, CountersOK
<1>8. conn \notin known
  BY <1>1, <1>3, <1>4 DEF KnownInv, CountersOK
<1>9. KnownInv'
  BY <1>1, <1>2, <1>6, <1>8 DEF KnownInv, CountersOK, TypeOK
<1>10. ServerInv' /\ CountersOK'
  BY <1>1, <1>2, <1>3, <1>5, <1>6 DEF ServerInv, CountersOK
<1> QED
  BY <1>5, <1>7, <1>9, <1>10 DEF ClientInv, NoReset

\* The server closes its connection only after it has read the client's whole
\* message.
LEMMA ServerSend ==
  ASSUME Inv, server_send
  PROVE  Inv'
<1> USE DEF Inv, server_send
<1>1. conn \in Clients /\ conn \in known /\ up_got[conn] = Size(conn)
  BY DEF ServerInv, KnownInv
<1>2. PICK n \in Written(Server, down_sent[conn]) :
        /\ down_sent' = [down_sent EXCEPT ![conn] = n]
        /\ IF Sent(Server, n)
           THEN /\ server' = "accept"
                /\ conn' = Server
                /\ Close(conn, "server", up_got[conn] < up_sent[conn])
           ELSE UNCHANGED <<server, conn, open, lost>>
  OBVIOUS
<1>3. n \in Nat /\ down_sent[conn] < n /\ n <= Size(Server)
  BY <1>1, Parts DEF CountersOK
<1>4. lost' = {} /\ open' \in [Clients -> SUBSET Ends]
  <2>1. ~(up_got[conn] < up_sent[conn])
    BY <1>1, Sizes DEF TypeOK, CountersOK
  <2> QED
    BY <1>1, <1>2, <2>1 DEF Close, NoReset, TypeOK
<1>5. UNCHANGED <<client, backlog, up_sent, up_got, down_got, known>>
  OBVIOUS
<1>6. \/ server' = "accept" /\ conn' = Server
      \/ UNCHANGED <<server, conn>>
  BY <1>2
<1>7. TypeOK'
  <2>1. server' \in {"accept", "receive", "send", "dead"} /\ conn' \in Clients \cup {Server}
    BY <1>6 DEF TypeOK
  <2>2. \A c \in Clients : /\ down_got[c] <= down_sent'[c]
                          /\ down_sent'[c] <= Size(Server)
    BY <1>1, <1>2, <1>3 DEF TypeOK, CountersOK
  <2>3. \A c \in Clients : up_got'[c] <= up_sent'[c] /\ up_sent'[c] <= Size(c)
    BY <1>5 DEF TypeOK
  <2>4. /\ client' \in [Clients -> ClientStates] /\ backlog' \in Seq(Clients)
        /\ known' \subseteq Clients /\ lost' \subseteq Clients \X Ends
        /\ down_got' = down_got
    BY <1>4, <1>5 DEF TypeOK
  <2> QED
    BY <1>4, <2>1, <2>2, <2>3, <2>4 DEF TypeOK
<1> QED
  BY <1>1, <1>2, <1>3, <1>4, <1>5, <1>6, <1>7 DEF CountersOK, ServerInv, KnownInv, ClientInv,
     NoReset

LEMMA InvStep == Inv /\ [Next]_vars => Inv'
<1> SUFFICES ASSUME Inv, [Next]_vars
             PROVE  Inv'
  OBVIOUS
<1>1. ASSUME NEW c \in Clients,
             connect(c) \/ connect_refused(c) \/ die(c) \/ ClientStep(c)
      PROVE  Inv'
  BY <1>1, ClientControl, ClientSend, ClientReceive DEF ClientStep
<1>2. CASE ServerStep
  BY <1>2, ServerControl, ServerReceive, ServerSend DEF ServerStep
<1>3. CASE UNCHANGED vars
  BY <1>3 DEF vars, ioVars, Inv, TypeOK, CountersOK, ServerInv, KnownInv, ClientInv, NoReset
<1> QED
  BY <1>1, <1>2, <1>3 DEF Next

\* How far the two messages of a connection are, and that the server answers
\* only a client whose whole address it has read.
THEOREM Invariance == Spec => []Inv
BY InitInv, InvStep, PTL DEF Spec

-----------------------------------------------------------------------------
\* Every variable keeps its type: no counter of bytes passes the end of its
\* message.
THEOREM TypeCorrect == Spec => []TypeOK
<1>1. Inv => TypeOK
  BY DEF Inv
<1> QED
  BY <1>1, Invariance, PTL

\* When connector::connect returns an endpoint, acceptor::accept has made one
\* for this client of the client's whole address.
THEOREM BothConnected == Spec => []ConnectedBothWays
<1>1. Inv => ConnectedBothWays
  <2> SUFFICES ASSUME Inv, NEW c \in Clients, client[c] = "connected"
               PROVE  c \in known /\ up_got[c] = Size(c) /\ down_got[c] = Size(Server)
    BY DEF ConnectedBothWays
  <2>1. down_got[c] = Size(Server) /\ down_got[c] <= down_sent[c]
    BY DEF Inv, ClientInv, TypeOK
  <2>2. c \in known
    BY <2>1, Sizes DEF Inv, ServerInv, CountersOK
  <2> QED
    BY <2>1, <2>2 DEF Inv, KnownInv
<1> QED
  BY <1>1, Invariance, PTL

\* Neither program closes its TCP connection while bytes for it are unread.
THEOREM NothingIsReset == Spec => []NoReset
<1>1. Inv => NoReset
  BY DEF Inv
<1> QED
  BY <1>1, Invariance, PTL
============================================================================
