-------------------------- MODULE HelloWorldProofs --------------------------
(***************************************************************************)
(* Proofs, for any number of clients and of atomic operations, that a      *)
(* handler of helloworld.cc is never ahead of its client by more than the  *)
(* bells it may take from others, and that conversations which do not      *)
(* overlap are in step: a bell means that the access is done, and the      *)
(* memory is there when it is accessed.                                    *)
(*                                                                         *)
(* A script is too long to be split into its co_awaits again and again.    *)
(* What a position in it says of the past is given by a few functions      *)
(* (RungAt, BellsAt, ...), and two lemmas say how a step changes them.     *)
(***************************************************************************)
EXTENDS HelloWorld, FiniteSetTheorems, SequenceTheorems, TLAPS

-----------------------------------------------------------------------------
(* What a position in a script says of the past. *)

\* Tag messages, bells, finished accesses, bells that came back and pieces of
\* the stream, all before the client's p-th co_await.
RungAt(p) ==
    IF p <= 10 THEN 0
    ELSE IF p <= 13 THEN 1
    ELSE IF p <= 13 + 3 * Atomics THEN 1 + ((p - 13) \div 3)
    ELSE Atomics + 1

SentAt(p) == IF p <= 2 THEN 0 ELSE 1 + RungAt(p)

WrittenAt(p) ==
    IF p <= 9 THEN 0
    ELSE IF p <= 13 THEN 1
    ELSE IF p <= 13 + 3 * Atomics THEN 1 + ((p - 12) \div 3)
    ELSE Atomics + 1

RepliesAt(p) ==
    IF p <= 13 THEN 0
    ELSE IF p <= 13 + 3 * Atomics THEN (p - 14) \div 3
    ELSE Atomics

ReadAt(p) ==
    IF p <= 3 THEN 0
    ELSE IF p <= 5 THEN 1
    ELSE IF p <= 8 THEN p - 4
    ELSE IF p <= 11 THEN 4
    ELSE IF p <= 14 THEN p - 7
    ELSE 7

\* Bells received, bells sent and pieces of the stream before the handler's
\* q-th co_await.
BellsAt(q) ==
    IF q <= 8 THEN 0
    ELSE IF q <= 11 THEN 1
    ELSE IF q <= 11 + 2 * Atomics THEN 1 + ((q - 11) \div 2)
    ELSE Atomics + 1

AnsweredAt(q) ==
    IF q <= 11 THEN 0
    ELSE IF q <= 11 + 2 * Atomics THEN (q - 12) \div 2
    ELSE Atomics

SharedAt(q) ==
    IF q <= 3 THEN 0
    ELSE IF q <= 5 THEN 1
    ELSE IF q <= 8 THEN q - 4
    ELSE IF q <= 9 THEN 4
    ELSE IF q <= 12 THEN q - 5
    ELSE 7

-----------------------------------------------------------------------------
\* Bells by number: client c's first f[c].
Upto(f) == {x \in Clients \X Nat : 1 <= x[2] /\ x[2] <= f[x[1]]}

\* Tag messages of c that have arrived, and bells among those of each client.
Arrived(c) == SentAt(client[c]) - Len(up[c])
heard == [c \in Clients |-> IF Arrived(c) = 0 THEN 0 ELSE Arrived(c) - 1]
taken == [c \in Clients |-> BellsAt(handler[c])]

\* A conversation that has begun and not ended on both sides.
Active(c) == client[c] \in DOMAIN client_script \/ HandlerRuns(c)

StartInv == \A c \in Clients : client[c] = 0 <=> handler[c] = 0

\* The cardinalities are what the positions say.
CountInv ==
    \A c \in Clients : /\ Bells(c) = BellsAt(handler[c])
                       /\ Written(c) = WrittenAt(client[c])

\* A handler has posted at most one receive per tag.
PostedInv ==
    \A t \in Tags : \A i, j \in 1 .. Len(posted[t]) :
        posted[t][i] = posted[t][j] => i = j

\* A client's messages arrive in order: the first is the test, then bells.
OrderInv ==
    \A c \in Clients :
        /\ Len(up[c]) <= SentAt(client[c])
        /\ \A i \in 1 .. Len(up[c]) : up[c][i] = "test" <=> Arrived(c) + i = 1

\* What is on the way from a handler to its own client.
ReplyInv ==
    \A c \in Clients :
        /\ down[c]["bell"] = AnsweredAt(handler[c]) - RepliesAt(client[c])
        /\ stream_down[c] = SharedAt(handler[c]) - ReadAt(client[c])

\* No bell is lost or rings twice.
BellInv == Cardinality(Upto(heard)) = unexpected["bell"] + Cardinality(Upto(taken))

\* One conversation after the other: no handler takes another one's bell.
AloneInv ==
    alone =>
        /\ strayed = {}
        /\ \A c, d \in Clients : Active(c) /\ Active(d) => c = d
        /\ \A c \in Clients : taken[c] <= heard[c]

Inv ==
    /\ TypeOK
    /\ StartInv
    /\ CountInv
    /\ PostedInv
    /\ OrderInv
    /\ ReplyInv
    /\ BellInv
    /\ AloneInv

-----------------------------------------------------------------------------
(* The scripts. *)

Awaits ==
    {"tag_send", "tag_recv"} \X {"test", "bell"}
    \cup {"stream_send", "stream_recv"} \X {"hello", "world", "memory"}
    \cup {<<"get", "buffer">>, <<"put", "buffer">>, <<"atomic", "value">>,
          <<"flush", "ep">>, <<"close", "ep">>}

\* u is s, of length m, followed by t, of length n.
JoinOf(u, s, m, t, n) ==
    /\ u \in Seq(Awaits)
    /\ Len(u) = m + n
    /\ \A i \in 1 .. m : u[i] = s[i]
    /\ \A i \in m + 1 .. m + n : u[i] = t[i - m]

LEMMA Joined ==
  ASSUME NEW s \in Seq(Awaits), NEW t \in Seq(Awaits),
         NEW m \in Nat, NEW n \in Nat, Len(s) = m, Len(t) = n
  PROVE  JoinOf(s \o t, s, m, t, n)
BY DEF JoinOf

\* What Times returns.
LEMMA TimesType ==
  ASSUME NEW S, NEW n \in Nat, NEW s \in Seq(S), s # <<>>
  PROVE  /\ Times(n, s) \in Seq(S)
         /\ Len(Times(n, s)) = n * Len(s)
         /\ \A i \in 1 .. n * Len(s) : Times(n, s)[i] = s[((i - 1) % Len(s)) + 1]
<1>1. \A i \in 1 .. n * Len(s) : ((i - 1) % Len(s)) + 1 \in 1 .. Len(s)
  OBVIOUS
<1>2. n * Len(s) \in Nat
  OBVIOUS
<1> QED
  BY <1>1, <1>2 DEF Times

LEMMA ThreeTimes ==
  ASSUME NEW x \in Awaits
  PROVE  /\ Times(3, <<x>>) \in Seq(Awaits)
         /\ Len(Times(3, <<x>>)) = 3
         /\ \A i \in 1 .. 3 : Times(3, <<x>>)[i] = x
<1> DEFINE s == <<x>>
<1>1. s \in Seq(Awaits) /\ Len(s) = 1 /\ s[1] = x
  OBVIOUS
<1>2. 3 \in Nat /\ s # <<>>
  OBVIOUS
<1> HIDE DEF s
<1>3. /\ Times(3, s) \in Seq(Awaits) /\ Len(Times(3, s)) = 3 * Len(s)
      /\ \A i \in 1 .. 3 * Len(s) : Times(3, s)[i] = s[((i - 1) % Len(s)) + 1]
  BY <1>1, <1>2, TimesType, Zenon
<1>4. \A i \in 1 .. 3 : ((i - 1) % 1) + 1 = 1
  OBVIOUS
<1>5. /\ Times(3, s) \in Seq(Awaits) /\ Len(Times(3, s)) = 3
      /\ \A i \in 1 .. 3 : Times(3, s)[i] = x
  BY <1>1, <1>3, <1>4
<1> QED
  BY <1>5, Zenon DEF s

LEMMA ClientParts ==
  /\ ClientStart \in Seq(Awaits) /\ Len(ClientStart) = 4
  /\ ClientStart[1] = <<"tag_recv", "test">>
  /\ ClientStart[2] = <<"tag_send", "test">>
  /\ ClientStart[3] = <<"stream_recv", "hello">>
  /\ ClientStart[4] = <<"stream_send", "world">>
  /\ receive_mr \in Seq(Awaits) /\ Len(receive_mr) = 3
  /\ \A i \in 1 .. 3 : receive_mr[i] = <<"stream_recv", "memory">>
  /\ ClientAccess \in Seq(Awaits) /\ Len(ClientAccess) = 3
  /\ ClientAccess[1] = <<"get", "buffer">>
  /\ ClientAccess[2] = <<"put", "buffer">>
  /\ ClientAccess[3] = <<"tag_send", "bell">>
  /\ Finish \in Seq(Awaits) /\ Len(Finish) = 2
  /\ Finish[1] = <<"flush", "ep">>
  /\ Finish[2] = <<"close", "ep">>
<1>1. <<"stream_recv", "memory">> \in Awaits
  BY DEF Awaits
<1>2. /\ receive_mr \in Seq(Awaits) /\ Len(receive_mr) = 3
      /\ \A i \in 1 .. 3 : receive_mr[i] = <<"stream_recv", "memory">>
  BY <1>1, ThreeTimes, Zenon DEF receive_mr
<1> QED
  BY <1>2 DEF Awaits, ClientStart, ClientAccess, Finish

LEMMA ClientRounds ==
  LET t == Times(Atomics, ClientAtomic)
  IN  /\ t \in Seq(Awaits) /\ Len(t) = 3 * Atomics
      /\ \A k \in 1 .. Atomics : /\ t[3 * k - 2] = <<"atomic", "value">>
                                 /\ t[3 * k - 1] = <<"tag_send", "bell">>
                                 /\ t[3 * k] = <<"tag_recv", "bell">>
<1> DEFINE t == Times(Atomics, ClientAtomic)
<1>1. /\ ClientAtomic \in Seq(Awaits) /\ Len(ClientAtomic) = 3
      /\ ClientAtomic[1] = <<"atomic", "value">>
      /\ ClientAtomic[2] = <<"tag_send", "bell">>
      /\ ClientAtomic[3] = <<"tag_recv", "bell">>
  BY DEF Awaits, ClientAtomic
<1>2. ClientAtomic # <<>> /\ Atomics \in Nat
  BY <1>1, ConstantsAssumption
<1>3. /\ t \in Seq(Awaits) /\ Len(t) = Atomics * Len(ClientAtomic)
      /\ \A i \in 1 .. Atomics * Len(ClientAtomic) :
            t[i] = ClientAtomic[((i - 1) % Len(ClientAtomic)) + 1]
  BY <1>1, <1>2, TimesType, Zenon
<1> HIDE DEF t
<1>4. /\ Len(t) = Atomics * 3
      /\ \A i \in 1 .. Atomics * 3 : t[i] = ClientAtomic[((i - 1) % 3) + 1]
  BY <1>1, <1>3
<1>5. \A k \in 1 .. Atomics :
        /\ 3 * k - 2 \in 1 .. Atomics * 3 /\ ((3 * k - 2 - 1) % 3) + 1 = 1
        /\ 3 * k - 1 \in 1 .. Atomics * 3 /\ ((3 * k - 1 - 1) % 3) + 1 = 2
        /\ 3 * k \in 1 .. Atomics * 3 /\ ((3 * k - 1) % 3) + 1 = 3
  BY <1>2
<1> QED
  BY <1>1, <1>2, <1>3, <1>4, <1>5 DEF t

\* The client's script, position by position.
LEMMA ClientScript ==
  /\ client_script \in Seq(Awaits)
  /\ Len(client_script) = 15 + 3 * Atomics
  /\ client_script[1] = <<"tag_recv", "test">>
  /\ client_script[2] = <<"tag_send", "test">>
  /\ client_script[3] = <<"stream_recv", "hello">>
  /\ client_script[4] = <<"stream_send", "world">>
  /\ \A i \in 5 .. 7 : client_script[i] = <<"stream_recv", "memory">>
  /\ client_script[8] = <<"get", "buffer">>
  /\ client_script[9] = <<"put", "buffer">>
  /\ client_script[10] = <<"tag_send", "bell">>
  /\ \A i \in 11 .. 13 : client_script[i] = <<"stream_recv", "memory">>
  /\ \A k \in 1 .. Atomics : /\ client_script[11 + 3 * k] = <<"atomic", "value">>
                             /\ client_script[12 + 3 * k] = <<"tag_send", "bell">>
                             /\ client_script[13 + 3 * k] = <<"tag_recv", "bell">>
  /\ client_script[14 + 3 * Atomics] = <<"flush", "ep">>
  /\ client_script[15 + 3 * Atomics] = <<"close", "ep">>
<1> DEFINE a == ClientStart \o receive_mr
           b == a \o ClientAccess
           d == b \o receive_mr
           t == Times(Atomics, ClientAtomic)
           e == d \o t
<1>0. client_script = e \o Finish /\ Atomics \in Nat
  BY ConstantsAssumption DEF client_script
<1>a. Atomics \in Nat
  BY ConstantsAssumption
<1>n. /\ 1 \in Nat /\ 2 \in Nat /\ 3 \in Nat /\ 4 \in Nat /\ 7 \in Nat
      /\ 8 \in Nat /\ 10 \in Nat /\ 11 \in Nat /\ 13 \in Nat
      /\ 2 * Atomics \in Nat /\ 3 * Atomics \in Nat
      /\ 11 + 2 * Atomics \in Nat /\ 13 + 3 * Atomics \in Nat
  BY <1>0
<1>1. /\ a \in Seq(Awaits) /\ Len(a) = 7
      /\ a[1] = <<"tag_recv", "test">>
      /\ a[2] = <<"tag_send", "test">>
      /\ a[3] = <<"stream_recv", "hello">>
      /\ a[4] = <<"stream_send", "world">>
      /\ \A i \in 5 .. 7 : a[i] = <<"stream_recv", "memory">>
  <2>1. JoinOf(a, ClientStart, 4, receive_mr, 3)
    BY <1>n, ClientParts, Joined, Zenon
  <2> HIDE DEF a
  <2> QED
    BY <2>1, ClientParts DEF JoinOf
<1>2. /\ b \in Seq(Awaits) /\ Len(b) = 10
      /\ \A i \in 1 .. 7 : b[i] = a[i]
      /\ b[8] = <<"get", "buffer">>
      /\ b[9] = <<"put", "buffer">>
      /\ b[10] = <<"tag_send", "bell">>
  <2> HIDE DEF a
  <2>1. JoinOf(b, a, 7, ClientAccess, 3)
    BY <1>1, ClientParts, <1>n, Joined, Zenon
  <2> HIDE DEF b
  <2> QED
    BY <1>1, <2>1, ClientParts DEF JoinOf
<1>3. /\ d \in Seq(Awaits) /\ Len(d) = 13
      /\ \A i \in 1 .. 10 : d[i] = b[i]
      /\ \A i \in 11 .. 13 : d[i] = <<"stream_recv", "memory">>
  <2> HIDE DEF b
  <2>1. JoinOf(d, b, 10, receive_mr, 3)
    BY <1>2, ClientParts, <1>n, Joined, Zenon
  <2> HIDE DEF d
  <2> QED
    BY <1>2, <2>1, ClientParts DEF JoinOf
<1>4. /\ t \in Seq(Awaits) /\ Len(t) = 3 * Atomics
      /\ \A k \in 1 .. Atomics : /\ t[3 * k - 2] = <<"atomic", "value">>
                                 /\ t[3 * k - 1] = <<"tag_send", "bell">>
                                 /\ t[3 * k] = <<"tag_recv", "bell">>
  BY ClientRounds
<1>5. /\ e \in Seq(Awaits) /\ Len(e) = 13 + 3 * Atomics
      /\ \A i \in 1 .. 13 : e[i] = d[i]
      /\ \A i \in 14 .. 13 + 3 * Atomics : e[i] = t[i - 13]
  <2> HIDE DEF d, t
  <2>1. JoinOf(e, d, 13, t, 3 * Atomics)
    BY <1>3, <1>4, <1>n, Joined, Zenon
  <2> HIDE DEF e
  <2> QED
    BY <1>0, <1>3, <1>4, <2>1 DEF JoinOf
<1>6. /\ client_script \in Seq(Awaits) /\ Len(client_script) = 15 + 3 * Atomics
      /\ \A i \in 1 .. 13 + 3 * Atomics : client_script[i] = e[i]
      /\ client_script[14 + 3 * Atomics] = <<"flush", "ep">>
      /\ client_script[15 + 3 * Atomics] = <<"close", "ep">>
  <2> HIDE DEF e
  <2>1. JoinOf(client_script, e, 13 + 3 * Atomics, Finish, 2)
    BY <1>0, <1>5, ClientParts, <1>n, Joined, Zenon
  <2>2. /\ client_script \in Seq(Awaits) /\ Len(client_script) = 15 + 3 * Atomics
        /\ \A i \in 1 .. 13 + 3 * Atomics : client_script[i] = e[i]
        /\ \A i \in 14 + 3 * Atomics .. 15 + 3 * Atomics :
              client_script[i] = Finish[i - (13 + 3 * Atomics)]
    BY <1>a, <2>1 DEF JoinOf
  <2>3. /\ 14 + 3 * Atomics \in 14 + 3 * Atomics .. 15 + 3 * Atomics
        /\ 15 + 3 * Atomics \in 14 + 3 * Atomics .. 15 + 3 * Atomics
        /\ (14 + 3 * Atomics) - (13 + 3 * Atomics) = 1
        /\ (15 + 3 * Atomics) - (13 + 3 * Atomics) = 2
    BY <1>0
  <2> QED
    BY <2>2, <2>3, ClientParts
<1> HIDE DEF a, b, d, t, e
<1>7. ASSUME NEW k \in 1 .. Atomics
      PROVE  /\ client_script[11 + 3 * k] = t[3 * k - 2]
             /\ client_script[12 + 3 * k] = t[3 * k - 1]
             /\ client_script[13 + 3 * k] = t[3 * k]
  <2>1. /\ 11 + 3 * k \in 14 .. 13 + 3 * Atomics /\ (11 + 3 * k) - 13 = 3 * k - 2
        /\ 12 + 3 * k \in 14 .. 13 + 3 * Atomics /\ (12 + 3 * k) - 13 = 3 * k - 1
        /\ 13 + 3 * k \in 14 .. 13 + 3 * Atomics /\ (13 + 3 * k) - 13 = 3 * k
        /\ 14 .. 13 + 3 * Atomics \subseteq 1 .. 13 + 3 * Atomics
    BY <1>0
  <2> QED
    BY <1>5, <1>6, <2>1
<1>8. /\ client_script[1] = <<"tag_recv", "test">>
      /\ client_script[2] = <<"tag_send", "test">>
      /\ client_script[3] = <<"stream_recv", "hello">>
      /\ client_script[4] = <<"stream_send", "world">>
      /\ \A i \in 5 .. 7 : client_script[i] = <<"stream_recv", "memory">>
      /\ client_script[8] = <<"get", "buffer">>
      /\ client_script[9] = <<"put", "buffer">>
      /\ client_script[10] = <<"tag_send", "bell">>
      /\ \A i \in 11 .. 13 : client_script[i] = <<"stream_recv", "memory">>
  <2>1. \A i \in 1 .. 13 : client_script[i] = d[i]
    <3>1. \A i \in 1 .. 13 : i \in 1 .. 13 + 3 * Atomics
      BY <1>a
    <3> QED
      BY <1>5, <1>6, <3>1
  <2>2. \A i \in 1 .. 10 : client_script[i] = b[i]
    BY <1>3, <2>1
  <2>3. \A i \in 1 .. 7 : client_script[i] = a[i]
    BY <1>2, <2>2
  <2>4. \A i \in 11 .. 13 : client_script[i] = <<"stream_recv", "memory">>
    BY <1>3, <2>1
  <2> QED
    BY <1>1, <1>2, <2>2, <2>3, <2>4
<1>9. \A k \in 1 .. Atomics : /\ client_script[11 + 3 * k] = <<"atomic", "value">>
                              /\ client_script[12 + 3 * k] = <<"tag_send", "bell">>
                              /\ client_script[13 + 3 * k] = <<"tag_recv", "bell">>
  BY <1>4, <1>7
<1> QED
  BY <1>6, <1>8, <1>9

LEMMA HandlerParts ==
  /\ HandlerStart \in Seq(Awaits) /\ Len(HandlerStart) = 4
  /\ HandlerStart[1] = <<"tag_send", "test">>
  /\ HandlerStart[2] = <<"tag_recv", "test">>
  /\ HandlerStart[3] = <<"stream_send", "hello">>
  /\ HandlerStart[4] = <<"stream_recv", "world">>
  /\ send_mr \in Seq(Awaits) /\ Len(send_mr) = 3
  /\ \A i \in 1 .. 3 : send_mr[i] = <<"stream_send", "memory">>
  /\ HandlerBell \in Seq(Awaits) /\ Len(HandlerBell) = 1
  /\ HandlerBell[1] = <<"tag_recv", "bell">>
<1>1. <<"stream_send", "memory">> \in Awaits
  BY DEF Awaits
<1>2. /\ send_mr \in Seq(Awaits) /\ Len(send_mr) = 3
      /\ \A i \in 1 .. 3 : send_mr[i] = <<"stream_send", "memory">>
  BY <1>1, ThreeTimes, Zenon DEF send_mr
<1> QED
  BY <1>2 DEF Awaits, HandlerStart, HandlerBell

LEMMA HandlerRounds ==
  LET t == HandlerAtomics
  IN  /\ t \in Seq(Awaits) /\ Len(t) = 2 * Atomics
      /\ \A k \in 1 .. Atomics : /\ t[2 * k - 1] = <<"tag_recv", "bell">>
                                 /\ t[2 * k] = <<"tag_send", "bell">>
<1> DEFINE t == Times(Atomics, HandlerAtomic)
<1>1. /\ HandlerAtomic \in Seq(Awaits) /\ Len(HandlerAtomic) = 2
      /\ HandlerAtomic[1] = <<"tag_recv", "bell">>
      /\ HandlerAtomic[2] = <<"tag_send", "bell">>
  BY DEF Awaits, HandlerAtomic
<1>2. HandlerAtomic # <<>> /\ Atomics \in Nat
  BY <1>1, ConstantsAssumption
<1>3. /\ t \in Seq(Awaits) /\ Len(t) = Atomics * Len(HandlerAtomic)
      /\ \A i \in 1 .. Atomics * Len(HandlerAtomic) :
            t[i] = HandlerAtomic[((i - 1) % Len(HandlerAtomic)) + 1]
  BY <1>1, <1>2, TimesType, Zenon
<1> HIDE DEF t
<1>4. /\ Len(t) = Atomics * 2
      /\ \A i \in 1 .. Atomics * 2 : t[i] = HandlerAtomic[((i - 1) % 2) + 1]
  BY <1>1, <1>3
<1>5. \A k \in 1 .. Atomics :
        /\ 2 * k - 1 \in 1 .. Atomics * 2 /\ ((2 * k - 1 - 1) % 2) + 1 = 1
        /\ 2 * k \in 1 .. Atomics * 2 /\ ((2 * k - 1) % 2) + 1 = 2
  BY <1>2
<1> QED
  BY <1>1, <1>2, <1>3, <1>4, <1>5 DEF t, HandlerAtomics

\* The handler's script, position by position.
LEMMA HandlerScript ==
  /\ handle_endpoint \in Seq(Awaits)
  /\ Len(handle_endpoint) = 13 + 2 * Atomics
  /\ handle_endpoint[1] = <<"tag_send", "test">>
  /\ handle_endpoint[2] = <<"tag_recv", "test">>
  /\ handle_endpoint[3] = <<"stream_send", "hello">>
  /\ handle_endpoint[4] = <<"stream_recv", "world">>
  /\ \A i \in 5 .. 7 : handle_endpoint[i] = <<"stream_send", "memory">>
  /\ handle_endpoint[8] = <<"tag_recv", "bell">>
  /\ \A i \in 9 .. 11 : handle_endpoint[i] = <<"stream_send", "memory">>
  /\ \A k \in 1 .. Atomics : /\ handle_endpoint[10 + 2 * k] = <<"tag_recv", "bell">>
                             /\ handle_endpoint[11 + 2 * k] = <<"tag_send", "bell">>
  /\ handle_endpoint[12 + 2 * Atomics] = <<"flush", "ep">>
  /\ handle_endpoint[13 + 2 * Atomics] = <<"close", "ep">>
<1> DEFINE a == HandlerStart \o send_mr
           b == a \o HandlerBell
           d == b \o send_mr
           t == HandlerAtomics
           e == d \o t
<1>0. handle_endpoint = e \o Finish /\ Atomics \in Nat
  BY ConstantsAssumption DEF handle_endpoint
<1>a. Atomics \in Nat
  BY ConstantsAssumption
<1>n. /\ 1 \in Nat /\ 2 \in Nat /\ 3 \in Nat /\ 4 \in Nat /\ 7 \in Nat
      /\ 8 \in Nat /\ 10 \in Nat /\ 11 \in Nat /\ 13 \in Nat
      /\ 2 * Atomics \in Nat /\ 3 * Atomics \in Nat
      /\ 11 + 2 * Atomics \in Nat /\ 13 + 3 * Atomics \in Nat
  BY <1>0
<1>1. /\ a \in Seq(Awaits) /\ Len(a) = 7
      /\ a[1] = <<"tag_send", "test">>
      /\ a[2] = <<"tag_recv", "test">>
      /\ a[3] = <<"stream_send", "hello">>
      /\ a[4] = <<"stream_recv", "world">>
      /\ \A i \in 5 .. 7 : a[i] = <<"stream_send", "memory">>
  <2>1. JoinOf(a, HandlerStart, 4, send_mr, 3)
    BY HandlerParts, <1>n, Joined, Zenon
  <2> HIDE DEF a
  <2> QED
    BY <2>1, HandlerParts DEF JoinOf
<1>2. /\ b \in Seq(Awaits) /\ Len(b) = 8
      /\ \A i \in 1 .. 7 : b[i] = a[i]
      /\ b[8] = <<"tag_recv", "bell">>
  <2> HIDE DEF a
  <2>1. JoinOf(b, a, 7, HandlerBell, 1)
    BY <1>1, HandlerParts, <1>n, Joined, Zenon
  <2> HIDE DEF b
  <2> QED
    BY <1>1, <2>1, HandlerParts DEF JoinOf
<1>3. /\ d \in Seq(Awaits) /\ Len(d) = 11
      /\ \A i \in 1 .. 8 : d[i] = b[i]
      /\ \A i \in 9 .. 11 : d[i] = <<"stream_send", "memory">>
  <2> HIDE DEF b
  <2>1. JoinOf(d, b, 8, send_mr, 3)
    BY <1>2, HandlerParts, <1>n, Joined, Zenon
  <2> HIDE DEF d
  <2> QED
    BY <1>2, <2>1, HandlerParts DEF JoinOf
<1>4. /\ t \in Seq(Awaits) /\ Len(t) = 2 * Atomics
      /\ \A k \in 1 .. Atomics : /\ t[2 * k - 1] = <<"tag_recv", "bell">>
                                 /\ t[2 * k] = <<"tag_send", "bell">>
  BY HandlerRounds
<1>5. /\ e \in Seq(Awaits) /\ Len(e) = 11 + 2 * Atomics
      /\ \A i \in 1 .. 11 : e[i] = d[i]
      /\ \A i \in 12 .. 11 + 2 * Atomics : e[i] = t[i - 11]
  <2> HIDE DEF d, t
  <2>1. JoinOf(e, d, 11, t, 2 * Atomics)
    BY <1>3, <1>4, <1>n, Joined, Zenon
  <2> HIDE DEF e
  <2> QED
    BY <1>0, <1>3, <1>4, <2>1 DEF JoinOf
<1>6. /\ handle_endpoint \in Seq(Awaits) /\ Len(handle_endpoint) = 13 + 2 * Atomics
      /\ \A i \in 1 .. 11 + 2 * Atomics : handle_endpoint[i] = e[i]
      /\ handle_endpoint[12 + 2 * Atomics] = <<"flush", "ep">>
      /\ handle_endpoint[13 + 2 * Atomics] = <<"close", "ep">>
  <2> HIDE DEF e
  <2>1. JoinOf(handle_endpoint, e, 11 + 2 * Atomics, Finish, 2)
    BY <1>0, <1>5, ClientParts, <1>n, Joined, Zenon
  <2>2. /\ handle_endpoint \in Seq(Awaits) /\ Len(handle_endpoint) = 13 + 2 * Atomics
        /\ \A i \in 1 .. 11 + 2 * Atomics : handle_endpoint[i] = e[i]
        /\ \A i \in 12 + 2 * Atomics .. 13 + 2 * Atomics :
              handle_endpoint[i] = Finish[i - (11 + 2 * Atomics)]
    BY <1>a, <2>1 DEF JoinOf
  <2>3. /\ 12 + 2 * Atomics \in 12 + 2 * Atomics .. 13 + 2 * Atomics
        /\ 13 + 2 * Atomics \in 12 + 2 * Atomics .. 13 + 2 * Atomics
        /\ (12 + 2 * Atomics) - (11 + 2 * Atomics) = 1
        /\ (13 + 2 * Atomics) - (11 + 2 * Atomics) = 2
    BY <1>0
  <2> QED
    BY <2>2, <2>3, ClientParts
<1> HIDE DEF a, b, d, t, e
<1>7. ASSUME NEW k \in 1 .. Atomics
      PROVE  /\ handle_endpoint[10 + 2 * k] = t[2 * k - 1]
             /\ handle_endpoint[11 + 2 * k] = t[2 * k]
  <2>1. /\ 10 + 2 * k \in 12 .. 11 + 2 * Atomics /\ (10 + 2 * k) - 11 = 2 * k - 1
        /\ 11 + 2 * k \in 12 .. 11 + 2 * Atomics /\ (11 + 2 * k) - 11 = 2 * k
        /\ 12 .. 11 + 2 * Atomics \subseteq 1 .. 11 + 2 * Atomics
    BY <1>0
  <2> QED
    BY <1>5, <1>6, <2>1
<1>8. /\ handle_endpoint[1] = <<"tag_send", "test">>
      /\ handle_endpoint[2] = <<"tag_recv", "test">>
      /\ handle_endpoint[3] = <<"stream_send", "hello">>
      /\ handle_endpoint[4] = <<"stream_recv", "world">>
      /\ \A i \in 5 .. 7 : handle_endpoint[i] = <<"stream_send", "memory">>
      /\ handle_endpoint[8] = <<"tag_recv", "bell">>
      /\ \A i \in 9 .. 11 : handle_endpoint[i] = <<"stream_send", "memory">>
  <2>1. \A i \in 1 .. 11 : handle_endpoint[i] = d[i]
    BY <1>a, <1>5, <1>6
  <2>2. \A i \in 1 .. 8 : handle_endpoint[i] = b[i]
    BY <1>3, <2>1
  <2>3. \A i \in 1 .. 7 : handle_endpoint[i] = a[i]
    BY <1>2, <2>2
  <2>4. \A i \in 9 .. 11 : handle_endpoint[i] = <<"stream_send", "memory">>
    BY <1>3, <2>1
  <2> QED
    BY <1>1, <1>2, <2>2, <2>3, <2>4
<1>9. \A k \in 1 .. Atomics : /\ handle_endpoint[10 + 2 * k] = <<"tag_recv", "bell">>
                              /\ handle_endpoint[11 + 2 * k] = <<"tag_send", "bell">>
  BY <1>4, <1>7
<1> QED
  BY <1>6, <1>8, <1>9

\* How a co_await of the client, op with arg, changes what its position says.
ClientCount(p, op, arg) ==
    /\ RungAt(p + 1) = RungAt(p) + (IF op = "tag_send" /\ arg = "bell" THEN 1 ELSE 0)
    /\ SentAt(p + 1) = SentAt(p) + (IF op = "tag_send" THEN 1 ELSE 0)
    /\ op = "tag_send" => arg \in Tags /\ (arg = "test" <=> SentAt(p) = 0)
    /\ op = "tag_recv" => arg \in Tags
    /\ WrittenAt(p + 1) = WrittenAt(p) + (IF op \in {"put", "atomic"} THEN 1 ELSE 0)
    /\ RepliesAt(p + 1) = RepliesAt(p) + (IF op = "tag_recv" /\ arg = "bell" THEN 1 ELSE 0)
    /\ ReadAt(p + 1) = ReadAt(p) + (IF op = "stream_recv" THEN 1 ELSE 0)
    /\ op \in {"get", "put", "atomic"} => RungAt(p) <= Atomics

\* The same of the handler.
HandlerCount(q, op, arg) ==
    /\ BellsAt(q + 1) = BellsAt(q) + (IF op = "tag_recv" /\ arg = "bell" THEN 1 ELSE 0)
    /\ AnsweredAt(q + 1) = AnsweredAt(q) + (IF op = "tag_send" /\ arg = "bell" THEN 1 ELSE 0)
    /\ SharedAt(q + 1) = SharedAt(q) + (IF op = "stream_send" THEN 1 ELSE 0)
    /\ op \in {"tag_send", "tag_recv"} => arg \in Tags

LEMMA ClientCounts ==
  ASSUME NEW p \in DOMAIN client_script
  PROVE  /\ p \in 1 .. Len(client_script)
         /\ client_script[p] = <<client_script[p][1], client_script[p][2]>>
         /\ ClientCount(p, client_script[p][1], client_script[p][2])
<1>a. Atomics \in Nat \ {0}
  BY ConstantsAssumption
<1>0. p \in 1 .. Len(client_script) /\ Len(client_script) = 15 + 3 * Atomics
  BY ClientScript
<1>1. SUFFICES \E op, arg : client_script[p] = <<op, arg>> /\ ClientCount(p, op, arg)
  BY <1>0
<1>2. CASE p \in 1 .. 13
  <2> USE <1>a DEF ClientCount, RungAt, SentAt, WrittenAt, RepliesAt, ReadAt, Tags
  <2>1. CASE p = 1
    <3>1. client_script[p] = <<"tag_recv", "test">>
      BY <2>1, ClientScript
    <3>2. ClientCount(p, "tag_recv", "test")
      BY <2>1
    <3> QED
      BY <3>1, <3>2
  <2>2. CASE p = 2
    <3>1. client_script[p] = <<"tag_send", "test">>
      BY <2>2, ClientScript
    <3>2. ClientCount(p, "tag_send", "test")
      BY <2>2
    <3> QED
      BY <3>1, <3>2
  <2>3. CASE p = 3
    <3>1. client_script[p] = <<"stream_recv", "hello">>
      BY <2>3, ClientScript
    <3>2. ClientCount(p, "stream_recv", "hello")
      BY <2>3
    <3> QED
      BY <3>1, <3>2
  <2>4. CASE p = 4
    <3>1. client_script[p] = <<"stream_send", "world">>
      BY <2>4, ClientScript
    <3>2. ClientCount(p, "stream_send", "world")
      BY <2>4
    <3> QED
      BY <3>1, <3>2
  <2>5. CASE p \in 5 .. 7 \/ p \in 11 .. 13
    <3>1. client_script[p] = <<"stream_recv", "memory">>
      BY <2>5, ClientScript
    <3>2. ClientCount(p, "stream_recv", "memory")
      BY <2>5
    <3> QED
      BY <3>1, <3>2
  <2>6. CASE p = 8
    <3>1. client_script[p] = <<"get", "buffer">>
      BY <2>6, ClientScript
    <3>2. ClientCount(p, "get", "buffer")
      BY <2>6
    <3> QED
      BY <3>1, <3>2
  <2>7. CASE p = 9
    <3>1. client_script[p] = <<"put", "buffer">>
      BY <2>7, ClientScript
    <3>2. ClientCount(p, "put", "buffer")
      BY <2>7
    <3> QED
      BY <3>1, <3>2
  <2>8. CASE p = 10
    <3>1. client_script[p] = <<"tag_send", "bell">>
      BY <2>8, ClientScript
    <3>2. ClientCount(p, "tag_send", "bell")
      BY <2>8
    <3> QED
      BY <3>1, <3>2
  <2> QED
    BY <1>2, <2>1, <2>2, <2>3, <2>4, <2>5, <2>6, <2>7, <2>8
<1>3. CASE p \in 14 .. 13 + 3 * Atomics
  <2> DEFINE k == (p - 11) \div 3
  <2>1. k \in 1 .. Atomics /\ p \in {11 + 3 * k, 12 + 3 * k, 13 + 3 * k}
    BY <1>a, <1>3
  <2> HIDE DEF k
  <2> USE <1>a, <2>1 DEF ClientCount, RungAt, SentAt, WrittenAt, RepliesAt, ReadAt, Tags
  <2>2. CASE p = 11 + 3 * k
    <3>1. client_script[p] = <<"atomic", "value">>
      BY <2>2, ClientScript
    <3>2. ClientCount(p, "atomic", "value")
      BY <2>2
    <3> QED
      BY <3>1, <3>2
  <2>3. CASE p = 12 + 3 * k
    <3>1. client_script[p] = <<"tag_send", "bell">>
      BY <2>3, ClientScript
    <3>2. ClientCount(p, "tag_send", "bell")
      BY <2>3
    <3> QED
      BY <3>1, <3>2
  <2>4. CASE p = 13 + 3 * k
    <3>1. client_script[p] = <<"tag_recv", "bell">>
      BY <2>4, ClientScript
    <3>2. ClientCount(p, "tag_recv", "bell")
      BY <2>4
    <3> QED
      BY <3>1, <3>2
  <2> QED
    BY <2>2, <2>3, <2>4
<1>4. CASE p \in {14 + 3 * Atomics, 15 + 3 * Atomics}
  <2> USE <1>a DEF ClientCount, RungAt, SentAt, WrittenAt, RepliesAt, ReadAt, Tags
  <2>1. ClientCount(p, "flush", "ep") /\ ClientCount(p, "close", "ep")
    BY <1>4
  <2> QED
    BY <1>4, <2>1, ClientScript
<1> QED
  BY <1>a, <1>0, <1>2, <1>3, <1>4

LEMMA HandlerCounts ==
  ASSUME NEW q \in DOMAIN handle_endpoint
  PROVE  /\ q \in 1 .. Len(handle_endpoint)
         /\ handle_endpoint[q] = <<handle_endpoint[q][1], handle_endpoint[q][2]>>
         /\ HandlerCount(q, handle_endpoint[q][1], handle_endpoint[q][2])
<1>a. Atomics \in Nat \ {0}
  BY ConstantsAssumption
<1>0. q \in 1 .. Len(handle_endpoint) /\ Len(handle_endpoint) = 13 + 2 * Atomics
  BY HandlerScript
<1>1. SUFFICES \E op, arg : handle_endpoint[q] = <<op, arg>> /\ HandlerCount(q, op, arg)
  BY <1>0
<1>2. CASE q \in 1 .. 11
  <2> USE <1>a DEF HandlerCount, BellsAt, AnsweredAt, SharedAt, Tags
  <2>1. CASE q = 1
    <3>1. handle_endpoint[q] = <<"tag_send", "test">>
      BY <2>1, HandlerScript
    <3>2. HandlerCount(q, "tag_send", "test")
      BY <2>1
    <3> QED
      BY <3>1, <3>2
  <2>2. CASE q = 2
    <3>1. handle_endpoint[q] = <<"tag_recv", "test">>
      BY <2>2, HandlerScript
    <3>2. HandlerCount(q, "tag_recv", "test")
      BY <2>2
    <3> QED
      BY <3>1, <3>2
  <2>3. CASE q = 3
    <3>1. handle_endpoint[q] = <<"stream_send", "hello">>
      BY <2>3, HandlerScript
    <3>2. HandlerCount(q, "stream_send", "hello")
      BY <2>3
    <3> QED
      BY <3>1, <3>2
  <2>4. CASE q = 4
    <3>1. handle_endpoint[q] = <<"stream_recv", "world">>
      BY <2>4, HandlerScript
    <3>2. HandlerCount(q, "stream_recv", "world")
      BY <2>4
    <3> QED
      BY <3>1, <3>2
  <2>5. CASE q \in 5 .. 7 \/ q \in 9 .. 11
    <3>1. handle_endpoint[q] = <<"stream_send", "memory">>
      BY <2>5, HandlerScript
    <3>2. HandlerCount(q, "stream_send", "memory")
      BY <2>5
    <3> QED
      BY <3>1, <3>2
  <2>6. CASE q = 8
    <3>1. handle_endpoint[q] = <<"tag_recv", "bell">>
      BY <2>6, HandlerScript
    <3>2. HandlerCount(q, "tag_recv", "bell")
      BY <2>6
    <3> QED
      BY <3>1, <3>2
  <2> QED
    BY <1>2, <2>1, <2>2, <2>3, <2>4, <2>5, <2>6
<1>3. CASE q \in 12 .. 11 + 2 * Atomics
  <2> DEFINE k == (q - 10) \div 2
  <2>1. k \in 1 .. Atomics /\ q \in {10 + 2 * k, 11 + 2 * k}
    BY <1>a, <1>3
  <2> HIDE DEF k
  <2> USE <1>a, <2>1 DEF HandlerCount, BellsAt, AnsweredAt, SharedAt, Tags
  <2>2. CASE q = 10 + 2 * k
    <3>1. handle_endpoint[q] = <<"tag_recv", "bell">>
      BY <2>2, HandlerScript
    <3>2. HandlerCount(q, "tag_recv", "bell")
      BY <2>2
    <3> QED
      BY <3>1, <3>2
  <2>3. CASE q = 11 + 2 * k
    <3>1. handle_endpoint[q] = <<"tag_send", "bell">>
      BY <2>3, HandlerScript
    <3>2. HandlerCount(q, "tag_send", "bell")
      BY <2>3
    <3> QED
      BY <3>1, <3>2
  <2> QED
    BY <2>2, <2>3
<1>4. CASE q \in {12 + 2 * Atomics, 13 + 2 * Atomics}
  <2> USE <1>a DEF HandlerCount, BellsAt, AnsweredAt, SharedAt, Tags
  <2>1. HandlerCount(q, "flush", "ep") /\ HandlerCount(q, "close", "ep")
    BY <1>4
  <2> QED
    BY <1>4, <2>1, HandlerScript
<1> QED
  BY <1>a, <1>0, <1>2, <1>3, <1>4

-----------------------------------------------------------------------------
(* What positions say of each other. *)

LEMMA ClientPositions ==
  ASSUME NEW p \in 0 .. Len(client_script) + 1
  PROVE  /\ RungAt(p) \in 0 .. Atomics + 1 /\ SentAt(p) \in 0 .. Atomics + 2
         /\ WrittenAt(p) \in Nat /\ RepliesAt(p) \in Nat /\ ReadAt(p) \in Nat
         /\ RungAt(p) <= WrittenAt(p)
         /\ SentAt(p) <= RungAt(p) + 1
         /\ p = Len(client_script) + 1 => SentAt(p) = Atomics + 2
<1>1. Len(client_script) = 15 + 3 * Atomics /\ Atomics \in Nat \ {0}
  BY ClientScript, ConstantsAssumption
<1> QED
  BY <1>1 DEF RungAt, SentAt, WrittenAt, RepliesAt, ReadAt

LEMMA HandlerPositions ==
  ASSUME NEW q \in 0 .. Len(handle_endpoint) + 1
  PROVE  /\ BellsAt(q) \in 0 .. Atomics + 1
         /\ AnsweredAt(q) \in Nat /\ SharedAt(q) \in Nat
         /\ q = Len(handle_endpoint) + 1 => BellsAt(q) = Atomics + 1
<1>1. Len(handle_endpoint) = 13 + 2 * Atomics /\ Atomics \in Nat \ {0}
  BY HandlerScript, ConstantsAssumption
<1> QED
  BY <1>1 DEF BellsAt, AnsweredAt, SharedAt

\* A client that waits for its handler's memory and bells rings at most one
\* bell more than the handler has received.
LEMMA ClientWaits ==
  ASSUME NEW p \in 0 .. Len(client_script) + 1,
         NEW q \in 0 .. Len(handle_endpoint) + 1,
         RepliesAt(p) <= AnsweredAt(q),
         ReadAt(p) <= SharedAt(q)
  PROVE  RungAt(p) <= BellsAt(q) + 1
<1>1. /\ Len(client_script) = 15 + 3 * Atomics
      /\ Len(handle_endpoint) = 13 + 2 * Atomics
      /\ Atomics \in Nat \ {0}
  BY ClientScript, HandlerScript, ConstantsAssumption
<1>2. RungAt(p) <= 1 \/ (RungAt(p) <= RepliesAt(p) + 2 /\ ReadAt(p) = 7)
  BY <1>1 DEF RungAt, RepliesAt, ReadAt
<1>3. SharedAt(q) >= 7 => AnsweredAt(q) + 1 <= BellsAt(q)
  BY <1>1 DEF SharedAt, AnsweredAt, BellsAt
<1> QED
  BY <1>2, <1>3, ClientPositions, HandlerPositions

-----------------------------------------------------------------------------
(* Counting bells. *)

LEMMA UnionSize ==
  ASSUME NEW S, NEW T, IsFiniteSet(S), IsFiniteSet(T)
  PROVE  /\ IsFiniteSet(S \cup T)
         /\ Cardinality(S \cup T) \in Nat
         /\ Cardinality(S \cup T) <= Cardinality(S) + Cardinality(T)
         /\ S \cap T = {} => Cardinality(S \cup T) = Cardinality(S) + Cardinality(T)
<1>1. /\ IsFiniteSet(S \cup T)
      /\ Cardinality(S \cup T) = Cardinality(S) + Cardinality(T) - Cardinality(S \cap T)
  BY FS_Union, Zenon
<1>2. IsFiniteSet(S \cap T)
  BY FS_Intersection, Zenon
<1>3. /\ Cardinality(S) \in Nat
      /\ Cardinality(T) \in Nat
      /\ Cardinality(S \cap T) \in Nat
      /\ Cardinality(S \cup T) \in Nat
  BY <1>1, <1>2, FS_CardinalityType, Zenon
<1>4. S \cap T = {} => Cardinality(S \cap T) = 0
  BY FS_EmptySet, Zenon
<1> QED
  BY <1>1, <1>3, <1>4

LEMMA UptoFinite ==
  ASSUME NEW f \in [Clients -> Nat], NEW m \in Nat, \A c \in Clients : f[c] <= m
  PROVE  IsFiniteSet(Upto(f))
<1>1. IsFiniteSet(Clients) /\ IsFiniteSet(0 .. m)
  BY ConstantsAssumption, FS_Interval
<1>2. IsFiniteSet(Clients \X (0 .. m))
  BY <1>1, FS_Product
<1>3. Upto(f) \in SUBSET (Clients \X (0 .. m))
  BY DEF Upto
<1> QED
  BY <1>2, <1>3, FS_Subset

LEMMA UptoNone ==
  ASSUME NEW f \in [Clients -> Nat], \A c \in Clients : f[c] = 0
  PROVE  Cardinality(Upto(f)) = 0
<1>1. Upto(f) = {}
  BY DEF Upto
<1> QED
  BY <1>1, FS_EmptySet

LEMMA UptoNext ==
  ASSUME NEW f \in [Clients -> Nat], NEW g \in [Clients -> Nat], NEW c \in Clients,
         IsFiniteSet(Upto(f)),
         g = [f EXCEPT ![c] = @ + 1]
  PROVE  Cardinality(Upto(g)) = Cardinality(Upto(f)) + 1
<1> DEFINE x == <<c, f[c] + 1>>
<1>1. Upto(g) = Upto(f) \cup {x}
  BY DEF Upto
<1>2. x \notin Upto(f)
  BY DEF Upto
<1> QED
  BY <1>1, <1>2, FS_AddElement

\* If no client is further ahead of its handler than one bell, and there are
\* no fewer bells than handlers have received, then no handler is further ahead
\* of its client than the other clients let it be.
LEMMA UptoExcess ==
  ASSUME NEW f \in [Clients -> Nat], NEW g \in [Clients -> Nat],
         IsFiniteSet(Upto(f)), IsFiniteSet(Upto(g)),
         \A d \in Clients : g[d] <= f[d] + 1,
         Cardinality(Upto(f)) <= Cardinality(Upto(g)),
         NEW c \in Clients
  PROVE  f[c] < g[c] + Cardinality(Clients)
<1> DEFINE Mine(n) == {c} \X (1 .. n)
           rest == {x \in Upto(f) : x[1] # c}
           ahead == {<<d, f[d] + 1>> : d \in Clients \ {c}}
           F == [d \in Clients \ {c} |-> <<d, f[d] + 1>>]
<1>0. IsFiniteSet(Clients) /\ Cardinality(Clients) \in Nat
  BY ConstantsAssumption, FS_CardinalityType
<1>1. \A n \in Nat : IsFiniteSet(Mine(n)) /\ Cardinality(Mine(n)) = n
  <2> SUFFICES ASSUME NEW n \in Nat
               PROVE  IsFiniteSet(Mine(n)) /\ Cardinality(Mine(n)) = n
    OBVIOUS
  <2>1. IsFiniteSet(1 .. n) /\ Cardinality(1 .. n) = n
    <3>1. 1 \in Int /\ n \in Int
      OBVIOUS
    <3>2. /\ IsFiniteSet(1 .. n)
          /\ Cardinality(1 .. n) = IF 1 > n THEN 0 ELSE n - 1 + 1
      BY <3>1, FS_Interval, Zenon
    <3> QED
      BY <3>2
  <2>2. IsFiniteSet({c}) /\ Cardinality({c}) = 1
    BY FS_Singleton
  <2>3. IsFiniteSet(Mine(n)) /\ Cardinality(Mine(n)) = Cardinality({c}) * Cardinality(1 .. n)
    BY <2>1, <2>2, FS_Product, Zenon
  <2> QED
    BY <2>1, <2>2, <2>3
<1>2. IsFiniteSet(rest) /\ Cardinality(rest) \in Nat
  BY FS_Subset, FS_CardinalityType
<1>3. IsFiniteSet(ahead) /\ Cardinality(ahead) <= Cardinality(Clients) - 1
      /\ Cardinality(ahead) \in Nat
  <2>1. IsFiniteSet(Clients \ {c}) /\ Cardinality(Clients \ {c}) = Cardinality(Clients) - 1
    BY <1>0, FS_RemoveElement
  <2>2. F \in Surjection(Clients \ {c}, ahead)
    BY DEF Surjection
  <2> QED
    BY <2>1, <2>2, FS_Surjection, FS_CardinalityType
<1>4. Cardinality(Upto(f)) = Cardinality(rest) + f[c]
  <2>1. Upto(f) = rest \cup Mine(f[c]) /\ rest \cap Mine(f[c]) = {}
    BY DEF Upto
  <2>2. f[c] \in Nat
    OBVIOUS
  <2> HIDE DEF rest, Mine
  <2> QED
    BY <1>1, <1>2, <2>1, <2>2, UnionSize
<1>5. Cardinality(Upto(g)) <= Cardinality(rest) + Cardinality(ahead) + g[c]
  <2>1. Upto(g) \subseteq (rest \cup ahead) \cup Mine(g[c])
    BY DEF Upto
  <2> HIDE DEF rest, ahead, Mine
  <2>2. /\ IsFiniteSet(rest \cup ahead)
        /\ Cardinality(rest \cup ahead) <= Cardinality(rest) + Cardinality(ahead)
        /\ Cardinality(rest \cup ahead) \in Nat
    BY <1>2, <1>3, UnionSize
  <2>3. /\ IsFiniteSet((rest \cup ahead) \cup Mine(g[c]))
        /\ Cardinality((rest \cup ahead) \cup Mine(g[c])) <= Cardinality(rest \cup ahead) + g[c]
        /\ Cardinality((rest \cup ahead) \cup Mine(g[c])) \in Nat
    <3>1. g[c] \in Nat
      OBVIOUS
    <3> QED
      BY <1>1, <2>2, <3>1, UnionSize
  <2>4. Cardinality(Upto(g)) <= Cardinality((rest \cup ahead) \cup Mine(g[c]))
        /\ Cardinality(Upto(g)) \in Nat
    BY <2>1, <2>3, FS_Subset, FS_CardinalityType
  <2> QED
    BY <1>2, <1>3, <2>2, <2>3, <2>4
<1>6. Cardinality(Upto(f)) \in Nat /\ Cardinality(Upto(g)) \in Nat
  BY FS_CardinalityType
<1> QED
  BY <1>0, <1>2, <1>3, <1>4, <1>5, <1>6

-----------------------------------------------------------------------------
(* Types. *)

\* TypeOK in parts: the provers treat Boolean variables differently.
DataOK ==
    /\ client \in [Clients -> 0 .. Len(client_script) + 1]
    /\ handler \in [Clients -> 0 .. Len(handle_endpoint) + 1]
    /\ up \in [Clients -> Seq(Tags)]
    /\ posted \in [Tags -> Seq(Clients)]
    /\ unexpected \in [Tags -> Nat]
    /\ down \in [Clients -> [Tags -> Nat]]
    /\ stream_up \in [Clients -> Nat]
    /\ stream_down \in [Clients -> Nat]
    /\ strayed \subseteq Clients

WaitOK ==
    \A t \in Tags, c \in Clients :
        c \in ToSet(posted[t]) => HandlerAwaits(c, "tag_recv") /\ HandlerArg(c) = t

LEMMA TypeParts == TypeOK <=> DataOK /\ alone \in BOOLEAN /\ WaitOK
BY DEF TypeOK, DataOK, WaitOK

\* The client, or the handler, of c goes on.
ClientMoves(c) == client[c] \in DOMAIN client_script /\ ClientGoesOn(c)
HandlerMoves(c) == handler[c] \in DOMAIN handle_endpoint /\ HandlerGoesOn(c)

\* The receive that was posted first.
LEMMA FirstPosted ==
  ASSUME DataOK, WaitOK, NEW t \in Tags, posted[t] # <<>>
  PROVE  /\ Head(posted[t]) \in Clients
         /\ HandlerAwaits(Head(posted[t]), "tag_recv")
         /\ HandlerArg(Head(posted[t])) = t
         /\ Head(posted[t]) = posted[t][1] /\ 1 \in 1 .. Len(posted[t])
<1>1. posted[t] \in Seq(Clients)
  BY DEF DataOK
<1>2. Head(posted[t]) = posted[t][1] /\ 1 \in 1 .. Len(posted[t])
      /\ posted[t][1] \in Clients
  BY <1>1
<1>3. Head(posted[t]) \in ToSet(posted[t])
  BY <1>1, <1>2 DEF ToSet
<1> QED
  BY <1>2, <1>3 DEF WaitOK

\* A message arrives.
LEMMA FirstSent ==
  ASSUME DataOK, NEW c \in Clients, up[c] # <<>>
  PROVE  Head(up[c]) \in Tags /\ Head(up[c]) = up[c][1] /\ Len(up[c]) \in Nat \ {0}
         /\ Tail(up[c]) \in Seq(Tags) /\ Len(Tail(up[c])) = Len(up[c]) - 1
         /\ \A i \in 1 .. Len(up[c]) - 1 : Tail(up[c])[i] = up[c][i + 1]
<1>1. up[c] \in Seq(Tags)
  BY DEF DataOK
<1> QED
  BY <1>1

\* Which positions a step changes.
LEMMA StepMoves ==
  ASSUME DataOK, WaitOK, Next
  PROVE  \/ \E c \in Clients : connect(c)
         \/ UNCHANGED handler /\ \E c \in Clients : ClientMoves(c)
         \/ UNCHANGED client /\ \E c \in Clients : HandlerMoves(c)
         \/ UNCHANGED <<client, handler>>
<1> PICK c \in Clients : connect(c) \/ ClientStep(c) \/ HandlerStep(c) \/ arrive(c)
  BY DEF Next
<1>1. CASE connect(c)
  BY <1>1
<1>2. CASE ClientStep(c)
  <2>1. CASE client_strays(c)
    BY <2>1 DEF client_strays
  <2>2. CASE client_tag_send(c) \/ client_tag_recv(c) \/ client_stream_send(c)
             \/ client_stream_recv(c) \/ client_access(c) \/ client_ends(c)
    BY <2>2 DEF client_tag_send, client_tag_recv, client_stream_send,
                client_stream_recv, client_access, client_ends, Accesses,
                ClientAwaits, ClientRuns, ClientMoves
  <2> QED
    BY <1>2, <2>1, <2>2 DEF ClientStep
<1>3. CASE HandlerStep(c)
  <2>1. CASE handler_tag_recv(c)
    BY <2>1 DEF handler_tag_recv, HandlerAwaits, HandlerRuns, HandlerMoves
  <2>2. CASE handler_tag_send(c) \/ handler_stream_send(c)
             \/ handler_stream_recv(c) \/ handler_ends(c)
    BY <2>2 DEF handler_tag_send, handler_stream_send, handler_stream_recv,
                handler_ends, HandlerAwaits, HandlerRuns, HandlerMoves
  <2> QED
    BY <1>3, <2>1, <2>2 DEF HandlerStep
<1>4. CASE arrive(c)
  <2>1. Head(up[c]) \in Tags
    BY <1>4, FirstSent DEF arrive
  <2>2. CASE posted[Head(up[c])] = <<>>
    BY <1>4, <2>2 DEF arrive
  <2>3. CASE posted[Head(up[c])] # <<>>
    BY <1>4, <2>1, <2>3, FirstPosted DEF arrive, HandlerAwaits, HandlerRuns, HandlerMoves
  <2> QED
    BY <2>2, <2>3
<1> QED
  BY <1>1, <1>2, <1>3, <1>4

LEMMA PositionsStep ==
  ASSUME DataOK, WaitOK, Next
  PROVE  /\ client' \in [Clients -> 0 .. Len(client_script) + 1]
         /\ handler' \in [Clients -> 0 .. Len(handle_endpoint) + 1]
<1>1. /\ Len(client_script) \in Nat /\ DOMAIN client_script = 1 .. Len(client_script)
      /\ Len(handle_endpoint) \in Nat /\ DOMAIN handle_endpoint = 1 .. Len(handle_endpoint)
      /\ Len(client_script) >= 1 /\ Len(handle_endpoint) >= 1
  BY ClientScript, HandlerScript, ConstantsAssumption
<1>2. CASE UNCHANGED <<client, handler>>
  BY <1>2 DEF DataOK
<1>3. ASSUME NEW c \in Clients, connect(c)
      PROVE  /\ client' \in [Clients -> 0 .. Len(client_script) + 1]
             /\ handler' \in [Clients -> 0 .. Len(handle_endpoint) + 1]
  BY <1>1, <1>3 DEF DataOK, connect
<1>4. ASSUME NEW c \in Clients, ClientMoves(c)
      PROVE  client' \in [Clients -> 0 .. Len(client_script) + 1]
  BY <1>1, <1>4 DEF DataOK, ClientMoves, ClientGoesOn
<1>5. ASSUME NEW c \in Clients, HandlerMoves(c)
      PROVE  handler' \in [Clients -> 0 .. Len(handle_endpoint) + 1]
  BY <1>1, <1>5 DEF DataOK, HandlerMoves, HandlerGoesOn
<1>6. CASE UNCHANGED handler /\ \E c \in Clients : ClientMoves(c)
  BY <1>4, <1>6 DEF DataOK
<1>7. CASE UNCHANGED client /\ \E c \in Clients : HandlerMoves(c)
  BY <1>5, <1>7 DEF DataOK
<1> QED
  BY <1>2, <1>3, <1>6, <1>7, StepMoves

LEMMA DataStep == DataOK /\ WaitOK /\ Next => DataOK'
<1> SUFFICES ASSUME DataOK, WaitOK, Next
             PROVE  DataOK'
  OBVIOUS
<1>0. /\ client' \in [Clients -> 0 .. Len(client_script) + 1]
      /\ handler' \in [Clients -> 0 .. Len(handle_endpoint) + 1]
  BY PositionsStep
<1> PICK c \in Clients : connect(c) \/ ClientStep(c) \/ HandlerStep(c) \/ arrive(c)
  BY DEF Next
<1> USE DEF DataOK, tagVars, streamVars, historyVars
<1>1. CASE connect(c)
  BY <1>0, <1>1 DEF connect
<1>2. CASE ClientStep(c)
  <2>1. CASE client_tag_send(c)
    <3>1. ClientArg(c) \in Tags
      BY <2>1, ClientCounts
         DEF client_tag_send, ClientAwaits, ClientRuns, ClientArg, ClientCount
    <3> QED
      BY <1>0, <2>1, <3>1 DEF client_tag_send
  <2>2. CASE client_tag_recv(c)
    <3>1. ClientArg(c) \in Tags
      BY <2>2, ClientCounts
         DEF client_tag_recv, ClientAwaits, ClientRuns, ClientArg, ClientCount
    <3>2. down' \in [Clients -> [Tags -> Nat]]
      <4> DEFINE t == ClientArg(c)
      <4>1. down' = [down EXCEPT ![c][t] = down[c][t] - 1] /\ down[c][t] > 0
        BY <2>2 DEF client_tag_recv
      <4> HIDE DEF t
      <4>2. t \in Tags
        BY <3>1 DEF t
      <4>3. down[c][t] - 1 \in Nat
        BY <4>1, <4>2
      <4> QED
        BY <4>1, <4>2, <4>3
    <3> QED
      BY <1>0, <2>2, <3>2 DEF client_tag_recv
  <2>3. CASE client_stream_send(c)
    BY <1>0, <2>3 DEF client_stream_send
  <2>4. CASE client_stream_recv(c)
    BY <1>0, <2>4 DEF client_stream_recv
  <2>5. CASE client_access(c) \/ client_strays(c) \/ client_ends(c)
    BY <1>0, <2>5 DEF client_access, client_strays, client_ends
  <2> QED
    BY <1>2, <2>1, <2>2, <2>3, <2>4, <2>5 DEF ClientStep
<1>3. CASE HandlerStep(c)
  <2>1. CASE handler_tag_send(c)
    <3>1. HandlerArg(c) \in Tags
      BY <2>1, HandlerCounts
         DEF handler_tag_send, HandlerAwaits, HandlerRuns, HandlerArg, HandlerCount
    <3> QED
      BY <1>0, <2>1, <3>1 DEF handler_tag_send
  <2>2. CASE handler_tag_recv(c)
    <3>1. HandlerArg(c) \in Tags
      BY <2>2, HandlerCounts
         DEF handler_tag_recv, HandlerAwaits, HandlerRuns, HandlerArg, HandlerCount
    <3> DEFINE t == HandlerArg(c)
    <3>2. CASE unexpected[t] > 0
      <4>1. unexpected' = [unexpected EXCEPT ![t] = unexpected[t] - 1] /\ UNCHANGED posted
        BY <2>2, <3>2 DEF handler_tag_recv, Finds
      <4> HIDE DEF t
      <4>2. t \in Tags
        BY <3>1 DEF t
      <4>3. unexpected[t] - 1 \in Nat
        BY <3>2, <4>2
      <4>4. unexpected' \in [Tags -> Nat]
        BY <4>1, <4>2, <4>3
      <4> QED
        BY <1>0, <2>2, <4>1, <4>4 DEF handler_tag_recv
    <3>3. CASE ~(unexpected[t] > 0)
      <4>1. posted' = [posted EXCEPT ![t] = Append(posted[t], c)] /\ UNCHANGED unexpected
        BY <2>2, <3>3 DEF handler_tag_recv, Finds
      <4> HIDE DEF t
      <4>2. posted' \in [Tags -> Seq(Clients)]
        BY <3>1, <4>1 DEF t
      <4> QED
        BY <1>0, <2>2, <4>1, <4>2 DEF handler_tag_recv
    <3> QED
      BY <3>2, <3>3
  <2>3. CASE handler_stream_send(c)
    BY <1>0, <2>3 DEF handler_stream_send
  <2>4. CASE handler_stream_recv(c)
    BY <1>0, <2>4 DEF handler_stream_recv
  <2>5. CASE handler_ends(c)
    BY <1>0, <2>5 DEF handler_ends
  <2> QED
    BY <1>3, <2>1, <2>2, <2>3, <2>4, <2>5 DEF HandlerStep
<1>4. CASE arrive(c)
  <2>1. Head(up[c]) \in Tags /\ Tail(up[c]) \in Seq(Tags)
    BY <1>4, FirstSent DEF arrive
  <2>2. up' \in [Clients -> Seq(Tags)]
    BY <1>4, <2>1 DEF arrive
  <2> DEFINE t == Head(up[c])
  <2>3. \/ posted[t] # <<>> /\ posted' = [posted EXCEPT ![t] = Tail(posted[t])]
           /\ UNCHANGED unexpected
        \/ unexpected' = [unexpected EXCEPT ![t] = unexpected[t] + 1] /\ UNCHANGED posted
    BY <1>4 DEF arrive, Takes
  <2>4. t \in Tags
    BY <2>1
  <2> HIDE DEF t
  <2>5. posted' \in [Tags -> Seq(Clients)] /\ unexpected' \in [Tags -> Nat]
    <3>1. posted[t] # <<>> => Tail(posted[t]) \in Seq(Clients)
      BY <2>4
    <3>2. unexpected[t] + 1 \in Nat
      BY <2>4
    <3>3. CASE posted[t] # <<>> /\ posted' = [posted EXCEPT ![t] = Tail(posted[t])]
               /\ UNCHANGED unexpected
      BY <2>4, <3>1, <3>3
    <3>4. CASE unexpected' = [unexpected EXCEPT ![t] = unexpected[t] + 1]
               /\ UNCHANGED posted
      BY <2>4, <3>2, <3>4
    <3> QED
      BY <2>3, <3>3, <3>4
  <2> QED
    BY <1>0, <1>4, <2>2, <2>5 DEF arrive
<1> QED
  BY <1>1, <1>2, <1>3, <1>4

\* Whatever moves a handler, it does not move one whose receive is posted,
\* unless it takes that receive from the queue.
LEMMA PostedStep ==
  ASSUME DataOK, WaitOK, PostedInv, StartInv, Next
  PROVE  /\ \A t \in Tags, d \in Clients :
               d \in ToSet(posted'[t]) =>
                  \/ d \in ToSet(posted[t]) /\ handler'[d] = handler[d]
                  \/ HandlerAwaits(d, "tag_recv") /\ HandlerArg(d) = t /\ UNCHANGED handler
         /\ PostedInv'
<1> PICK c \in Clients : connect(c) \/ ClientStep(c) \/ HandlerStep(c) \/ arrive(c)
  BY DEF Next
<1>0. \A t \in Tags : posted[t] \in Seq(Clients)
  BY DEF DataOK
<1>1. CASE UNCHANGED <<posted, handler>>
  BY <1>1 DEF PostedInv
<1>2. ASSUME UNCHANGED posted, \A t \in Tags : c \notin ToSet(posted[t]),
             handler' = [handler EXCEPT ![c] = handler'[c]]
      PROVE  /\ \A t \in Tags, d \in Clients :
                   d \in ToSet(posted'[t]) => d \in ToSet(posted[t]) /\ handler'[d] = handler[d]
             /\ PostedInv'
  BY <1>2 DEF PostedInv, DataOK
<1>3. CASE connect(c)
  <2>1. handler[c] \notin DOMAIN handle_endpoint
    BY <1>3, HandlerScript DEF connect, StartInv
  <2>2. \A t \in Tags : c \notin ToSet(posted[t])
    BY <2>1 DEF WaitOK, HandlerAwaits, HandlerRuns
  <2> QED
    BY <1>2, <1>3, <2>2 DEF connect, tagVars, DataOK
<1>4. CASE ClientStep(c)
  BY <1>1, <1>4 DEF ClientStep, client_tag_send, client_tag_recv, client_stream_send,
     client_stream_recv, client_access, client_strays, client_ends, tagVars
<1>5. CASE handler_tag_send(c) \/ handler_stream_send(c) \/ handler_stream_recv(c)
           \/ handler_ends(c)
  <2>1. handle_endpoint[handler[c]][1] # "tag_recv"
    BY <1>5 DEF handler_tag_send, handler_stream_send, handler_stream_recv,
                handler_ends, HandlerAwaits
  <2>2. \A t \in Tags : c \notin ToSet(posted[t])
    BY <2>1 DEF WaitOK, HandlerAwaits
  <2>3. UNCHANGED posted /\ HandlerGoesOn(c)
    BY <1>5 DEF handler_tag_send, handler_stream_send, handler_stream_recv,
                handler_ends, tagVars
  <2> QED
    BY <1>2, <2>2, <2>3 DEF HandlerGoesOn, DataOK
<1>6. CASE handler_tag_recv(c)
  <2>1. HandlerAwaits(c, "tag_recv") /\ \A t \in Tags : c \notin ToSet(posted[t])
    BY <1>6 DEF handler_tag_recv
  <2> DEFINE r == HandlerArg(c)
  <2>2. \/ HandlerGoesOn(c) /\ UNCHANGED posted
        \/ posted' = [posted EXCEPT ![r] = Append(posted[r], c)] /\ UNCHANGED handler
    BY <1>6 DEF handler_tag_recv
  <2>3. CASE HandlerGoesOn(c) /\ UNCHANGED posted
    BY <1>2, <2>1, <2>3 DEF HandlerGoesOn, DataOK
  <2>4. CASE posted' = [posted EXCEPT ![r] = Append(posted[r], c)] /\ UNCHANGED handler
    <3>1. r \in Tags
      BY <2>1, HandlerCounts DEF HandlerAwaits, HandlerRuns, HandlerArg, HandlerCount
    <3>2. HandlerArg(c) = r
      OBVIOUS
    <3> HIDE DEF r
    <3>3. /\ posted'[r] = Append(posted[r], c)
          /\ \A t \in Tags \ {r} : posted'[t] = posted[t]
      BY <2>4, <3>1 DEF DataOK
    <3>4. /\ Len(posted'[r]) = Len(posted[r]) + 1
          /\ posted'[r][Len(posted[r]) + 1] = c
          /\ \A i \in 1 .. Len(posted[r]) : posted'[r][i] = posted[r][i]
          /\ Len(posted[r]) \in Nat /\ posted'[r] \in Seq(Clients)
      BY <1>0, <3>1, <3>3
    <3>5. \A d \in ToSet(posted'[r]) : d \in ToSet(posted[r]) \/ d = c
      BY <1>0, <3>1, <3>4 DEF ToSet
    <3>6. \A i \in 1 .. Len(posted[r]) : posted[r][i] # c
      BY <1>0, <2>1, <3>1 DEF ToSet
    <3>7. \A i, j \in 1 .. Len(posted'[r]) : posted'[r][i] = posted'[r][j] => i = j
      BY <3>1, <3>4, <3>6 DEF PostedInv
    <3> QED
      BY <2>1, <2>4, <3>1, <3>2, <3>3, <3>5, <3>7 DEF PostedInv
  <2> QED
    BY <2>2, <2>3, <2>4
<1>7. CASE arrive(c)
  <2> DEFINE r == Head(up[c])
             h == Head(posted[r])
  <2>1. r \in Tags
    BY <1>7, FirstSent DEF arrive
  <2>2. \/ UNCHANGED <<posted, handler>>
        \/ /\ posted[r] # <<>>
           /\ posted' = [posted EXCEPT ![r] = Tail(posted[r])]
           /\ handler' = [handler EXCEPT ![h] = handler[h] + 1]
    BY <1>7 DEF arrive, Takes, HandlerGoesOn
  <2>3. CASE /\ posted[r] # <<>>
             /\ posted' = [posted EXCEPT ![r] = Tail(posted[r])]
             /\ handler' = [handler EXCEPT ![h] = handler[h] + 1]
    <3>1. h \in Clients /\ HandlerArg(h) = r /\ h = posted[r][1] /\ 1 \in 1 .. Len(posted[r])
      BY <2>1, <2>3, FirstPosted
    <3> HIDE DEF r, h
    <3>2. /\ posted'[r] = Tail(posted[r])
          /\ \A t \in Tags \ {r} : posted'[t] = posted[t]
      BY <2>1, <2>3 DEF DataOK
    <3>3. /\ Len(posted'[r]) = Len(posted[r]) - 1 /\ posted'[r] \in Seq(Clients)
          /\ \A i \in 1 .. Len(posted[r]) - 1 : posted'[r][i] = posted[r][i + 1]
          /\ Len(posted[r]) \in Nat
      <4>1. posted[r] \in Seq(Clients) /\ posted[r] # <<>>
        BY <1>0, <2>1, <2>3
      <4> QED
        BY <3>2, <4>1
    <3>4. \A d \in ToSet(posted'[r]) : d \in ToSet(posted[r]) /\ d # h
      <4> SUFFICES ASSUME NEW i \in 1 .. Len(posted[r]) - 1
                   PROVE  posted[r][i + 1] \in ToSet(posted[r]) /\ posted[r][i + 1] # h
        BY <1>0, <2>1, <3>3 DEF ToSet
      <4>1. i + 1 \in 1 .. Len(posted[r]) /\ i + 1 # 1
        BY <3>3
      <4> QED
        BY <1>0, <2>1, <3>1, <4>1 DEF ToSet, PostedInv
    <3>5. \A t \in Tags \ {r} : h \notin ToSet(posted[t])
      BY <3>1 DEF WaitOK
    <3>6. \A d \in Clients \ {h} : handler'[d] = handler[d]
      BY <2>3 DEF DataOK
    <3>7. \A i, j \in 1 .. Len(posted'[r]) : posted'[r][i] = posted'[r][j] => i = j
      <4> SUFFICES ASSUME NEW i \in 1 .. Len(posted[r]) - 1, NEW j \in 1 .. Len(posted[r]) - 1,
                          posted[r][i + 1] = posted[r][j + 1]
                   PROVE  i = j
        BY <3>3
      <4>1. i + 1 \in 1 .. Len(posted[r]) /\ j + 1 \in 1 .. Len(posted[r])
        BY <3>3
      <4>2. i + 1 = j + 1
        BY <2>1, <4>1 DEF PostedInv
      <4> QED
        BY <4>2
    <3> QED
      BY <2>1, <3>2, <3>4, <3>5, <3>6, <3>7 DEF PostedInv
  <2> QED
    BY <1>1, <2>2, <2>3
<1> QED
  BY <1>3, <1>4, <1>5, <1>6, <1>7 DEF HandlerStep

LEMMA WaitStep == DataOK /\ WaitOK /\ PostedInv /\ StartInv /\ Next => WaitOK'
<1> SUFFICES ASSUME DataOK, WaitOK, PostedInv, StartInv, Next,
                    NEW t \in Tags, NEW d \in Clients, d \in ToSet(posted'[t])
             PROVE  HandlerAwaits(d, "tag_recv")' /\ HandlerArg(d)' = t
  BY DEF WaitOK
<1>1. HandlerAwaits(d, "tag_recv") /\ HandlerArg(d) = t /\ handler'[d] = handler[d]
  BY PostedStep DEF WaitOK
<1> QED
  BY <1>1 DEF HandlerAwaits, HandlerRuns, HandlerArg

LEMMA StartStep == DataOK /\ WaitOK /\ StartInv /\ Next => StartInv'
<1> SUFFICES ASSUME DataOK, WaitOK, StartInv, Next
             PROVE  StartInv'
  OBVIOUS
<1>0. 0 \notin DOMAIN client_script /\ 0 \notin DOMAIN handle_endpoint
  BY ClientScript, HandlerScript
<1>1. ASSUME NEW c \in Clients, connect(c)
      PROVE  StartInv'
  BY <1>1 DEF connect, StartInv, DataOK
<1>2. ASSUME NEW c \in Clients, ClientMoves(c), UNCHANGED handler
      PROVE  StartInv'
  BY <1>0, <1>2 DEF ClientMoves, ClientGoesOn, StartInv, DataOK
<1>3. ASSUME NEW c \in Clients, HandlerMoves(c), UNCHANGED client
      PROVE  StartInv'
  BY <1>0, <1>3 DEF HandlerMoves, HandlerGoesOn, StartInv, DataOK
<1>4. CASE UNCHANGED <<client, handler>>
  BY <1>4 DEF StartInv
<1> QED
  BY <1>1, <1>2, <1>3, <1>4, StepMoves

-----------------------------------------------------------------------------
(* Counting. *)

LEMMA InitCount == Init => CountInv
<1> SUFFICES ASSUME Init, NEW c \in Clients
             PROVE  Bells(c) = BellsAt(handler[c]) /\ Written(c) = WrittenAt(client[c])
  BY DEF CountInv
<1>1. client[c] = 0 /\ handler[c] = 0
  BY DEF Init
<1>2. /\ {i \in 1 .. handler[c] - 1 : handle_endpoint[i] = <<"tag_recv", "bell">>} = {}
      /\ {i \in 1 .. client[c] - 1 : client_script[i][1] \in {"put", "atomic"}} = {}
  BY <1>1
<1>3. BellsAt(0) = 0 /\ WrittenAt(0) = 0
  BY DEF BellsAt, WrittenAt
<1> QED
  BY <1>1, <1>2, <1>3, FS_EmptySet DEF Bells, Written

LEMMA CountStep == DataOK /\ WaitOK /\ CountInv /\ Next => CountInv'
<1> SUFFICES ASSUME DataOK, WaitOK, CountInv, Next
             PROVE  CountInv'
  OBVIOUS
<1> DEFINE B(q) == {i \in 1 .. q - 1 : handle_endpoint[i] = <<"tag_recv", "bell">>}
           W(p) == {i \in 1 .. p - 1 : client_script[i][1] \in {"put", "atomic"}}
<1>1. ASSUME NEW d \in Clients
      PROVE  /\ Bells(d) = Cardinality(B(handler[d])) /\ Written(d) = Cardinality(W(client[d]))
             /\ Bells(d)' = Cardinality(B(handler'[d])) /\ Written(d)' = Cardinality(W(client'[d]))
  BY DEF Bells, Written
<1>2. ASSUME NEW q \in Nat
      PROVE  IsFiniteSet(B(q)) /\ IsFiniteSet(W(q))
  <2>1. 1 \in Int /\ q - 1 \in Int
    OBVIOUS
  <2>2. IsFiniteSet(1 .. q - 1)
    BY <2>1, FS_Interval, Zenon
  <2> QED
    BY <2>2, FS_Subset
<1>3. ASSUME NEW c \in Clients, HandlerMoves(c)
      PROVE  \A d \in Clients : Bells(d)' = BellsAt(handler'[d])
  <2> DEFINE q == handler[c]
  <2>1. /\ q \in Nat \ {0} /\ handler' = [handler EXCEPT ![c] = q + 1]
        /\ handle_endpoint[q] = <<handle_endpoint[q][1], handle_endpoint[q][2]>>
        /\ BellsAt(q + 1) = BellsAt(q) + (IF handle_endpoint[q][1] = "tag_recv"
                                             /\ handle_endpoint[q][2] = "bell" THEN 1 ELSE 0)
    BY <1>3, HandlerCounts DEF HandlerMoves, HandlerGoesOn, HandlerCount
  <2>2. handle_endpoint[q] = <<"tag_recv", "bell">> <=>
           handle_endpoint[q][1] = "tag_recv" /\ handle_endpoint[q][2] = "bell"
    BY <2>1
  <2>3. Cardinality(B(q)) = BellsAt(q)
    BY <1>1 DEF CountInv
  <2> HIDE DEF q
  <2>4. B(q + 1) = IF handle_endpoint[q] = <<"tag_recv", "bell">> THEN B(q) \cup {q} ELSE B(q)
    BY <2>1
  <2>5. q \notin B(q)
    BY <2>1
  <2> HIDE DEF B, W
  <2>6. Cardinality(B(q) \cup {q}) = Cardinality(B(q)) + 1
    BY <1>2, <2>1, <2>5, FS_AddElement
  <2>7. Cardinality(B(q + 1)) = BellsAt(q + 1)
    <3>1. BellsAt(q) \in Int
      BY HandlerPositions DEF DataOK, q
    <3>2. CASE handle_endpoint[q] = <<"tag_recv", "bell">>
      <4>1. BellsAt(q + 1) = BellsAt(q) + 1
        BY <2>1, <2>2, <3>2
      <4>2. B(q + 1) = B(q) \cup {q}
        BY <2>4, <3>2
      <4> QED
        BY <2>3, <2>6, <4>1, <4>2
    <3>3. CASE handle_endpoint[q] # <<"tag_recv", "bell">>
      <4>1. BellsAt(q + 1) = BellsAt(q)
        BY <2>1, <2>2, <3>1, <3>3
      <4>2. B(q + 1) = B(q)
        BY <2>4, <3>3
      <4> QED
        BY <2>3, <4>1, <4>2
    <3> QED
      BY <3>2, <3>3
  <2>8. \A d \in Clients \ {c} : Bells(d) = BellsAt(handler[d]) /\ handler'[d] = handler[d]
    BY <2>1 DEF CountInv, DataOK
  <2>9. handler'[c] = q + 1
    BY <2>1 DEF DataOK
  <2> QED
    BY <1>1, <2>7, <2>8, <2>9
<1>4. ASSUME NEW c \in Clients, ClientMoves(c)
      PROVE  \A d \in Clients : Written(d)' = WrittenAt(client'[d])
  <2> DEFINE p == client[c]
  <2>1. /\ p \in Nat \ {0} /\ client' = [client EXCEPT ![c] = p + 1]
        /\ WrittenAt(p + 1) =
              WrittenAt(p) + (IF client_script[p][1] \in {"put", "atomic"} THEN 1 ELSE 0)
    BY <1>4, ClientCounts DEF ClientMoves, ClientGoesOn, ClientCount
  <2>2. Cardinality(W(p)) = WrittenAt(p)
    BY <1>1 DEF CountInv
  <2> HIDE DEF p
  <2>3. W(p + 1) = IF client_script[p][1] \in {"put", "atomic"} THEN W(p) \cup {p} ELSE W(p)
    BY <2>1
  <2>4. p \notin W(p)
    BY <2>1
  <2> HIDE DEF B, W
  <2>5. Cardinality(W(p) \cup {p}) = Cardinality(W(p)) + 1
    BY <1>2, <2>1, <2>4, FS_AddElement
  <2>6. Cardinality(W(p + 1)) = WrittenAt(p + 1)
    <3>1. WrittenAt(p) \in Int
      BY ClientPositions DEF DataOK, p
    <3>2. CASE client_script[p][1] \in {"put", "atomic"}
      <4>1. WrittenAt(p + 1) = WrittenAt(p) + 1
        BY <2>1, <3>2
      <4>2. W(p + 1) = W(p) \cup {p}
        BY <2>3, <3>2
      <4> QED
        BY <2>2, <2>5, <4>1, <4>2
    <3>3. CASE client_script[p][1] \notin {"put", "atomic"}
      <4>1. WrittenAt(p + 1) = WrittenAt(p)
        BY <2>1, <3>1, <3>3
      <4>2. W(p + 1) = W(p)
        BY <2>3, <3>3
      <4> QED
        BY <2>2, <4>1, <4>2
    <3> QED
      BY <3>2, <3>3
  <2>7. \A d \in Clients \ {c} : Written(d) = WrittenAt(client[d]) /\ client'[d] = client[d]
    BY <2>1 DEF CountInv, DataOK
  <2>8. client'[c] = p + 1
    BY <2>1 DEF DataOK
  <2> QED
    BY <1>1, <2>6, <2>7, <2>8
<1>5. ASSUME NEW c \in Clients, connect(c)
      PROVE  CountInv'
  <2>1. /\ handler' = [handler EXCEPT ![c] = 1] /\ client' = [client EXCEPT ![c] = 1]
    BY <1>5 DEF connect
  <2>2. B(1) = {} /\ W(1) = {} /\ BellsAt(1) = 0 /\ WrittenAt(1) = 0
    BY DEF BellsAt, WrittenAt
  <2>3. /\ handler'[c] = 1 /\ client'[c] = 1
        /\ \A d \in Clients \ {c} : handler'[d] = handler[d] /\ client'[d] = client[d]
    BY <2>1 DEF DataOK
  <2> HIDE DEF B, W
  <2>4. Cardinality(B(1)) = BellsAt(1) /\ Cardinality(W(1)) = WrittenAt(1)
    BY <2>2, FS_EmptySet, Zenon
  <2>5. Bells(c)' = BellsAt(handler'[c]) /\ Written(c)' = WrittenAt(client'[c])
    BY <1>1, <2>3, <2>4
  <2>6. ASSUME NEW d \in Clients \ {c}
        PROVE  Bells(d)' = BellsAt(handler'[d]) /\ Written(d)' = WrittenAt(client'[d])
    BY <1>1, <2>3 DEF CountInv
  <2> QED
    BY <2>5, <2>6 DEF CountInv
<1>6. ASSUME UNCHANGED handler
      PROVE  \A d \in Clients : Bells(d)' = BellsAt(handler'[d])
  BY <1>1, <1>6 DEF CountInv
<1>7. ASSUME UNCHANGED client
      PROVE  \A d \in Clients : Written(d)' = WrittenAt(client'[d])
  BY <1>1, <1>7 DEF CountInv
<1> HIDE DEF B, W
<1>8. CASE \E c \in Clients : connect(c)
  BY <1>5, <1>8
<1>9. CASE UNCHANGED handler /\ \E c \in Clients : ClientMoves(c)
  BY <1>4, <1>6, <1>9 DEF CountInv
<1>10. CASE UNCHANGED client /\ \E c \in Clients : HandlerMoves(c)
  BY <1>3, <1>7, <1>10 DEF CountInv
<1>11. CASE UNCHANGED <<client, handler>>
  BY <1>6, <1>7, <1>11 DEF CountInv
<1> QED
  BY <1>8, <1>9, <1>10, <1>11, StepMoves

-----------------------------------------------------------------------------
(* Messages of a client, in order. *)

LEMMA ArrivedNat ==
  ASSUME DataOK, OrderInv, NEW c \in Clients
  PROVE  /\ Arrived(c) \in 0 .. Atomics + 2 /\ SentAt(client[c]) \in Nat
         /\ Len(up[c]) \in Nat /\ up[c] \in Seq(Tags)
<1>1. SentAt(client[c]) \in 0 .. Atomics + 2 /\ up[c] \in Seq(Tags)
  BY ClientPositions DEF DataOK
<1>2. Len(up[c]) \in Nat /\ Len(up[c]) <= SentAt(client[c])
  BY <1>1 DEF OrderInv
<1>3. Atomics \in Nat
  BY ConstantsAssumption
<1> QED
  BY <1>1, <1>2, <1>3 DEF Arrived

\* Only an arrival changes how many messages have arrived.
LEMMA ArrivedStays ==
  ASSUME DataOK, OrderInv, NEW c \in Clients,
         connect(c) \/ ClientStep(c) \/ HandlerStep(c)
  PROVE  OrderInv' /\ \A d \in Clients : Arrived(d)' = Arrived(d)
<1>1. CASE /\ UNCHANGED up
           /\ \A d \in Clients : SentAt(client'[d]) = SentAt(client[d])
  BY <1>1 DEF OrderInv, Arrived
<1>2. CASE connect(c)
  <2>1. SentAt(0) = 0 /\ SentAt(1) = 0
    BY DEF SentAt
  <2>2. /\ \A d \in Clients \ {c} : client'[d] = client[d]
        /\ client[c] = 0 /\ client'[c] = 1 /\ UNCHANGED up
    BY <1>2 DEF connect, tagVars, DataOK
  <2> QED
    BY <1>1, <2>1, <2>2
<1>3. CASE HandlerStep(c)
  <2>1. UNCHANGED <<client, up>>
    BY <1>3 DEF HandlerStep, handler_tag_send, handler_tag_recv, handler_stream_send,
       handler_stream_recv, handler_ends, tagVars
  <2> QED
    BY <1>1, <2>1
<1>4. ASSUME ClientMoves(c)
      PROVE  LET p == client[c] IN
             /\ client'[c] = p + 1 /\ SentAt(p) \in Nat
             /\ \A d \in Clients \ {c} : client'[d] = client[d]
             /\ SentAt(p + 1) =
                   SentAt(p) + (IF client_script[p][1] = "tag_send" THEN 1 ELSE 0)
             /\ client_script[p][1] = "tag_send" =>
                   client_script[p][2] \in Tags
                   /\ (client_script[p][2] = "test" <=> SentAt(p) = 0)
  <2> DEFINE p == client[c]
  <2>1. p \in DOMAIN client_script /\ client' = [client EXCEPT ![c] = p + 1]
    BY <1>4 DEF ClientMoves, ClientGoesOn
  <2>2. client'[c] = p + 1 /\ \A d \in Clients \ {c} : client'[d] = client[d]
    BY <2>1 DEF DataOK
  <2>3. SentAt(p) \in Nat
    BY ArrivedNat
  <2> HIDE DEF p
  <2>4. ClientCount(p, client_script[p][1], client_script[p][2])
    BY <2>1, ClientCounts
  <2> QED
    BY <2>2, <2>3, <2>4 DEF ClientCount, p
<1>5. CASE client_strays(c)
  BY <1>1, <1>5 DEF client_strays, tagVars
<1>6. CASE client_tag_recv(c) \/ client_stream_send(c) \/ client_stream_recv(c)
           \/ client_access(c) \/ client_ends(c)
  <2>1. ClientMoves(c) /\ client_script[client[c]][1] # "tag_send" /\ UNCHANGED up
    BY <1>6 DEF client_tag_recv, client_stream_send, client_stream_recv, client_access,
       client_ends, Accesses, ClientAwaits, ClientRuns, ClientMoves, tagVars
  <2>2. \A d \in Clients : SentAt(client'[d]) = SentAt(client[d])
    BY <1>4, <2>1
  <2> QED
    BY <1>1, <2>1, <2>2
<1>7. CASE client_tag_send(c)
  <2> DEFINE p == client[c]
             a == ClientArg(c)
             n == Len(up[c])
  <2>1. /\ ClientMoves(c) /\ client_script[p][1] = "tag_send"
        /\ up' = [up EXCEPT ![c] = Append(up[c], a)]
    BY <1>7 DEF client_tag_send, ClientAwaits, ClientRuns, ClientMoves
  <2>2. /\ SentAt(client'[c]) = SentAt(p) + 1
        /\ \A d \in Clients \ {c} : client'[d] = client[d]
        /\ a \in Tags /\ (a = "test" <=> SentAt(p) = 0)
    BY <1>4, <2>1 DEF ClientArg
  <2>3. \A d \in Clients \ {c} : up'[d] = up[d]
    BY <2>1 DEF DataOK
  <2>4. up'[c] = Append(up[c], a)
    BY <2>1 DEF DataOK
  <2>5. up[c] \in Seq(Tags) /\ n \in Nat /\ n <= SentAt(p) /\ SentAt(p) \in Nat
        /\ Arrived(c) = SentAt(p) - n /\ Arrived(c)' = SentAt(client'[c]) - Len(up'[c])
    BY ArrivedNat DEF OrderInv, Arrived
  <2> HIDE DEF p, a
  <2>6. /\ Len(up'[c]) = n + 1 /\ up'[c][n + 1] = a
        /\ \A i \in 1 .. n : up'[c][i] = up[c][i]
    BY <2>2, <2>4, <2>5
  <2>7. \A i \in 1 .. n : up[c][i] = "test" <=> Arrived(c) + i = 1
    BY DEF OrderInv
  <2> HIDE DEF n
  <2>8. Arrived(c)' = Arrived(c)
    BY <2>2, <2>5, <2>6
  <2>9. /\ Len(up'[c]) <= SentAt(client'[c])
        /\ \A i \in 1 .. Len(up'[c]) : up'[c][i] = "test" <=> Arrived(c)' + i = 1
    <3>1. /\ n \in Nat /\ SentAt(p) \in Nat /\ n <= SentAt(p) /\ Arrived(c) = SentAt(p) - n
          /\ Len(up'[c]) = n + 1 /\ SentAt(client'[c]) = SentAt(p) + 1
      BY <2>2, <2>5, <2>6
    <3>2. \A i \in 1 .. n : up'[c][i] = "test" <=> Arrived(c) + i = 1
      BY <2>6, <2>7
    <3>3. up'[c][n + 1] = "test" <=> Arrived(c) + (n + 1) = 1
      BY <2>2, <2>6, <3>1
    <3>4. \A i \in 1 .. n + 1 : i \in 1 .. n \/ i = n + 1
      BY <3>1
    <3> QED
      BY <2>8, <3>1, <3>2, <3>3, <3>4
  <2>10. \A d \in Clients \ {c} : Arrived(d)' = Arrived(d)
    BY <2>2, <2>3 DEF Arrived
  <2> QED
    BY <2>2, <2>3, <2>8, <2>9, <2>10 DEF OrderInv
<1> QED
  BY <1>2, <1>3, <1>5, <1>6, <1>7 DEF ClientStep

LEMMA ArrivedNext ==
  ASSUME DataOK, OrderInv, NEW c \in Clients, arrive(c)
  PROVE  /\ OrderInv'
         /\ Arrived(c)' = Arrived(c) + 1
         /\ \A d \in Clients \ {c} : Arrived(d)' = Arrived(d)
         /\ Head(up[c]) \in Tags
         /\ Head(up[c]) = "test" <=> Arrived(c) = 0
<1> DEFINE n == Len(up[c])
           s == SentAt(client[c])
<1>1. up[c] # <<>> /\ up' = [up EXCEPT ![c] = Tail(up[c])] /\ UNCHANGED client
  BY DEF arrive
<1>2. /\ Head(up[c]) \in Tags /\ Head(up[c]) = up[c][1] /\ n \in Nat \ {0}
      /\ Len(Tail(up[c])) = n - 1
      /\ \A i \in 1 .. n - 1 : Tail(up[c])[i] = up[c][i + 1]
  BY <1>1, FirstSent
<1>3. up'[c] = Tail(up[c]) /\ \A d \in Clients \ {c} : up'[d] = up[d]
  BY <1>1 DEF DataOK
<1>4. s \in Nat /\ n <= s /\ Arrived(c) = s - n /\ Arrived(c)' = s - Len(up'[c])
      /\ \A i \in 1 .. n : up[c][i] = "test" <=> Arrived(c) + i = 1
  BY <1>1, ArrivedNat DEF Arrived, OrderInv
<1>a. UNCHANGED s
  BY <1>1
<1> HIDE DEF n, s
<1>5. Arrived(c)' = Arrived(c) + 1 /\ Arrived(c) \in Nat
  <2>1. Len(up'[c]) = n - 1
    BY <1>2, <1>3
  <2>2. n \in Nat /\ s \in Nat /\ n <= s /\ Arrived(c) = s - n /\ Arrived(c)' = s - (n - 1)
    BY <1>2, <1>4, <2>1
  <2> QED
    BY <2>2
<1>6. \A d \in Clients \ {c} : Arrived(d)' = Arrived(d)
  BY <1>1, <1>3 DEF Arrived
<1>7. Head(up[c]) = "test" <=> Arrived(c) = 0
  BY <1>2, <1>4, <1>5
<1>8. Len(up'[c]) <= s
      /\ \A i \in 1 .. Len(up'[c]) : up'[c][i] = "test" <=> Arrived(c)' + i = 1
  <2>1. \A i \in 1 .. n - 1 : up[c][i + 1] = "test" <=> Arrived(c) + (i + 1) = 1
    BY <1>2, <1>4
  <2> QED
    BY <1>2, <1>3, <1>4, <1>5, <2>1
<1> QED
  BY <1>1, <1>2, <1>3, <1>5, <1>6, <1>7, <1>8 DEF OrderInv, s

-----------------------------------------------------------------------------
(* Bells that come back, and the stream. *)

LEMMA ClientMove ==
  ASSUME DataOK, NEW c \in Clients, ClientMoves(c)
  PROVE  /\ client[c] \in DOMAIN client_script /\ client[c] \in Nat \ {0}
         /\ client'[c] = client[c] + 1
         /\ \A d \in Clients \ {c} : client'[d] = client[d]
         /\ ClientCount(client[c], client_script[client[c]][1], ClientArg(c))
<1>1. client[c] \in DOMAIN client_script /\ client' = [client EXCEPT ![c] = client[c] + 1]
  BY DEF ClientMoves, ClientGoesOn
<1>2. client[c] \in 1 .. Len(client_script)
  BY <1>1, ClientCounts
<1>3. ClientCount(client[c], client_script[client[c]][1], client_script[client[c]][2])
  BY <1>1, ClientCounts
<1> QED
  BY <1>1, <1>2, <1>3 DEF DataOK, ClientArg

LEMMA HandlerMove ==
  ASSUME DataOK, NEW c \in Clients, HandlerMoves(c)
  PROVE  /\ handler[c] \in DOMAIN handle_endpoint /\ handler[c] \in Nat \ {0}
         /\ handler'[c] = handler[c] + 1
         /\ \A d \in Clients \ {c} : handler'[d] = handler[d]
         /\ HandlerCount(handler[c], handle_endpoint[handler[c]][1], HandlerArg(c))
<1>1. handler[c] \in DOMAIN handle_endpoint /\ handler' = [handler EXCEPT ![c] = handler[c] + 1]
  BY DEF HandlerMoves, HandlerGoesOn
<1>2. handler[c] \in 1 .. Len(handle_endpoint)
  BY <1>1, HandlerCounts
<1>3. HandlerCount(handler[c], handle_endpoint[handler[c]][1], handle_endpoint[handler[c]][2])
  BY <1>1, HandlerCounts
<1> QED
  BY <1>1, <1>2, <1>3 DEF DataOK, HandlerArg

LEMMA ReplyNat ==
  ASSUME DataOK, NEW c \in Clients
  PROVE  /\ AnsweredAt(handler[c]) \in Nat /\ SharedAt(handler[c]) \in Nat
         /\ BellsAt(handler[c]) \in 0 .. Atomics + 1
         /\ RepliesAt(client[c]) \in Nat /\ ReadAt(client[c]) \in Nat
         /\ RungAt(client[c]) \in Nat /\ WrittenAt(client[c]) \in Nat
         /\ down[c]["bell"] \in Nat /\ stream_down[c] \in Nat
<1>1. "bell" \in Tags
  BY DEF Tags
<1> QED
  BY <1>1, ClientPositions, HandlerPositions DEF DataOK

LEMMA ReplyStep == DataOK /\ WaitOK /\ StartInv /\ ReplyInv /\ Next => ReplyInv'
<1> SUFFICES ASSUME DataOK, WaitOK, StartInv, ReplyInv, Next
             PROVE  ReplyInv'
  OBVIOUS
<1> PICK c \in Clients : connect(c) \/ ClientStep(c) \/ HandlerStep(c) \/ arrive(c)
  BY DEF Next
<1>b. "bell" \in Tags
  BY DEF Tags
<1>s. /\ down[c]["bell"] = AnsweredAt(handler[c]) - RepliesAt(client[c])
      /\ stream_down[c] = SharedAt(handler[c]) - ReadAt(client[c])
  BY DEF ReplyInv
<1>1. CASE UNCHANGED <<client, handler, down, stream_down>>
  BY <1>1 DEF ReplyInv
<1>2. CASE connect(c)
  <2>1. client[c] = 0 /\ handler[c] = 0
    BY <1>2 DEF connect, StartInv
  <2>2. /\ client'[c] = 1 /\ handler'[c] = 1
        /\ \A d \in Clients \ {c} : client'[d] = client[d] /\ handler'[d] = handler[d]
        /\ UNCHANGED <<down, stream_down>>
    BY <1>2 DEF connect, tagVars, streamVars, DataOK
  <2>3. /\ AnsweredAt(0) = AnsweredAt(1) /\ SharedAt(0) = SharedAt(1)
        /\ RepliesAt(0) = RepliesAt(1) /\ ReadAt(0) = ReadAt(1)
    BY DEF AnsweredAt, SharedAt, RepliesAt, ReadAt
  <2> QED
    BY <2>1, <2>2, <2>3 DEF ReplyInv
<1>3. ASSUME ClientMoves(c), UNCHANGED handler,
             \A d \in Clients \ {c} : down'[d] = down[d] /\ stream_down'[d] = stream_down[d],
             down[c]["bell"] = down'[c]["bell"]
                + (IF client_script[client[c]][1] = "tag_recv" /\ ClientArg(c) = "bell"
                   THEN 1 ELSE 0),
             stream_down[c] = stream_down'[c]
                + (IF client_script[client[c]][1] = "stream_recv" THEN 1 ELSE 0),
             down'[c]["bell"] \in Nat, stream_down'[c] \in Nat
      PROVE  ReplyInv'
  <2>1. /\ RepliesAt(client'[c]) = RepliesAt(client[c])
              + (IF client_script[client[c]][1] = "tag_recv" /\ ClientArg(c) = "bell"
                 THEN 1 ELSE 0)
        /\ ReadAt(client'[c]) = ReadAt(client[c])
              + (IF client_script[client[c]][1] = "stream_recv" THEN 1 ELSE 0)
        /\ \A d \in Clients \ {c} : client'[d] = client[d]
    BY <1>3, ClientMove DEF ClientCount
  <2>2. down'[c]["bell"] = AnsweredAt(handler[c]) - RepliesAt(client'[c])
    BY <1>3, <1>s, <2>1, ReplyNat
  <2>3. stream_down'[c] = SharedAt(handler[c]) - ReadAt(client'[c])
    BY <1>3, <1>s, <2>1, ReplyNat
  <2> QED
    BY <1>3, <2>1, <2>2, <2>3 DEF ReplyInv
<1>4. ASSUME NEW h \in Clients, HandlerMoves(h), UNCHANGED client,
             \A d \in Clients \ {h} : down'[d] = down[d] /\ stream_down'[d] = stream_down[d],
             down'[h]["bell"] = down[h]["bell"]
                + (IF handle_endpoint[handler[h]][1] = "tag_send" /\ HandlerArg(h) = "bell"
                   THEN 1 ELSE 0),
             stream_down'[h] = stream_down[h]
                + (IF handle_endpoint[handler[h]][1] = "stream_send" THEN 1 ELSE 0)
      PROVE  ReplyInv'
  <2>1. /\ AnsweredAt(handler'[h]) = AnsweredAt(handler[h])
              + (IF handle_endpoint[handler[h]][1] = "tag_send" /\ HandlerArg(h) = "bell"
                 THEN 1 ELSE 0)
        /\ SharedAt(handler'[h]) = SharedAt(handler[h])
              + (IF handle_endpoint[handler[h]][1] = "stream_send" THEN 1 ELSE 0)
        /\ \A d \in Clients \ {h} : handler'[d] = handler[d]
    BY <1>4, HandlerMove DEF HandlerCount
  <2>2. /\ down[h]["bell"] = AnsweredAt(handler[h]) - RepliesAt(client[h])
        /\ stream_down[h] = SharedAt(handler[h]) - ReadAt(client[h])
    BY DEF ReplyInv
  <2>3. down'[h]["bell"] = AnsweredAt(handler'[h]) - RepliesAt(client[h])
    BY <1>4, <2>1, <2>2, ReplyNat
  <2>4. stream_down'[h] = SharedAt(handler'[h]) - ReadAt(client[h])
    BY <1>4, <2>1, <2>2, ReplyNat
  <2> QED
    BY <1>4, <2>1, <2>3, <2>4 DEF ReplyInv
<1>5. CASE client_tag_send(c) \/ client_stream_send(c) \/ client_access(c) \/ client_ends(c)
  <2>1. /\ ClientMoves(c) /\ client_script[client[c]][1] \notin {"tag_recv", "stream_recv"}
        /\ UNCHANGED <<handler, down, stream_down>>
    BY <1>5 DEF client_tag_send, client_stream_send, client_access, client_ends, Accesses,
       ClientAwaits, ClientRuns, ClientMoves, tagVars, streamVars
  <2> QED
    BY <1>3, <2>1, ReplyNat DEF ReplyInv
<1>6. CASE client_strays(c)
  BY <1>1, <1>6 DEF client_strays, tagVars, streamVars
<1>7. CASE client_tag_recv(c)
  <2> DEFINE t == ClientArg(c)
  <2>1. /\ ClientMoves(c) /\ client_script[client[c]][1] = "tag_recv"
        /\ down[c][t] > 0 /\ down' = [down EXCEPT ![c][t] = down[c][t] - 1]
        /\ UNCHANGED <<handler, stream_down>>
    BY <1>7 DEF client_tag_recv, ClientAwaits, ClientRuns, ClientMoves, streamVars
  <2>2. t \in Tags
    BY <2>1, ClientMove DEF ClientCount
  <2> HIDE DEF t
  <2>3. /\ \A d \in Clients \ {c} : down'[d] = down[d]
        /\ down'[c]["bell"] = IF t = "bell" THEN down[c][t] - 1 ELSE down[c]["bell"]
    BY <1>b, <2>1, <2>2 DEF DataOK
  <2>4. down[c]["bell"] = down'[c]["bell"] + (IF t = "bell" THEN 1 ELSE 0)
        /\ down'[c]["bell"] \in Nat
    BY <2>1, <2>3, ReplyNat
  <2>5. stream_down[c] = stream_down'[c] + 0 /\ stream_down'[c] \in Nat
    BY <2>1, ReplyNat
  <2> QED
    BY <1>3, <2>1, <2>3, <2>4, <2>5 DEF ReplyInv, t
<1>8. CASE client_stream_recv(c)
  <2>1. /\ ClientMoves(c) /\ client_script[client[c]][1] = "stream_recv"
        /\ stream_down[c] > 0 /\ stream_down' = [stream_down EXCEPT ![c] = stream_down[c] - 1]
        /\ UNCHANGED <<handler, down>>
    BY <1>8 DEF client_stream_recv, ClientAwaits, ClientRuns, ClientMoves, tagVars
  <2>2. /\ \A d \in Clients \ {c} : stream_down'[d] = stream_down[d]
        /\ stream_down'[c] = stream_down[c] - 1
    BY <2>1 DEF DataOK
  <2>3. stream_down[c] = stream_down'[c] + 1 /\ stream_down'[c] \in Nat
    BY <2>1, <2>2, ReplyNat
  <2>4. down[c]["bell"] = down'[c]["bell"] + 0 /\ down'[c]["bell"] \in Nat
    BY <2>1, ReplyNat
  <2> QED
    BY <1>3, <2>1, <2>2, <2>3, <2>4 DEF ReplyInv
<1>9. ASSUME NEW h \in Clients, HandlerMoves(h), UNCHANGED <<client, down, stream_down>>,
             handle_endpoint[handler[h]][1] \notin {"tag_send", "stream_send"}
      PROVE  ReplyInv'
  <2>1. down[h]["bell"] = down[h]["bell"] + 0 /\ stream_down[h] = stream_down[h] + 0
    BY ReplyNat
  <2> QED
    BY <1>4, <1>9, <2>1
<1>10. CASE handler_stream_recv(c) \/ handler_ends(c)
  <2>1. HandlerMoves(c) /\ UNCHANGED <<client, down, stream_down>>
        /\ handle_endpoint[handler[c]][1] \notin {"tag_send", "stream_send"}
    BY <1>10 DEF handler_stream_recv, handler_ends, HandlerAwaits,
       HandlerRuns, HandlerMoves, tagVars, streamVars
  <2> QED
    BY <1>9, <2>1
<1>11. CASE handler_tag_recv(c)
  BY <1>1, <1>9, <1>11 DEF handler_tag_recv, HandlerAwaits, HandlerRuns, HandlerMoves,
     streamVars, ReplyInv
<1>12. CASE handler_tag_send(c)
  <2> DEFINE t == HandlerArg(c)
  <2>1. /\ HandlerMoves(c) /\ handle_endpoint[handler[c]][1] = "tag_send"
        /\ down' = [down EXCEPT ![c][t] = down[c][t] + 1]
        /\ UNCHANGED <<client, stream_down>>
    BY <1>12 DEF handler_tag_send, HandlerAwaits, HandlerRuns, HandlerMoves, streamVars
  <2>2. t \in Tags
    BY <2>1, HandlerMove DEF HandlerCount
  <2> HIDE DEF t
  <2>3. /\ \A d \in Clients \ {c} : down'[d] = down[d]
        /\ down'[c]["bell"] = IF t = "bell" THEN down[c][t] + 1 ELSE down[c]["bell"]
    BY <1>b, <2>1, <2>2 DEF DataOK
  <2>4. down'[c]["bell"] = down[c]["bell"] + (IF t = "bell" THEN 1 ELSE 0)
    BY <2>3, ReplyNat
  <2>5. stream_down'[c] = stream_down[c] + 0
    BY <2>1, ReplyNat
  <2> QED
    BY <1>4, <2>1, <2>3, <2>4, <2>5 DEF ReplyInv, t
<1>13. CASE handler_stream_send(c)
  <2>1. /\ HandlerMoves(c) /\ handle_endpoint[handler[c]][1] = "stream_send"
        /\ stream_down' = [stream_down EXCEPT ![c] = stream_down[c] + 1]
        /\ UNCHANGED <<client, down>>
    BY <1>13 DEF handler_stream_send, HandlerAwaits, HandlerRuns, HandlerMoves, tagVars
  <2>2. /\ \A d \in Clients \ {c} : stream_down'[d] = stream_down[d]
        /\ stream_down'[c] = stream_down[c] + 1
    BY <2>1 DEF DataOK
  <2>3. down'[c]["bell"] = down[c]["bell"] + 0
    BY <2>1, ReplyNat
  <2> QED
    BY <1>4, <2>1, <2>2, <2>3 DEF ReplyInv
<1>14. CASE arrive(c)
  <2> DEFINE r == Head(up[c])
             h == Head(posted[r])
  <2>1. r \in Tags /\ UNCHANGED <<client, down, stream_down>>
    BY <1>14, FirstSent DEF arrive, streamVars
  <2>2. CASE UNCHANGED handler
    BY <1>1, <2>1, <2>2
  <2>3. CASE posted[r] # <<>> /\ HandlerGoesOn(h)
    <3>1. h \in Clients /\ HandlerAwaits(h, "tag_recv")
      BY <2>1, <2>3, FirstPosted
    <3> HIDE DEF h
    <3>2. HandlerMoves(h) /\ handle_endpoint[handler[h]][1] = "tag_recv"
      BY <2>3, <3>1 DEF HandlerAwaits, HandlerRuns, HandlerMoves
    <3> QED
      BY <1>9, <2>1, <3>1, <3>2
  <2> QED
    BY <1>14, <2>2, <2>3 DEF arrive
<1> QED
  BY <1>2, <1>5, <1>6, <1>7, <1>8, <1>10, <1>11, <1>12, <1>13, <1>14 DEF ClientStep, HandlerStep

-----------------------------------------------------------------------------
(* Bells. *)

LEMMA HeardTaken ==
  ASSUME DataOK, OrderInv
  PROVE  /\ heard \in [Clients -> Nat] /\ taken \in [Clients -> Nat]
         /\ \A c \in Clients :
               /\ heard[c] = IF Arrived(c) = 0 THEN 0 ELSE Arrived(c) - 1
               /\ Arrived(c) \in Nat
               /\ heard[c] <= RungAt(client[c])
               /\ heard[c] <= Atomics + 1
               /\ taken[c] = BellsAt(handler[c])
               /\ taken[c] <= Atomics + 1
         /\ IsFiniteSet(Upto(heard)) /\ IsFiniteSet(Upto(taken))
         /\ Cardinality(Upto(heard)) \in Nat /\ Cardinality(Upto(taken)) \in Nat
<1>a. Atomics + 1 \in Nat
  BY ConstantsAssumption
<1>1. ASSUME NEW c \in Clients
      PROVE  /\ heard[c] = IF Arrived(c) = 0 THEN 0 ELSE Arrived(c) - 1
             /\ Arrived(c) \in Nat
             /\ heard[c] \in Nat
             /\ heard[c] <= RungAt(client[c])
             /\ heard[c] <= Atomics + 1
  <2>1. heard[c] = IF Arrived(c) = 0 THEN 0 ELSE Arrived(c) - 1
    BY DEF heard
  <2>2. /\ SentAt(client[c]) \in Nat /\ SentAt(client[c]) <= RungAt(client[c]) + 1
        /\ RungAt(client[c]) \in 0 .. Atomics + 1
    BY ClientPositions DEF DataOK
  <2>3. Len(up[c]) \in Nat /\ Arrived(c) = SentAt(client[c]) - Len(up[c]) /\ Arrived(c) \in Nat
    BY <1>a, ArrivedNat DEF Arrived
  <2> QED
    BY <1>a, <2>1, <2>2, <2>3
<1>2. ASSUME NEW c \in Clients
      PROVE  taken[c] = BellsAt(handler[c]) /\ taken[c] \in Nat /\ taken[c] <= Atomics + 1
  BY <1>a, HandlerPositions DEF DataOK, taken
<1>3. heard \in [Clients -> Nat] /\ taken \in [Clients -> Nat]
  <2>1. /\ heard = [c \in Clients |-> heard[c]]
        /\ taken = [c \in Clients |-> taken[c]]
    BY DEF heard, taken
  <2> HIDE DEF heard, taken
  <2> QED
    BY <1>1, <1>2, <2>1
<1> HIDE DEF heard, taken
<1>4. IsFiniteSet(Upto(heard)) /\ IsFiniteSet(Upto(taken))
  BY <1>a, <1>1, <1>2, <1>3, UptoFinite
<1> QED
  BY <1>1, <1>2, <1>3, <1>4, FS_CardinalityType

LEMMA HeardStays ==
  ASSUME DataOK, OrderInv, NEW c \in Clients,
         connect(c) \/ ClientStep(c) \/ HandlerStep(c)
  PROVE  UNCHANGED heard
BY ArrivedStays DEF heard

LEMMA HeardNext ==
  ASSUME DataOK, OrderInv, NEW c \in Clients, arrive(c)
  PROVE  /\ Head(up[c]) \in Tags
         /\ IF Head(up[c]) = "bell" THEN heard' = [heard EXCEPT ![c] = @ + 1]
                                    ELSE UNCHANGED heard
<1>1. /\ Arrived(c)' = Arrived(c) + 1
      /\ \A d \in Clients \ {c} : Arrived(d)' = Arrived(d)
      /\ Head(up[c]) \in {"test", "bell"}
      /\ Head(up[c]) = "test" <=> Arrived(c) = 0
  BY ArrivedNext DEF Tags
<1>2. Arrived(c) \in Nat
  BY ArrivedNat
<1>3. heard = [d \in Clients |-> IF Arrived(d) = 0 THEN 0 ELSE Arrived(d) - 1]
      /\ heard' = [d \in Clients |-> IF Arrived(d)' = 0 THEN 0 ELSE Arrived(d)' - 1]
  BY DEF heard
<1>4. \A d \in Clients \ {c} : heard'[d] = heard[d]
  BY <1>1, <1>3
<1>5. heard'[c] = IF Head(up[c]) = "bell" THEN heard[c] + 1 ELSE heard[c]
  <2>1. heard'[c] = Arrived(c)
    BY <1>1, <1>2, <1>3
  <2>2. heard[c] = IF Arrived(c) = 0 THEN 0 ELSE Arrived(c) - 1
    BY <1>3
  <2> QED
    BY <1>1, <1>2, <2>1, <2>2
<1>6. DOMAIN heard = Clients /\ DOMAIN heard' = Clients
      /\ heard = [d \in Clients |-> heard[d]] /\ heard' = [d \in Clients |-> heard'[d]]
  BY <1>3
<1> HIDE DEF heard
<1>7. CASE Head(up[c]) = "bell"
  BY <1>1, <1>4, <1>5, <1>6, <1>7 DEF Tags
<1>8. CASE Head(up[c]) # "bell"
  BY <1>1, <1>4, <1>5, <1>6, <1>8 DEF Tags
<1> QED
  BY <1>7, <1>8

LEMMA TakenNext ==
  ASSUME DataOK, NEW h \in Clients, HandlerMoves(h)
  PROVE  IF handle_endpoint[handler[h]][1] = "tag_recv" /\ HandlerArg(h) = "bell"
         THEN taken' = [taken EXCEPT ![h] = @ + 1]
         ELSE UNCHANGED taken
<1> DEFINE bell == handle_endpoint[handler[h]][1] = "tag_recv" /\ HandlerArg(h) = "bell"
<1>1. /\ handler'[h] = handler[h] + 1
      /\ \A d \in Clients \ {h} : handler'[d] = handler[d]
      /\ BellsAt(handler[h] + 1) = BellsAt(handler[h]) + (IF bell THEN 1 ELSE 0)
  BY HandlerMove DEF HandlerCount
<1>2. BellsAt(handler[h]) \in Int
  BY ReplyNat
<1>3. taken = [d \in Clients |-> BellsAt(handler[d])]
      /\ taken' = [d \in Clients |-> BellsAt(handler'[d])]
  BY DEF taken
<1> HIDE DEF bell, taken
<1>4. CASE bell
  <2>1. BellsAt(handler'[h]) = BellsAt(handler[h]) + 1
    BY <1>1, <1>4
  <2> QED
    BY <1>1, <1>3, <1>4, <2>1 DEF bell
<1>5. CASE ~bell
  <2>1. BellsAt(handler'[h]) = BellsAt(handler[h])
    BY <1>1, <1>2, <1>5
  <2> QED
    BY <1>1, <1>3, <1>5, <2>1 DEF bell
<1> QED
  BY <1>4, <1>5

\* What a step is about: a bell that meets the receive posted first, one that
\* nobody waits for, a receive that finds one, or none.
Meets(c, h) ==
    /\ up[c] # <<>> /\ HandlerRuns(h)
    /\ heard' = [heard EXCEPT ![c] = @ + 1]
    /\ taken' = [taken EXCEPT ![h] = @ + 1]
    /\ unexpected'["bell"] = unexpected["bell"]

Waits(c) ==
    /\ heard' = [heard EXCEPT ![c] = @ + 1]
    /\ UNCHANGED taken
    /\ unexpected'["bell"] = unexpected["bell"] + 1

IsFound(h) ==
    /\ HandlerRuns(h) /\ unexpected["bell"] > 0
    /\ UNCHANGED heard
    /\ taken' = [taken EXCEPT ![h] = @ + 1]
    /\ unexpected'["bell"] = unexpected["bell"] - 1

NoBell == UNCHANGED <<heard, taken>> /\ unexpected'["bell"] = unexpected["bell"]

LEMMA BellSteps ==
  ASSUME DataOK, WaitOK, StartInv, OrderInv, Next
  PROVE  \/ NoBell
         \/ \E c, h \in Clients : Meets(c, h)
         \/ \E c \in Clients : Waits(c) \/ IsFound(c)
<1> PICK c \in Clients : connect(c) \/ ClientStep(c) \/ HandlerStep(c) \/ arrive(c)
  BY DEF Next
<1>b. "bell" \in Tags
  BY DEF Tags
<1>0. UNCHANGED handler => UNCHANGED taken
  BY DEF taken
<1>1. CASE connect(c)
  <2>1. handler[c] = 0 /\ BellsAt(0) = 0 /\ BellsAt(1) = 0
    BY <1>1 DEF connect, StartInv, BellsAt
  <2>2. \A d \in Clients : BellsAt(handler'[d]) = BellsAt(handler[d])
    BY <1>1, <2>1 DEF connect, DataOK
  <2>3. UNCHANGED taken
    BY <2>2 DEF taken
  <2> QED
    BY <1>1, <2>3, HeardStays DEF connect, tagVars, NoBell
<1>2. CASE ClientStep(c)
  <2>1. UNCHANGED <<handler, unexpected>>
    BY <1>2 DEF ClientStep, client_tag_send, client_tag_recv, client_stream_send,
       client_stream_recv, client_access, client_strays, client_ends, tagVars
  <2> QED
    BY <1>0, <1>2, <2>1, HeardStays DEF NoBell
<1>3. CASE handler_tag_send(c) \/ handler_stream_send(c) \/ handler_stream_recv(c)
           \/ handler_ends(c)
  <2>1. HandlerMoves(c) /\ handle_endpoint[handler[c]][1] # "tag_recv" /\ UNCHANGED unexpected
    BY <1>3 DEF handler_tag_send, handler_stream_send, handler_stream_recv, handler_ends,
       HandlerAwaits, HandlerRuns, HandlerMoves, tagVars
  <2>2. UNCHANGED taken
    BY <2>1, TakenNext
  <2>3. UNCHANGED heard
    BY <1>3, HeardStays DEF HandlerStep
  <2> QED
    BY <2>1, <2>2, <2>3 DEF NoBell
<1>4. CASE handler_tag_recv(c)
  <2> DEFINE t == HandlerArg(c)
  <2>1. HandlerAwaits(c, "tag_recv") /\ UNCHANGED heard
    BY <1>4, HeardStays DEF HandlerStep, handler_tag_recv
  <2>2. t \in Tags
    BY <2>1, HandlerCounts DEF HandlerAwaits, HandlerRuns, HandlerArg, HandlerCount
  <2>3. \/ unexpected[t] > 0 /\ unexpected' = [unexpected EXCEPT ![t] = unexpected[t] - 1]
           /\ HandlerGoesOn(c)
        \/ UNCHANGED <<unexpected, handler>>
    BY <1>4 DEF handler_tag_recv, Finds
  <2>4. CASE UNCHANGED <<unexpected, handler>>
    BY <1>0, <2>1, <2>4 DEF NoBell
  <2>5. CASE unexpected[t] > 0 /\ unexpected' = [unexpected EXCEPT ![t] = unexpected[t] - 1]
             /\ HandlerGoesOn(c)
    <3>1. IF t = "bell" THEN taken' = [taken EXCEPT ![c] = @ + 1] ELSE UNCHANGED taken
      BY <2>1, <2>5, TakenNext DEF HandlerAwaits, HandlerRuns, HandlerMoves
    <3>2. HandlerRuns(c)
      BY <2>1 DEF HandlerAwaits
    <3> HIDE DEF t
    <3>3. unexpected'["bell"] = IF t = "bell" THEN unexpected["bell"] - 1 ELSE unexpected["bell"]
      BY <1>b, <2>2, <2>5 DEF DataOK
    <3> QED
      BY <2>1, <2>5, <3>1, <3>2, <3>3 DEF NoBell, IsFound
  <2> QED
    BY <2>3, <2>4, <2>5
<1>5. CASE arrive(c)
  <2> DEFINE t == Head(up[c])
             h == Head(posted[t])
  <2>1. /\ t \in Tags /\ up[c] # <<>>
        /\ IF t = "bell" THEN heard' = [heard EXCEPT ![c] = @ + 1] ELSE UNCHANGED heard
    BY <1>5, HeardNext DEF arrive
  <2>2. CASE posted[t] # <<>>
    <3>1. HandlerGoesOn(h) /\ UNCHANGED unexpected
      BY <1>5, <2>2 DEF arrive
    <3>2. h \in Clients /\ HandlerAwaits(h, "tag_recv") /\ HandlerArg(h) = t
      BY <2>1, <2>2, FirstPosted
    <3> HIDE DEF t, h
    <3>3. IF t = "bell" THEN taken' = [taken EXCEPT ![h] = @ + 1] ELSE UNCHANGED taken
      <4>1. HandlerMoves(h) /\ handle_endpoint[handler[h]][1] = "tag_recv"
        BY <3>1, <3>2 DEF HandlerAwaits, HandlerRuns, HandlerMoves
      <4> QED
        BY <3>2, <4>1, TakenNext
    <3>4. HandlerRuns(h)
      BY <3>2 DEF HandlerAwaits
    <3> QED
      BY <2>1, <3>1, <3>2, <3>3, <3>4 DEF NoBell, Meets
  <2>3. CASE posted[t] = <<>>
    <3>1. unexpected' = [unexpected EXCEPT ![t] = unexpected[t] + 1] /\ UNCHANGED handler
      BY <1>5, <2>3 DEF arrive
    <3> HIDE DEF t
    <3>2. unexpected'["bell"] = IF t = "bell" THEN unexpected["bell"] + 1 ELSE unexpected["bell"]
      BY <1>b, <2>1, <3>1 DEF DataOK
    <3> QED
      BY <1>0, <2>1, <3>1, <3>2 DEF NoBell, Waits
  <2> QED
    BY <2>2, <2>3
<1> QED
  BY <1>1, <1>2, <1>3, <1>4, <1>5 DEF HandlerStep

LEMMA BellStep == DataOK /\ WaitOK /\ StartInv /\ OrderInv /\ BellInv /\ Next => BellInv'
<1> SUFFICES ASSUME DataOK, WaitOK, StartInv, OrderInv, BellInv, Next
             PROVE  BellInv'
  OBVIOUS
<1>1. unexpected["bell"] \in Nat
  BY DEF DataOK, Tags
<1>2. /\ heard \in [Clients -> Nat] /\ taken \in [Clients -> Nat]
      /\ IsFiniteSet(Upto(heard)) /\ IsFiniteSet(Upto(taken))
      /\ Cardinality(Upto(heard)) \in Nat /\ Cardinality(Upto(taken)) \in Nat
  BY HeardTaken
<1>3. Cardinality(Upto(heard)) = unexpected["bell"] + Cardinality(Upto(taken))
  BY DEF BellInv
<1>4. SUFFICES Cardinality(Upto(heard')) = unexpected'["bell"] + Cardinality(Upto(taken'))
  BY DEF BellInv, Upto
<1> HIDE DEF heard, taken
<1>5. ASSUME NEW f \in [Clients -> Nat], NEW g, NEW c \in Clients, IsFiniteSet(Upto(f)),
             g = [f EXCEPT ![c] = @ + 1]
      PROVE  Cardinality(Upto(g)) = Cardinality(Upto(f)) + 1
  <2>1. g \in [Clients -> Nat]
    BY <1>5
  <2> QED
    BY <1>5, <2>1, UptoNext
<1>6. CASE NoBell
  BY <1>3, <1>6 DEF NoBell
<1>7. ASSUME NEW c \in Clients, NEW h \in Clients, Meets(c, h)
      PROVE  Cardinality(Upto(heard')) = unexpected'["bell"] + Cardinality(Upto(taken'))
  <2>1. /\ Cardinality(Upto(heard')) = Cardinality(Upto(heard)) + 1
        /\ Cardinality(Upto(taken')) = Cardinality(Upto(taken)) + 1
    BY <1>2, <1>5, <1>7 DEF Meets
  <2> QED
    BY <1>1, <1>2, <1>3, <1>7, <2>1 DEF Meets
<1>8. ASSUME NEW c \in Clients, Waits(c)
      PROVE  Cardinality(Upto(heard')) = unexpected'["bell"] + Cardinality(Upto(taken'))
  <2>1. /\ Cardinality(Upto(heard')) = Cardinality(Upto(heard)) + 1
        /\ taken' = taken
    BY <1>2, <1>5, <1>8 DEF Waits
  <2> QED
    BY <1>1, <1>2, <1>3, <1>8, <2>1 DEF Waits
<1>9. ASSUME NEW h \in Clients, IsFound(h)
      PROVE  Cardinality(Upto(heard')) = unexpected'["bell"] + Cardinality(Upto(taken'))
  <2>1. /\ heard' = heard
        /\ Cardinality(Upto(taken')) = Cardinality(Upto(taken)) + 1
    BY <1>2, <1>5, <1>9 DEF IsFound
  <2> QED
    BY <1>1, <1>2, <1>3, <1>9, <2>1 DEF IsFound
<1> QED
  BY <1>6, <1>7, <1>8, <1>9, BellSteps

-----------------------------------------------------------------------------
(* One conversation after the other. *)

\* Between conversations, a client's bells are all taken by its own handler.
LEMMA IdleEven ==
  ASSUME DataOK, StartInv, OrderInv, NEW d \in Clients, ~Active(d), taken[d] <= heard[d]
  PROVE  heard[d] = taken[d] /\ up[d] = <<>>
<1>a. Atomics \in Nat \ {0}
  BY ConstantsAssumption
<1>1. /\ heard[d] \in Nat /\ taken[d] \in Nat
      /\ heard[d] = IF Arrived(d) = 0 THEN 0 ELSE Arrived(d) - 1
      /\ Arrived(d) \in Nat /\ heard[d] <= Atomics + 1
      /\ taken[d] = BellsAt(handler[d])
  BY HeardTaken
<1>2. /\ Arrived(d) = SentAt(client[d]) - Len(up[d])
      /\ Len(up[d]) \in Nat /\ up[d] \in Seq(Tags)
  BY ArrivedNat DEF Arrived
<1>3. /\ client[d] = 0 \/ client[d] = Len(client_script) + 1
      /\ handler[d] = 0 \/ handler[d] = Len(handle_endpoint) + 1
      /\ client[d] = 0 <=> handler[d] = 0
  <2>1. /\ DOMAIN client_script = 1 .. Len(client_script) /\ Len(client_script) \in Nat
        /\ DOMAIN handle_endpoint = 1 .. Len(handle_endpoint) /\ Len(handle_endpoint) \in Nat
    BY <1>a, ClientScript, HandlerScript
  <2>2. client[d] \in 0 .. Len(client_script) + 1 /\ handler[d] \in 0 .. Len(handle_endpoint) + 1
    BY DEF DataOK
  <2> QED
    BY <2>1, <2>2 DEF Active, HandlerRuns, StartInv
<1> HIDE DEF heard, taken
<1>4. CASE client[d] = 0 /\ handler[d] = 0
  <2>1. SentAt(0) = 0 /\ BellsAt(0) = 0
    BY DEF SentAt, BellsAt
  <2>2. Len(up[d]) = 0 /\ Arrived(d) = 0
    BY <1>1, <1>2, <1>4, <2>1
  <2>3. heard[d] = 0 /\ taken[d] = 0
    BY <1>1, <1>4, <2>1, <2>2
  <2> QED
    BY <1>2, <2>2, <2>3
<1>5. CASE client[d] = Len(client_script) + 1 /\ handler[d] = Len(handle_endpoint) + 1
  <2>1. SentAt(client[d]) = Atomics + 2
    BY <1>5, ClientPositions DEF DataOK
  <2>2. taken[d] = Atomics + 1
    BY <1>1, <1>5, HandlerPositions DEF DataOK
  <2>3. heard[d] = Atomics + 1 /\ Arrived(d) = Atomics + 2
    BY <1>a, <1>1, <2>2
  <2>4. Len(up[d]) = 0
    <3> DEFINE n == Len(up[d])
               a == Arrived(d)
               s == SentAt(client[d])
    <3>1. a = s - n /\ s = a /\ n \in Nat /\ a \in Nat
      BY <1>1, <1>2, <2>1, <2>3
    <3> HIDE DEF n, a, s
    <3>2. n = 0
      BY <3>1
    <3> QED
      BY <3>2 DEF n
  <2> QED
    BY <1>2, <2>2, <2>3, <2>4
<1> QED
  BY <1>3, <1>4, <1>5

\* A client that accesses memory finds its handler there.
LEMMA NoneStrays ==
  ASSUME DataOK, StartInv, OrderInv, NEW c \in Clients, taken[c] <= heard[c], Accesses(c)
  PROVE  HandlerRuns(c)
<1>a. Atomics \in Nat \ {0}
  BY ConstantsAssumption
<1>1. client[c] \in DOMAIN client_script
      /\ client_script[client[c]][1] \in {"get", "put", "atomic"}
  BY DEF Accesses, ClientAwaits, ClientRuns
<1>2. RungAt(client[c]) <= Atomics /\ client[c] # 0
  BY <1>1, ClientCounts DEF ClientCount
<1>3. /\ heard[c] \in Nat /\ heard[c] <= RungAt(client[c]) /\ taken[c] = BellsAt(handler[c])
      /\ RungAt(client[c]) \in Nat
  BY HeardTaken, ReplyNat
<1>4. handler[c] # 0 /\ handler[c] \in 0 .. Len(handle_endpoint) + 1
  BY <1>2 DEF StartInv, DataOK
<1>5. handler[c] = Len(handle_endpoint) + 1 => BellsAt(handler[c]) = Atomics + 1
  BY <1>4, HandlerPositions
<1>6. DOMAIN handle_endpoint = 1 .. Len(handle_endpoint) /\ Len(handle_endpoint) \in Nat
  BY <1>a, HandlerScript
<1> HIDE DEF heard, taken
<1>7. handler[c] # Len(handle_endpoint) + 1
  BY <1>a, <1>2, <1>3, <1>5
<1> QED
  BY <1>4, <1>6, <1>7 DEF HandlerRuns

\* If everyone else is idle, a receive that finds a bell finds one of its own
\* client.
LEMMA FindsOwn ==
  ASSUME DataOK, StartInv, OrderInv, BellInv, NEW h \in Clients,
         \A d \in Clients : taken[d] <= heard[d],
         \A d \in Clients \ {h} : ~Active(d),
         unexpected["bell"] > 0
  PROVE  taken[h] < heard[h]
<1>1. /\ heard \in [Clients -> Nat] /\ taken \in [Clients -> Nat]
      /\ Cardinality(Upto(heard)) \in Nat /\ Cardinality(Upto(taken)) \in Nat
      /\ Cardinality(Upto(heard)) = unexpected["bell"] + Cardinality(Upto(taken))
  BY HeardTaken DEF BellInv
<1>2. unexpected["bell"] \in Nat
  BY DEF DataOK, Tags
<1>3. \A d \in Clients \ {h} : heard[d] = taken[d]
  BY IdleEven
<1> HIDE DEF heard, taken
<1> SUFFICES ASSUME ~(taken[h] < heard[h])
             PROVE  FALSE
  OBVIOUS
<1>4. taken[h] = heard[h]
  BY <1>1
<1>5. heard = taken
  BY <1>1, <1>3, <1>4
<1> QED
  BY <1>1, <1>2, <1>5

\* A conversation that is active after a step was active before it, or began.
LEMMA ActiveStep ==
  ASSUME DataOK, WaitOK, Next, NEW d \in Clients, Active(d)', ~Active(d)
  PROVE  connect(d)
<1>1. ASSUME NEW c \in Clients, connect(c)
      PROVE  connect(d)
  <2>1. CASE d = c
    BY <1>1, <2>1
  <2>2. CASE d # c
    BY <1>1, <2>2 DEF connect, Active, HandlerRuns, DataOK
  <2> QED
    BY <2>1, <2>2
<1>2. ASSUME NEW c \in Clients, ClientMoves(c), UNCHANGED handler
      PROVE  FALSE
  BY <1>2, ClientMove DEF Active, HandlerRuns
<1>3. ASSUME NEW h \in Clients, HandlerMoves(h), UNCHANGED client
      PROVE  FALSE
  BY <1>3, HandlerMove DEF Active, HandlerRuns
<1>4. CASE UNCHANGED <<client, handler>>
  BY <1>4 DEF Active, HandlerRuns
<1> QED
  BY <1>1, <1>2, <1>3, <1>4, StepMoves

LEMMA AloneKept ==
  ASSUME Next, alone'
  PROVE  /\ alone
         /\ \A c \in Clients :
               connect(c) => UNCHANGED strayed
                             /\ \A d \in Clients : ~ClientRuns(d) /\ ~HandlerRuns(d)
         /\ UNCHANGED strayed \/ \E c \in Clients : client_strays(c)
<1> PICK c \in Clients : connect(c) \/ ClientStep(c) \/ HandlerStep(c) \/ arrive(c)
  BY DEF Next
<1>1. \A d \in Clients :
        connect(d) => /\ alone /\ UNCHANGED strayed
                      /\ \A e \in Clients : ~ClientRuns(e) /\ ~HandlerRuns(e)
  BY DEF connect
<1>2. CASE ClientStep(c)
  BY <1>1, <1>2 DEF ClientStep, client_tag_send, client_tag_recv, client_stream_send,
     client_stream_recv, client_access, client_strays, client_ends, historyVars
<1>3. CASE HandlerStep(c)
  BY <1>1, <1>3 DEF HandlerStep, handler_tag_send, handler_tag_recv, handler_stream_send,
     handler_stream_recv, handler_ends, historyVars
<1>4. CASE arrive(c)
  BY <1>1, <1>4 DEF arrive, historyVars
<1>5. CASE connect(c)
  BY <1>1, <1>5
<1> QED
  BY <1>2, <1>3, <1>4, <1>5

LEMMA AloneStep ==
  DataOK /\ WaitOK /\ StartInv /\ OrderInv /\ BellInv /\ AloneInv /\ Next => AloneInv'
<1> SUFFICES ASSUME DataOK, WaitOK, StartInv, OrderInv, BellInv, AloneInv, Next, alone'
             PROVE  /\ strayed' = {}
                    /\ \A c, d \in Clients : Active(c)' /\ Active(d)' => c = d
                    /\ \A c \in Clients : taken'[c] <= heard'[c]
  BY DEF AloneInv
<1>1. /\ alone
      /\ \A c \in Clients :
            connect(c) => UNCHANGED strayed
                          /\ \A d \in Clients : ~ClientRuns(d) /\ ~HandlerRuns(d)
      /\ UNCHANGED strayed \/ \E c \in Clients : client_strays(c)
  BY AloneKept
<1>2. /\ strayed = {}
      /\ \A c, d \in Clients : Active(c) /\ Active(d) => c = d
      /\ \A c \in Clients : taken[c] <= heard[c]
  BY <1>1 DEF AloneInv
<1>3. strayed' = {}
  <2>1. \A c \in Clients : ~client_strays(c)
    BY <1>2, NoneStrays DEF client_strays
  <2> QED
    BY <1>1, <1>2, <2>1
<1>4. \A c, d \in Clients : Active(c)' /\ Active(d)' => c = d
  <2>1. ASSUME NEW c \in Clients, connect(c), NEW d \in Clients, Active(d)'
        PROVE  d = c
    <3>1. ~Active(d)
      BY <1>1, <1>2, <2>1 DEF Active, ClientRuns
    <3>2. connect(d)
      BY <2>1, <3>1, ActiveStep
    <3>3. client'[c] = 1 /\ client[d] = 0 /\ client'[d] = 1
          /\ client' = [client EXCEPT ![c] = 1]
      BY <2>1, <3>2 DEF connect, DataOK
    <3> QED
      BY <3>3 DEF DataOK
  <2>2. ASSUME NEW c \in Clients, NEW d \in Clients, Active(c)', Active(d)'
        PROVE  c = d
    BY <1>2, <2>1, <2>2, ActiveStep
  <2> QED
    BY <2>2
<1>5. \A c \in Clients : taken'[c] <= heard'[c]
  <2>1. /\ heard \in [Clients -> Nat] /\ taken \in [Clients -> Nat]
    BY HeardTaken
  <2> HIDE DEF heard, taken
  <2>2. CASE NoBell
    BY <1>2, <2>2 DEF NoBell
  <2>3. ASSUME NEW c \in Clients, NEW h \in Clients, Meets(c, h)
        PROVE  \A d \in Clients : taken'[d] <= heard'[d]
    <3>1. Active(c)
      BY <1>2, <2>3, IdleEven DEF Meets
    <3>2. Active(h)
      BY <2>3 DEF Meets, Active
    <3>3. c = h
      BY <1>2, <3>1, <3>2
    <3>4. /\ heard' = [heard EXCEPT ![c] = heard[c] + 1]
          /\ taken' = [taken EXCEPT ![c] = taken[c] + 1]
      BY <2>3, <3>3 DEF Meets
    <3> QED
      BY <1>2, <2>1, <3>4
  <2>4. ASSUME NEW c \in Clients, Waits(c)
        PROVE  \A d \in Clients : taken'[d] <= heard'[d]
    <3>1. heard' = [heard EXCEPT ![c] = heard[c] + 1] /\ taken' = taken
      BY <2>4 DEF Waits
    <3> QED
      BY <1>2, <2>1, <3>1
  <2>5. ASSUME NEW h \in Clients, IsFound(h)
        PROVE  \A d \in Clients : taken'[d] <= heard'[d]
    <3>1. taken' = [taken EXCEPT ![h] = taken[h] + 1] /\ heard' = heard
      BY <2>5 DEF IsFound
    <3>2. \A d \in Clients \ {h} : ~Active(d)
      BY <1>2, <2>5 DEF IsFound, Active
    <3>3. taken[h] < heard[h]
      BY <1>2, <2>5, <3>2, FindsOwn DEF IsFound
    <3> QED
      BY <1>2, <2>1, <3>1, <3>3
  <2> QED
    BY <2>2, <2>3, <2>4, <2>5, BellSteps
<1> QED
  BY <1>3, <1>4, <1>5

-----------------------------------------------------------------------------
(* The invariant. *)

LEMMA InitInv == Init => Inv
<1> SUFFICES ASSUME Init
             PROVE  Inv
  OBVIOUS
<1>1. /\ \A c \in Clients : /\ client[c] = 0 /\ handler[c] = 0 /\ up[c] = <<>>
                            /\ down[c] = [t \in Tags |-> 0] /\ stream_down[c] = 0
      /\ \A t \in Tags : posted[t] = <<>> /\ unexpected[t] = 0
      /\ "bell" \in Tags
  BY DEF Init, Tags
<1>2. DataOK
  <2>1. Len(client_script) \in Nat /\ Len(handle_endpoint) \in Nat
    BY ClientScript, HandlerScript, ConstantsAssumption
  <2>2. \A S : <<>> \in Seq(S)
    OBVIOUS
  <2> QED
    BY <2>1, <2>2 DEF Init, DataOK
<1>3. WaitOK
  BY <1>1 DEF WaitOK, ToSet
<1>4. alone \in BOOLEAN
  BY DEF Init
<1>5. TypeOK
  BY <1>2, <1>3, <1>4, TypeParts
<1>6. StartInv
  BY <1>1 DEF StartInv
<1>7. CountInv
  BY InitCount
<1>8. PostedInv
  BY <1>1 DEF PostedInv
<1>9. /\ SentAt(0) = 0 /\ RepliesAt(0) = 0 /\ ReadAt(0) = 0
      /\ BellsAt(0) = 0 /\ AnsweredAt(0) = 0 /\ SharedAt(0) = 0
  BY DEF SentAt, RepliesAt, ReadAt, BellsAt, AnsweredAt, SharedAt
<1>10. OrderInv /\ \A c \in Clients : Arrived(c) = 0
  BY <1>1, <1>9 DEF OrderInv, Arrived
<1>11. ReplyInv
  BY <1>1, <1>9 DEF ReplyInv
<1>12. \A c \in Clients : heard[c] = 0 /\ taken[c] = 0
  BY <1>1, <1>9, <1>10 DEF heard, taken
<1>13. BellInv
  <2>1. heard \in [Clients -> Nat] /\ taken \in [Clients -> Nat]
    BY <1>2, <1>10, HeardTaken
  <2>2. Cardinality(Upto(heard)) = 0 /\ Cardinality(Upto(taken)) = 0
    BY <1>12, <2>1, UptoNone
  <2> QED
    BY <1>1, <2>2 DEF BellInv
<1>14. AloneInv
  <2>1. \A c \in Clients : ~Active(c)
    BY <1>1, ClientScript, HandlerScript DEF Active, HandlerRuns
  <2>2. strayed = {}
    BY DEF Init
  <2> QED
    BY <1>12, <2>1, <2>2 DEF AloneInv
<1> QED
  BY <1>5, <1>6, <1>7, <1>8, <1>10, <1>11, <1>13, <1>14 DEF Inv

LEMMA AloneType == alone \in BOOLEAN /\ Next => alone' \in BOOLEAN
<1> SUFFICES ASSUME alone \in BOOLEAN, Next
             PROVE  alone' \in BOOLEAN
  OBVIOUS
<1> PICK c \in Clients : connect(c) \/ ClientStep(c) \/ HandlerStep(c) \/ arrive(c)
  BY DEF Next
<1>1. CASE connect(c)
  BY <1>1, Zenon DEF connect
<1>2. CASE ~connect(c)
  <2>1. UNCHANGED alone
    BY <1>2 DEF ClientStep, client_tag_send, client_tag_recv, client_stream_send,
       client_stream_recv, client_access, client_strays, client_ends, HandlerStep,
       handler_tag_send, handler_tag_recv, handler_stream_send, handler_stream_recv,
       handler_ends, arrive, historyVars
  <2> QED
    BY <2>1, Zenon
<1> QED
  BY <1>1, <1>2

LEMMA InvStep == Inv /\ [Next]_vars => Inv'
<1> SUFFICES ASSUME Inv, [Next]_vars
             PROVE  Inv'
  OBVIOUS
<1>1. /\ TypeOK /\ DataOK /\ WaitOK /\ alone \in BOOLEAN
      /\ StartInv /\ CountInv /\ PostedInv /\ OrderInv /\ ReplyInv /\ BellInv /\ AloneInv
  BY TypeParts DEF Inv
<1>2. CASE Next
  <2>1. DataOK' /\ WaitOK'
    BY <1>1, <1>2, DataStep, WaitStep
  <2>2. alone' \in BOOLEAN
    BY <1>1, <1>2, AloneType, Zenon
  <2>3. TypeOK'
    BY <2>1, <2>2, Zenon DEF TypeOK, DataOK, WaitOK
  <2>4. OrderInv'
    BY <1>1, <1>2, ArrivedStays, ArrivedNext DEF Next
  <2>5. PostedInv'
    BY <1>1, <1>2, PostedStep
  <2> QED
    BY <1>1, <1>2, <2>3, <2>4, <2>5, StartStep, CountStep, ReplyStep, BellStep, AloneStep
    DEF Inv
<1>3. CASE UNCHANGED vars
  <2> USE <1>3 DEF vars, tagVars, streamVars, historyVars
  <2>1. DataOK' /\ WaitOK'
    BY <1>1 DEF DataOK, WaitOK, HandlerAwaits, HandlerRuns, HandlerArg
  <2>2. alone' \in BOOLEAN
    BY <1>1, Zenon
  <2>3. TypeOK'
    BY <2>1, <2>2, Zenon DEF TypeOK, DataOK, WaitOK
  <2>4. StartInv' /\ PostedInv' /\ ReplyInv'
    BY <1>1 DEF StartInv, PostedInv, ReplyInv
  <2>5. CountInv'
    BY <1>1 DEF CountInv, Bells, Written
  <2>6. OrderInv' /\ heard' = heard /\ taken' = taken
    BY <1>1 DEF OrderInv, Arrived, heard, taken
  <2>7. BellInv'
    BY <1>1 DEF BellInv, Upto, heard, taken, Arrived
  <2>8. AloneInv'
    BY <1>1 DEF AloneInv, Active, HandlerRuns, heard, taken, Arrived
  <2> QED
    BY <2>3, <2>4, <2>5, <2>6, <2>7, <2>8 DEF Inv
<1> QED
  BY <1>2, <1>3

\* The invariant of the conversations of helloworld.cc.
THEOREM Invariance == Spec => []Inv
<1>1. Init => Inv
  BY InitInv
<1>2. Inv /\ [Next]_vars => Inv'
  BY InvStep
<1> QED
  BY <1>1, <1>2, PTL DEF Spec

-----------------------------------------------------------------------------
(* What follows from it. *)

\* Every variable has its type, and a handler whose receive is posted in the
\* server's worker is at the co_await of that very receive.
THEOREM TypeCorrect == Spec => []TypeOK
<1>1. Inv => TypeOK
  BY DEF Inv
<1> QED
  BY <1>1, Invariance, PTL

\* As long as clients come one after the other, a handler has never received
\* more bells than its client has finished accesses to the memory: what
\* helloworld.cc prints when a bell rings is true.
THEOREM BellsMeanDone == Spec => []BellMeansDone
<1>1. Inv => BellMeansDone
  <2> SUFFICES ASSUME Inv, alone, NEW c \in Clients
               PROVE  Bells(c) <= Written(c)
    BY DEF BellMeansDone
  <2>1. DataOK /\ OrderInv /\ CountInv /\ AloneInv
    BY TypeParts DEF Inv
  <2>2. /\ taken[c] <= heard[c] /\ heard[c] <= RungAt(client[c])
        /\ taken[c] = BellsAt(handler[c]) /\ heard[c] \in Nat
    BY <2>1, HeardTaken DEF AloneInv
  <2>3. RungAt(client[c]) <= WrittenAt(client[c])
    BY <2>1, ClientPositions DEF DataOK
  <2>4. Bells(c) = BellsAt(handler[c]) /\ Written(c) = WrittenAt(client[c])
    BY <2>1 DEF CountInv
  <2>5. /\ BellsAt(handler[c]) \in Int /\ RungAt(client[c]) \in Int
        /\ WrittenAt(client[c]) \in Int
    BY <2>1, ReplyNat
  <2> HIDE DEF heard, taken
  <2> QED
    BY <2>2, <2>3, <2>4, <2>5
<1> QED
  BY <1>1, Invariance, PTL

\* However conversations overlap, a handler of helloworld.cc has received at
\* most one bell per other client more than its own client has finished
\* accesses: a client does not ring again before its handler has answered.
THEOREM HandlersClose == Spec => []HandlersStayClose
<1>1. Inv => HandlersStayClose
  <2> SUFFICES ASSUME Inv, NEW c \in Clients
               PROVE  Bells(c) < Written(c) + Cardinality(Clients)
    BY DEF HandlersStayClose
  <2>1. DataOK /\ OrderInv /\ CountInv /\ ReplyInv /\ BellInv
    BY TypeParts DEF Inv
  <2> DEFINE rung == [d \in Clients |-> RungAt(client[d])]
  <2>2. rung \in [Clients -> Nat] /\ \A d \in Clients : rung[d] <= Atomics + 1
    <3>1. \A d \in Clients : RungAt(client[d]) \in 0 .. Atomics + 1
      BY <2>1, ClientPositions DEF DataOK
    <3> QED
      BY <3>1, ConstantsAssumption
  <2>3. IsFiniteSet(Upto(rung)) /\ Cardinality(Upto(rung)) \in Nat
    BY <2>2, UptoFinite, FS_CardinalityType, ConstantsAssumption
  <2>4. /\ taken \in [Clients -> Nat] /\ heard \in [Clients -> Nat]
        /\ IsFiniteSet(Upto(taken)) /\ IsFiniteSet(Upto(heard))
        /\ Cardinality(Upto(taken)) \in Nat /\ Cardinality(Upto(heard)) \in Nat
        /\ \A d \in Clients : heard[d] <= rung[d] /\ taken[d] = BellsAt(handler[d])
    BY <2>1, HeardTaken
  <2>5. \A d \in Clients : rung[d] <= taken[d] + 1
    <3> SUFFICES ASSUME NEW d \in Clients
                 PROVE  RungAt(client[d]) <= BellsAt(handler[d]) + 1
      BY <2>4
    <3>1. RepliesAt(client[d]) <= AnsweredAt(handler[d])
          /\ ReadAt(client[d]) <= SharedAt(handler[d])
      BY <2>1, ReplyNat DEF ReplyInv
    <3> QED
      BY <2>1, <3>1, ClientWaits DEF DataOK
  <2> HIDE DEF rung, heard, taken
  <2>6. Cardinality(Upto(heard)) <= Cardinality(Upto(rung))
    <3>1. Upto(heard) \subseteq Upto(rung)
      BY <2>2, <2>4 DEF Upto
    <3> QED
      BY <2>3, <3>1, FS_Subset
  <2>7. Cardinality(Upto(taken)) <= Cardinality(Upto(heard))
    <3>1. /\ Cardinality(Upto(heard)) = unexpected["bell"] + Cardinality(Upto(taken))
          /\ unexpected["bell"] \in Nat
      BY <2>1 DEF BellInv, DataOK, Tags
    <3> QED
      BY <2>4, <3>1
  <2>8. taken[c] < rung[c] + Cardinality(Clients)
    <3>1. Cardinality(Upto(taken)) <= Cardinality(Upto(rung))
      BY <2>3, <2>4, <2>6, <2>7
    <3> QED
      BY <2>2, <2>3, <2>4, <2>5, <3>1, UptoExcess
  <2>9. /\ Bells(c) = taken[c] /\ Written(c) = WrittenAt(client[c])
        /\ rung[c] <= WrittenAt(client[c]) /\ WrittenAt(client[c]) \in Nat
    BY <2>1, <2>4, ClientPositions DEF CountInv, DataOK, rung
  <2>10. Cardinality(Clients) \in Nat /\ taken[c] \in Nat /\ rung[c] \in Nat
    BY <2>2, <2>4, ConstantsAssumption, FS_CardinalityType
  <2> QED
    BY <2>8, <2>9, <2>10
<1> QED
  BY <1>1, Invariance, PTL

\* As long as clients come one after the other, no client of helloworld.cc
\* accesses the memory of a handler that has ended.
THEOREM MemoryOutlives == Spec => []MemoryOutlivesAccess
<1>1. Inv => MemoryOutlivesAccess
  BY DEF Inv, AloneInv, MemoryOutlivesAccess
<1> QED
  BY <1>1, Invariance, PTL
=============================================================================
