--------------------------- MODULE MCHandshake ---------------------------
(* Two clients; a length of two bytes, so that it can be read in parts; one *)
(* address that arrives in one read and one that need not.                  *)
EXTENDS Handshake

CONSTANTS c1, c2

MCClients == {c1, c2}
MCLength == [p \in MCClients \cup {Server} |-> IF p = c1 THEN 1 ELSE 2]
==========================================================================
