---------------------------- MODULE MCHandshake ----------------------------
(* Small connections for TLC. *)
EXTENDS Handshake

By(client, server) == [p \in Peer |-> IF p = "client" THEN client ELSE server]

\* Both ends write and ask for new keys, at any time.
BothRekey == [data |-> By(2, 2), rekeys |-> By(1, 1), failures |-> {}]
\* The connection breaks, or the client rejects the host key, perhaps during
\* the second exchange.
Breaks == [data |-> By(1, 1), rekeys |-> By(1, 0), failures |-> {"lost"}]
Rejects == [data |-> By(2, 1), rekeys |-> By(0, 1), failures |-> {"reject"}]
\* An end is told to halt.
Halts == [data |-> By(2, 0), rekeys |-> By(1, 0), failures |-> {"halt"}]

Rekeys == {BothRekey, Breaks, Rejects, Halts}
Halting == {Halts}
=============================================================================
