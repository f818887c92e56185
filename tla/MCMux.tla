------------------------------- MODULE MCMux -------------------------------
(* Small connections for TLC. *)
EXTENDS Mux

By(client, server) == [p \in Peer |-> IF p = "client" THEN client ELSE server]

\* Two channels of the client, whose openings may be abandoned.
TwoChannels == [opens |-> By(2, 0), requests |-> By(0, 0), global |-> By(0, 0),
                cancels |-> {"open"}, timeouts |-> FALSE]
\* A channel on which the client sends two requests.
TwoRequests == [opens |-> By(1, 0), requests |-> By(2, 0), global |-> By(0, 0),
                cancels |-> {}, timeouts |-> TRUE]
\* A channel on which the server sends two requests, and whose opening may be abandoned.
AbandonedOpen == [opens |-> By(1, 0), requests |-> By(0, 2), global |-> By(0, 0),
                  cancels |-> {"open"}, timeouts |-> FALSE]
\* Global requests of both sides.
EachGlobal == [opens |-> By(0, 0), requests |-> By(0, 0), global |-> By(2, 1),
               cancels |-> {}, timeouts |-> TRUE]
\* Two global requests that may be abandoned.
Abandoned == [opens |-> By(0, 0), requests |-> By(0, 0), global |-> By(2, 0),
              cancels |-> {"global"}, timeouts |-> TRUE]

MCUses == {TwoChannels, TwoRequests, AbandonedOpen, EachGlobal, Abandoned}
=============================================================================
