------------------------------ MODULE Dialing -------------------------------
(***************************************************************************)
(* What the parts of an outgoing connection share: the goroutines that     *)
(* call SSHConnect, where each of them is, and whether its connection is   *)
(* gone.                                                                   *)
(***************************************************************************)

CONSTANT Callers    \* the goroutines that call SSHConnect, with one connection each

VARIABLES
    cli,            \* [Callers -> where SSHConnect is]
    lost            \* the callers whose connection is closed or lost

\* The end of the connection: the network, the peer, or a halt, which closes netconn.
Lose(c) ==
    /\ cli[c] # "idle" /\ c \notin lost
    /\ lost' = lost \cup {c}
    /\ UNCHANGED cli
=============================================================================
