----------------------------- MODULE ByteStream -----------------------------
(***************************************************************************)
(* What an SSH channel promises its users, "an ordered, reliable,          *)
(* flow-controlled, duplex stream" (xcryptossh/channel.go, type Channel):  *)
(* the bytes delivered are a prefix of those written, at most WindowSize   *)
(* bytes per direction are written and not yet read, and a reader of the   *)
(* main stream that is told the end has been given every byte, unless the  *)
(* connection broke.                                                       *)
(***************************************************************************)
EXTENDS Integers

CONSTANTS Peer, Other(_), Ext, WindowSize

VARIABLES
    written,     \* bytes p has written to the stream
    delivered,   \* bytes p has read from the stream
    ended,       \* p was told the end of the stream
    broken       \* the connection is gone

vars == <<written, delivered, ended, broken>>

Total(f) == f[0] + f[1]

Init ==
    /\ written = [p \in Peer |-> [e \in Ext |-> 0]]
    /\ delivered = [p \in Peer |-> [e \in Ext |-> 0]]
    /\ ended = [p \in Peer |-> [e \in Ext |-> FALSE]]
    /\ broken = FALSE

Write(p, e, n) ==
    /\ ~broken
    /\ ~(e = 0 /\ ended[Other(p)][e])
    /\ Total(written[p]) + n - Total(delivered[Other(p)]) <= WindowSize
    /\ written' = [written EXCEPT ![p][e] = @ + n]
    /\ UNCHANGED <<delivered, ended, broken>>

Read(p, e, n) ==
    /\ delivered[p][e] + n <= written[Other(p)][e]
    /\ delivered' = [delivered EXCEPT ![p][e] = @ + n]
    /\ UNCHANGED <<written, ended, broken>>

End(p, e) ==
    /\ e = 0 /\ ~broken => delivered[p][e] = written[Other(p)][e]
    /\ ended' = [ended EXCEPT ![p][e] = TRUE]
    /\ UNCHANGED <<written, delivered, broken>>

Break ==
    /\ broken' = TRUE
    /\ UNCHANGED <<written, delivered, ended>>

Next ==
    \/ \E p \in Peer, e \in Ext :
          \/ \E n \in 1..WindowSize : Write(p, e, n) \/ Read(p, e, n)
          \/ End(p, e)
    \/ Break

Spec == Init /\ [][Next]_vars
=============================================================================
