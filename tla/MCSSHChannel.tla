---------------------------- MODULE MCSSHChannel ----------------------------
EXTENDS SSHChannel

\* Bytes the client writes on the main stream and on stderr, and the server
\* on the main stream.
Bytes(main, stderr, back) ==
    [p \in Peer |-> [e \in Ext |->
        IF p = "server" THEN (IF e = 0 THEN back ELSE 0)
        ELSE IF e = 0 THEN main ELSE stderr]]

LongOneWay == Bytes(3, 0, 0)
WithStderr == Bytes(1, 1, 0)
=============================================================================
