-------------------------- MODULE Tricorder_proofs --------------------------
(***************************************************************************)
(* What is proved of the Tricorder, for any tickets, retries and number of *)
(* connections.                                                            *)
(*                                                                         *)
(* NoNeedlessReconnect rests on TowerInv: only the keepalives of the       *)
(* connection in t.cli run, and they end with their one notification, so   *)
(* that none is left in the tower when t.cli is replaced.  NoStaleChannel  *)
(* rests on OpenInv: every open channel is in t.sshChannels, which is      *)
(* closed before t.cli is given up.                                        *)
(***************************************************************************)
EXTENDS Tricorder, FiniteSetTheorems, TLAPS

LoopTypes ==
    /\ loop \in {"first", "again", "failed", "panicked", "select", "clearing", "open",
                 "ending", "closing", "ended"}
    /\ tofu \in BOOLEAN /\ {halted, done} \subseteq BOOLEAN
    /\ asks \in {"idle", "waits", "got", "shutdown"}
TryTypes == tries \in 0..(Retries - 1)
ConnTypes ==
    /\ conn \in [Conns -> {"none", "up", "spins", "stuck", "dropped", "closed"}]
    /\ quit \in [Conns -> BOOLEAN] /\ keep \in [Conns -> BOOLEAN]
CallTypes ==
    /\ ticket \in [Tickets -> {"idle", "sent", "ok", "err"}]
    /\ tkCtx \in [Tickets -> BOOLEAN]
    /\ tk = {} \/ \E c \in Tickets : tk = {c}
    /\ msg \in {"empty", "wait", "never", "confirm", "failure", "closed"}
ChanTypes ==
    /\ chan \in [Tickets -> {"none", "open", "closed"}]
    /\ chanConn \in [Tickets -> 0..MaxConns]
    /\ sshChannels \subseteq Tickets /\ below \subseteq Linked

\* The loop has a client, or dials for one.
CliInv ==
    /\ cli = 0 \/ (cli \in Conns /\ conn[cli] # "none")
    /\ loop \in {"select", "open", "clearing"} => cli # 0
    /\ loop \in {"first", "again", "failed", "panicked"} => cli = 0

\* Who notifies the tower, and of what.
TowerInv ==
    /\ \A k \in Conns : keep[k] => k = cli /\ sub = 0 /\ loop # "clearing"
    /\ sub = 0 \/ (sub = cli /\ conn[cli] # "up" /\ loop # "clearing")
    /\ loop = "clearing" => conn[cli] # "up"

OpenInv ==
    \A c \in Tickets : chan[c] = "open" =>
        /\ c \in sshChannels /\ chanConn[c] = cli
        /\ loop \in {"select", "open", "ending", "closing"}

TricorderInv ==
    /\ LoopTypes /\ TryTypes /\ ConnTypes /\ CallTypes /\ ChanTypes
    /\ CliInv /\ TowerInv /\ OpenInv

\* What leaves a group of variables alone keeps their types: the connections.
LEMMA ConnFrame == ConnTypes /\ UNCHANGED connVars => ConnTypes'
  BY Zenon DEF ConnTypes, connVars

\* ... the calls ...
LEMMA CallFrame == CallTypes /\ UNCHANGED callVars => CallTypes'
  BY Zenon DEF CallTypes, callVars

\* ... and the channels.
LEMMA ChanFrame == ChanTypes /\ UNCHANGED chanVars => ChanTypes'
  BY Zenon DEF ChanTypes, chanVars

\* Every step keeps the invariant.
LEMMA TricorderStep == TricorderInv /\ [Next]_vars => TricorderInv'
<1>. SUFFICES ASSUME LoopTypes, TryTypes, ConnTypes, CallTypes, ChanTypes,
                     CliInv, TowerInv, OpenInv, [Next]_vars
              PROVE  TricorderInv'
  BY Zenon DEF TricorderInv
<1>1. CASE DialShutdown
  <2>1. LoopTypes'
    BY <1>1, Zenon DEF DialShutdown, Dialing, dialVars, LoopTypes
  <2>2. ConnTypes' /\ CallTypes' /\ ChanTypes' /\ TryTypes'
    BY <1>1, ConnFrame, CallFrame, ChanFrame, Zenon DEF DialShutdown, dialVars,
       TryTypes
  <2>3. CliInv'
    BY <1>1, Zenon DEF DialShutdown, Dialing, CliInv
  <2>4. TowerInv'
    BY <1>1, Zenon DEF DialShutdown, Dialing, connVars, TowerInv, CliInv
  <2>5. OpenInv'
    BY <1>1, Zenon DEF DialShutdown, Dialing, chanVars, OpenInv, CliInv
  <2>. QED
    BY <2>1, <2>2, <2>3, <2>4, <2>5, Zenon DEF TricorderInv
<1>2. CASE DialOK
  <2>1. LoopTypes'
    BY <1>2, Zenon DEF DialOK, dialVars, LoopTypes
  <2>2. TryTypes'
    BY <1>2, TicketsAssumption DEF DialOK, TryTypes
  <2>3. ConnTypes'
    BY <1>2, Zenon DEF DialOK, ConnTypes
  <2>4. CallTypes' /\ ChanTypes'
    BY <1>2, CallFrame, ChanFrame, Zenon DEF DialOK
  <2>5. CliInv'
    BY <1>2 DEF DialOK, Dialing, ConnTypes, Conns, CliInv
  <2>6. TowerInv'
    BY <1>2 DEF DialOK, Dialing, ConnTypes, Conns, TowerInv, CliInv
  <2>7. OpenInv'
    BY <1>2, Zenon DEF DialOK, Dialing, chanVars, OpenInv, CliInv
  <2>. QED
    BY <2>1, <2>2, <2>3, <2>4, <2>5, <2>6, <2>7, Zenon DEF TricorderInv
<1>3. CASE DialTofu
  <2>1. LoopTypes'
    BY <1>3, Zenon DEF DialTofu, Dialing, Fails, dialVars, LoopTypes
  <2>2. TryTypes'
    BY <1>3, TicketsAssumption DEF DialTofu, TryTypes
  <2>3. ConnTypes' /\ CallTypes' /\ ChanTypes'
    BY <1>3, ConnFrame, CallFrame, ChanFrame, Zenon DEF DialTofu
  <2>4. CliInv'
    BY <1>3, Zenon DEF DialTofu, Dialing, Fails, connVars, CliInv
  <2>5. TowerInv'
    BY <1>3, Zenon DEF DialTofu, Dialing, Fails, connVars, TowerInv, CliInv
  <2>6. OpenInv'
    BY <1>3, Zenon DEF DialTofu, Dialing, Fails, chanVars, OpenInv, CliInv
  <2>. QED
    BY <2>1, <2>2, <2>3, <2>4, <2>5, <2>6, Zenon DEF TricorderInv
<1>4. CASE DialFails
  <2>1. LoopTypes'
    BY <1>4, Zenon DEF DialFails, Dialing, Fails, dialVars, LoopTypes
  <2>2. TryTypes'
    BY <1>4, TicketsAssumption DEF DialFails, TryTypes
  <2>3. ConnTypes' /\ CallTypes' /\ ChanTypes'
    BY <1>4, ConnFrame, CallFrame, ChanFrame, Zenon DEF DialFails
  <2>4. CliInv'
    BY <1>4, Zenon DEF DialFails, Dialing, Fails, connVars, CliInv
  <2>5. TowerInv'
    BY <1>4, Zenon DEF DialFails, Dialing, Fails, connVars, TowerInv, CliInv
  <2>6. OpenInv'
    BY <1>4, Zenon DEF DialFails, Dialing, Fails, chanVars, OpenInv, CliInv
  <2>. QED
    BY <2>1, <2>2, <2>3, <2>4, <2>5, <2>6, Zenon DEF TricorderInv
<1>5. ASSUME NEW k \in Conns, ConnLost(k) PROVE TricorderInv'
  <2>1. LoopTypes'
    BY <1>5, Zenon DEF ConnLost, dialVars, LoopTypes
  <2>2. ConnTypes'
    BY <1>5, Zenon DEF ConnLost, Dropped, ConnTypes
  <2>3. CallTypes'
    BY <1>5, Zenon DEF ConnLost, Dropped, CallTypes
  <2>4. ChanTypes'
    BY <1>5, Zenon DEF ConnLost, Dropped, ChanTypes
  <2>5. TryTypes'
    BY <1>5, Zenon DEF ConnLost, dialVars, TryTypes
  <2>6. CliInv'
    BY <1>5, Zenon DEF ConnLost, Dropped, ConnTypes, Conns, CliInv
  <2>7. TowerInv'
    BY <1>5, Zenon DEF ConnLost, Dropped, ConnTypes, Conns, TowerInv, CliInv
  <2>8. OpenInv'
    BY <1>5, Zenon DEF ConnLost, Dropped, OpenInv, CliInv
  <2>. QED
    BY <2>1, <2>2, <2>3, <2>4, <2>5, <2>6, <2>7, <2>8, Zenon DEF TricorderInv
<1>6. ASSUME NEW k \in Conns, ConnCloses(k) PROVE TricorderInv'
  <2>1. LoopTypes'
    BY <1>6, Zenon DEF ConnCloses, dialVars, LoopTypes
  <2>2. ConnTypes'
    BY <1>6, Zenon DEF ConnCloses, ConnTypes
  <2>3. CallTypes' /\ ChanTypes' /\ TryTypes'
    BY <1>6, CallFrame, ChanFrame, Zenon DEF ConnCloses, dialVars, TryTypes
  <2>4. CliInv'
    BY <1>6, Zenon DEF ConnCloses, ConnTypes, Conns, CliInv
  <2>5. TowerInv'
    BY <1>6, Zenon DEF ConnCloses, ConnTypes, Conns, TowerInv, CliInv
  <2>6. OpenInv'
    BY <1>6, Zenon DEF ConnCloses, chanVars, OpenInv, CliInv
  <2>. QED
    BY <2>1, <2>2, <2>3, <2>4, <2>5, <2>6, Zenon DEF TricorderInv
<1>7. ASSUME NEW k \in Conns, CloseCli(k) PROVE TricorderInv'
  <2>1. LoopTypes'
    BY <1>7, Zenon DEF CloseCli, dialVars, LoopTypes
  <2>2. ConnTypes'
    BY <1>7, Zenon DEF CloseCli, Dropped, ConnTypes
  <2>3. CallTypes'
    BY <1>7, Zenon DEF CloseCli, Dropped, CallTypes
  <2>4. ChanTypes'
    BY <1>7, Zenon DEF CloseCli, Dropped, ChanTypes
  <2>5. TryTypes'
    BY <1>7, Zenon DEF CloseCli, dialVars, TryTypes
  <2>6. CliInv'
    BY <1>7, Zenon DEF CloseCli, Dropped, ConnTypes, Conns, CliInv
  <2>7. TowerInv'
    BY <1>7, Zenon DEF CloseCli, Dropped, ConnTypes, Conns, TowerInv, CliInv
  <2>8. OpenInv'
    BY <1>7, Zenon DEF CloseCli, Dropped, OpenInv, CliInv
  <2>. QED
    BY <2>1, <2>2, <2>3, <2>4, <2>5, <2>6, <2>7, <2>8, Zenon DEF TricorderInv
<1>8. ASSUME NEW k \in Conns, KeepaliveFails(k) PROVE TricorderInv'
  <2>1. LoopTypes'
    BY <1>8, Zenon DEF KeepaliveFails, dialVars, LoopTypes
  <2>2. ConnTypes'
    BY <1>8, Zenon DEF KeepaliveFails, ConnTypes
  <2>3. CallTypes' /\ ChanTypes' /\ TryTypes'
    BY <1>8, CallFrame, ChanFrame, Zenon DEF KeepaliveFails, dialVars, TryTypes
  <2>4. CliInv'
    BY <1>8, Zenon DEF KeepaliveFails, Broadcast, ConnTypes, Conns, CliInv
  <2>5. TowerInv'
    BY <1>8, Zenon DEF KeepaliveFails, Broadcast, ConnTypes, Conns, TowerInv, CliInv
  <2>6. OpenInv'
    BY <1>8, Zenon DEF KeepaliveFails, Broadcast, chanVars, OpenInv, CliInv
  <2>. QED
    BY <2>1, <2>2, <2>3, <2>4, <2>5, <2>6, Zenon DEF TricorderInv
<1>9. ASSUME NEW k \in Conns, KeepaliveQuits(k) PROVE TricorderInv'
  <2>1. LoopTypes'
    BY <1>9, Zenon DEF KeepaliveQuits, dialVars, LoopTypes
  <2>2. ConnTypes'
    BY <1>9, Zenon DEF KeepaliveQuits, ConnTypes
  <2>3. CallTypes' /\ ChanTypes' /\ TryTypes'
    BY <1>9, CallFrame, ChanFrame, Zenon DEF KeepaliveQuits, dialVars, TryTypes
  <2>4. CliInv'
    BY <1>9, Zenon DEF KeepaliveQuits, ConnTypes, Conns, CliInv
  <2>5. TowerInv'
    BY <1>9, Zenon DEF KeepaliveQuits, ConnTypes, Conns, TowerInv, CliInv
  <2>6. OpenInv'
    BY <1>9, Zenon DEF KeepaliveQuits, chanVars, OpenInv, CliInv
  <2>. QED
    BY <2>1, <2>2, <2>3, <2>4, <2>5, <2>6, Zenon DEF TricorderInv
<1>10. CASE ReconnectNeeded
  <2>1. LoopTypes'
    BY <1>10, Zenon DEF ReconnectNeeded, dialVars, LoopTypes
  <2>2. ChanTypes'
    BY <1>10, Zenon DEF ReconnectNeeded, closeChannels, ChanTypes
  <2>3. ConnTypes' /\ CallTypes' /\ TryTypes'
    BY <1>10, ConnFrame, CallFrame, Zenon DEF ReconnectNeeded, dialVars, TryTypes
  <2>4. CliInv'
    BY <1>10, Zenon DEF ReconnectNeeded, closeChannels, connVars, CliInv
  <2>5. TowerInv'
    BY <1>10, Zenon DEF ReconnectNeeded, closeChannels, connVars, TowerInv, CliInv
  <2>6. OpenInv'
    BY <1>10, Zenon DEF ReconnectNeeded, closeChannels, OpenInv, CliInv
  <2>. QED
    BY <2>1, <2>2, <2>3, <2>4, <2>5, <2>6, Zenon DEF TricorderInv
<1>11. CASE Cleared
  <2>1. LoopTypes'
    BY <1>11, Zenon DEF Cleared, dialVars, LoopTypes
  <2>2. ChanTypes'
    BY <1>11, Zenon DEF Cleared, ChanTypes
  <2>3. ConnTypes' /\ CallTypes' /\ TryTypes'
    BY <1>11, ConnFrame, CallFrame, Zenon DEF Cleared, dialVars, TryTypes
  <2>4. CliInv'
    BY <1>11, Zenon DEF Cleared, connVars, CliInv
  <2>5. TowerInv'
    BY <1>11, Zenon DEF Cleared, connVars, TowerInv, CliInv
  <2>6. OpenInv'
    BY <1>11, Zenon DEF Cleared, OpenInv, CliInv
  <2>. QED
    BY <2>1, <2>2, <2>3, <2>4, <2>5, <2>6, Zenon DEF TricorderInv
<1>12. CASE ProvideCli
  <2>1. LoopTypes'
    BY <1>12, Zenon DEF ProvideCli, dialVars, LoopTypes
  <2>2. ConnTypes' /\ CallTypes' /\ ChanTypes' /\ TryTypes'
    BY <1>12, ConnFrame, CallFrame, ChanFrame, Zenon DEF ProvideCli, dialVars,
       TryTypes
  <2>3. CliInv'
    BY <1>12, Zenon DEF ProvideCli, connVars, CliInv
  <2>4. TowerInv'
    BY <1>12, Zenon DEF ProvideCli, connVars, TowerInv, CliInv
  <2>5. OpenInv'
    BY <1>12, Zenon DEF ProvideCli, chanVars, OpenInv, CliInv
  <2>. QED
    BY <2>1, <2>2, <2>3, <2>4, <2>5, Zenon DEF TricorderInv
<1>13. ASSUME NEW c \in Tickets, helperGetChannel(c) PROVE TricorderInv'
  <2>1. LoopTypes'
    BY <1>13, Zenon DEF helperGetChannel, dialVars, LoopTypes
  <2>2. CallTypes'
    BY <1>13, Zenon DEF helperGetChannel, CallTypes
  <2>3. ConnTypes' /\ ChanTypes' /\ TryTypes'
    BY <1>13, ConnFrame, ChanFrame, Zenon DEF helperGetChannel, dialVars, TryTypes
  <2>4. CliInv'
    BY <1>13, Zenon DEF helperGetChannel, connVars, CliInv
  <2>5. TowerInv'
    BY <1>13, Zenon DEF helperGetChannel, connVars, TowerInv, CliInv
  <2>6. OpenInv'
    BY <1>13, Zenon DEF helperGetChannel, chanVars, OpenInv, CliInv
  <2>. QED
    BY <2>1, <2>2, <2>3, <2>4, <2>5, <2>6, Zenon DEF TricorderInv
<1>14. ASSUME NEW c \in Tickets, OpenOK(c) PROVE TricorderInv'
  <2>1. LoopTypes'
    BY <1>14, Zenon DEF OpenOK, Returned, dialVars, LoopTypes
  <2>2. CallTypes'
    BY <1>14, Zenon DEF OpenOK, Returned, CallTypes
  <2>3. ChanTypes'
    <3>1. chan' \in [Tickets -> {"none", "open", "closed"}]
      BY <1>14, Zenon DEF OpenOK, ChanTypes
    <3>2. chanConn' \in [Tickets -> 0..MaxConns]
      BY <1>14 DEF OpenOK, ChanTypes, CliInv, Conns
    <3>3. sshChannels' \subseteq Tickets /\ below' \subseteq Linked
      BY <1>14, Zenon DEF OpenOK, ChanTypes
    <3>. QED
      BY <3>1, <3>2, <3>3, Zenon DEF ChanTypes
  <2>4. ConnTypes' /\ TryTypes'
    BY <1>14, ConnFrame, Zenon DEF OpenOK, dialVars, TryTypes
  <2>5. CliInv'
    BY <1>14, Zenon DEF OpenOK, Returned, connVars, CliInv
  <2>6. TowerInv'
    BY <1>14, Zenon DEF OpenOK, Returned, connVars, TowerInv, CliInv
  <2>7. OpenInv'
    BY <1>14, Zenon DEF OpenOK, Returned, ChanTypes, OpenInv, CliInv
  <2>. QED
    BY <2>1, <2>2, <2>3, <2>4, <2>5, <2>6, <2>7, Zenon DEF TricorderInv
<1>15. ASSUME NEW c \in Tickets, OpenFails(c) PROVE TricorderInv'
  <2>1. LoopTypes'
    BY <1>15, Zenon DEF OpenFails, Returned, dialVars, LoopTypes
  <2>2. CallTypes'
    BY <1>15, Zenon DEF OpenFails, Returned, CallTypes
  <2>3. ConnTypes' /\ ChanTypes' /\ TryTypes'
    BY <1>15, ConnFrame, ChanFrame, Zenon DEF OpenFails, dialVars, TryTypes
  <2>4. CliInv'
    BY <1>15, Zenon DEF OpenFails, Returned, connVars, CliInv
  <2>5. TowerInv'
    BY <1>15, Zenon DEF OpenFails, Returned, connVars, TowerInv, CliInv
  <2>6. OpenInv'
    BY <1>15, Zenon DEF OpenFails, Returned, chanVars, OpenInv, CliInv
  <2>. QED
    BY <2>1, <2>2, <2>3, <2>4, <2>5, <2>6, Zenon DEF TricorderInv
<1>16. ASSUME NEW c \in Tickets, SSHChannel(c) PROVE TricorderInv'
  <2>1. LoopTypes'
    BY <1>16, Zenon DEF SSHChannel, dialVars, LoopTypes
  <2>2. CallTypes'
    BY <1>16, Zenon DEF SSHChannel, CallTypes
  <2>3. ConnTypes' /\ ChanTypes' /\ TryTypes'
    BY <1>16, ConnFrame, ChanFrame, Zenon DEF SSHChannel, dialVars, TryTypes
  <2>4. CliInv'
    BY <1>16, Zenon DEF SSHChannel, connVars, CliInv
  <2>5. TowerInv'
    BY <1>16, Zenon DEF SSHChannel, connVars, TowerInv, CliInv
  <2>6. OpenInv'
    BY <1>16, Zenon DEF SSHChannel, chanVars, OpenInv, CliInv
  <2>. QED
    BY <2>1, <2>2, <2>3, <2>4, <2>5, <2>6, Zenon DEF TricorderInv
<1>17. ASSUME NEW c \in Tickets, CancelCtx(c) PROVE TricorderInv'
  <2>1. LoopTypes'
    BY <1>17, Zenon DEF CancelCtx, dialVars, LoopTypes
  <2>2. CallTypes'
    BY <1>17, Zenon DEF CancelCtx, CallTypes
  <2>3. ConnTypes' /\ ChanTypes' /\ TryTypes'
    BY <1>17, ConnFrame, ChanFrame, Zenon DEF CancelCtx, dialVars, TryTypes
  <2>4. CliInv'
    BY <1>17, Zenon DEF CancelCtx, connVars, CliInv
  <2>5. TowerInv'
    BY <1>17, Zenon DEF CancelCtx, connVars, TowerInv, CliInv
  <2>6. OpenInv'
    BY <1>17, Zenon DEF CancelCtx, chanVars, OpenInv, CliInv
  <2>. QED
    BY <2>1, <2>2, <2>3, <2>4, <2>5, <2>6, Zenon DEF TricorderInv
<1>18. ASSUME NEW c \in Tickets, CloseChannel(c) PROVE TricorderInv'
  <2>1. LoopTypes'
    BY <1>18, Zenon DEF CloseChannel, dialVars, LoopTypes
  <2>2. ChanTypes'
    BY <1>18, Zenon DEF CloseChannel, ChanTypes
  <2>3. ConnTypes' /\ CallTypes' /\ TryTypes'
    BY <1>18, ConnFrame, CallFrame, Zenon DEF CloseChannel, dialVars, TryTypes
  <2>4. CliInv'
    BY <1>18, Zenon DEF CloseChannel, connVars, CliInv
  <2>5. TowerInv'
    BY <1>18, Zenon DEF CloseChannel, connVars, TowerInv, CliInv
  <2>6. OpenInv'
    BY <1>18, Zenon DEF CloseChannel, ChanTypes, OpenInv, CliInv
  <2>. QED
    BY <2>1, <2>2, <2>3, <2>4, <2>5, <2>6, Zenon DEF TricorderInv
<1>19. CASE Answer
  <2>1. LoopTypes'
    BY <1>19, Zenon DEF Answer, dialVars, LoopTypes
  <2>2. CallTypes'
    BY <1>19, Zenon DEF Answer, CallTypes
  <2>3. ConnTypes' /\ ChanTypes' /\ TryTypes'
    BY <1>19, ConnFrame, ChanFrame, Zenon DEF Answer, dialVars, TryTypes
  <2>4. CliInv'
    BY <1>19, Zenon DEF Answer, connVars, CliInv
  <2>5. TowerInv'
    BY <1>19, Zenon DEF Answer, connVars, TowerInv, CliInv
  <2>6. OpenInv'
    BY <1>19, Zenon DEF Answer, chanVars, OpenInv, CliInv
  <2>. QED
    BY <2>1, <2>2, <2>3, <2>4, <2>5, <2>6, Zenon DEF TricorderInv
<1>20. CASE SeesHalt
  <2>1. LoopTypes'
    BY <1>20, Zenon DEF SeesHalt, dialVars, LoopTypes
  <2>2. ConnTypes' /\ CallTypes' /\ ChanTypes' /\ TryTypes'
    BY <1>20, ConnFrame, CallFrame, ChanFrame, Zenon DEF SeesHalt, dialVars, TryTypes
  <2>3. CliInv'
    BY <1>20, Zenon DEF SeesHalt, connVars, CliInv
  <2>4. TowerInv'
    BY <1>20, Zenon DEF SeesHalt, connVars, TowerInv, CliInv
  <2>5. OpenInv'
    BY <1>20, Zenon DEF SeesHalt, chanVars, OpenInv, CliInv
  <2>. QED
    BY <2>1, <2>2, <2>3, <2>4, <2>5, Zenon DEF TricorderInv
<1>21. CASE MarksDone
  <2>1. LoopTypes'
    BY <1>21, Zenon DEF MarksDone, dialVars, LoopTypes
  <2>2. ChanTypes'
    BY <1>21, Zenon DEF MarksDone, ChanTypes
  <2>3. ConnTypes' /\ CallTypes' /\ TryTypes'
    BY <1>21, ConnFrame, CallFrame, Zenon DEF MarksDone, dialVars, TryTypes
  <2>4. CliInv'
    BY <1>21, Zenon DEF MarksDone, connVars, CliInv
  <2>5. TowerInv'
    BY <1>21, Zenon DEF MarksDone, connVars, TowerInv, CliInv
  <2>6. OpenInv'
    BY <1>21, Zenon DEF MarksDone, OpenInv, CliInv
  <2>. QED
    BY <2>1, <2>2, <2>3, <2>4, <2>5, <2>6, Zenon DEF TricorderInv
<1>22. CASE LoopReturns
  <2>1. LoopTypes'
    BY <1>22, Zenon DEF LoopReturns, dialVars, LoopTypes
  <2>2. ChanTypes'
    BY <1>22, Zenon DEF LoopReturns, closeChannels, ChanTypes
  <2>3. ConnTypes' /\ CallTypes' /\ TryTypes'
    BY <1>22, ConnFrame, CallFrame, Zenon DEF LoopReturns, dialVars, TryTypes
  <2>4. CliInv'
    BY <1>22, Zenon DEF LoopReturns, closeChannels, connVars, CliInv
  <2>5. TowerInv'
    BY <1>22, Zenon DEF LoopReturns, closeChannels, connVars, TowerInv, CliInv
  <2>6. OpenInv'
    BY <1>22, Zenon DEF LoopReturns, closeChannels, OpenInv, CliInv
  <2>. QED
    BY <2>1, <2>2, <2>3, <2>4, <2>5, <2>6, Zenon DEF TricorderInv
<1>23. CASE Cli
  <2>1. LoopTypes'
    BY <1>23, Zenon DEF Cli, dialVars, LoopTypes
  <2>2. ConnTypes' /\ CallTypes' /\ ChanTypes' /\ TryTypes'
    BY <1>23, ConnFrame, CallFrame, ChanFrame, Zenon DEF Cli, dialVars, TryTypes
  <2>3. CliInv'
    BY <1>23, Zenon DEF Cli, connVars, CliInv
  <2>4. TowerInv'
    BY <1>23, Zenon DEF Cli, connVars, TowerInv, CliInv
  <2>5. OpenInv'
    BY <1>23, Zenon DEF Cli, chanVars, OpenInv, CliInv
  <2>. QED
    BY <2>1, <2>2, <2>3, <2>4, <2>5, Zenon DEF TricorderInv
<1>24. CASE CliShutdown
  <2>1. LoopTypes'
    BY <1>24, Zenon DEF CliShutdown, dialVars, LoopTypes
  <2>2. ConnTypes' /\ CallTypes' /\ ChanTypes' /\ TryTypes'
    BY <1>24, ConnFrame, CallFrame, ChanFrame, Zenon DEF CliShutdown, dialVars,
       TryTypes
  <2>3. CliInv'
    BY <1>24, Zenon DEF CliShutdown, connVars, CliInv
  <2>4. TowerInv'
    BY <1>24, Zenon DEF CliShutdown, connVars, TowerInv, CliInv
  <2>5. OpenInv'
    BY <1>24, Zenon DEF CliShutdown, chanVars, OpenInv, CliInv
  <2>. QED
    BY <2>1, <2>2, <2>3, <2>4, <2>5, Zenon DEF TricorderInv
<1>25. CASE RequestStop
  <2>1. LoopTypes'
    BY <1>25, Zenon DEF RequestStop, dialVars, LoopTypes
  <2>2. ConnTypes' /\ CallTypes' /\ ChanTypes' /\ TryTypes'
    BY <1>25, ConnFrame, CallFrame, ChanFrame, Zenon DEF RequestStop, dialVars,
       TryTypes
  <2>3. CliInv'
    BY <1>25, Zenon DEF RequestStop, connVars, CliInv
  <2>4. TowerInv'
    BY <1>25, Zenon DEF RequestStop, connVars, TowerInv, CliInv
  <2>5. OpenInv'
    BY <1>25, Zenon DEF RequestStop, chanVars, OpenInv, CliInv
  <2>. QED
    BY <2>1, <2>2, <2>3, <2>4, <2>5, Zenon DEF TricorderInv
<1>26. CASE UNCHANGED vars
  <2>1. LoopTypes'
    BY <1>26, Zenon DEF vars, dialVars, LoopTypes
  <2>2. ConnTypes' /\ CallTypes' /\ ChanTypes' /\ TryTypes'
    BY <1>26, ConnFrame, CallFrame, ChanFrame, Zenon DEF vars, dialVars, TryTypes
  <2>3. CliInv'
    BY <1>26, Zenon DEF vars, connVars, CliInv
  <2>4. TowerInv'
    BY <1>26, Zenon DEF vars, connVars, TowerInv, CliInv
  <2>5. OpenInv'
    BY <1>26, Zenon DEF vars, chanVars, OpenInv, CliInv
  <2>. QED
    BY <2>1, <2>2, <2>3, <2>4, <2>5, Zenon DEF TricorderInv
<1>27. ASSUME NEW k \in Conns, ConnTimesOut(k) PROVE TricorderInv'
  <2>1. LoopTypes'
    BY <1>27, Zenon DEF ConnTimesOut, dialVars, LoopTypes
  <2>2. ConnTypes'
    BY <1>27, Zenon DEF ConnTimesOut, ConnTypes
  <2>3. CallTypes' /\ ChanTypes' /\ TryTypes'
    BY <1>27, CallFrame, ChanFrame, Zenon DEF ConnTimesOut, dialVars, TryTypes
  <2>4. CliInv'
    BY <1>27, Zenon DEF ConnTimesOut, ConnTypes, Conns, CliInv
  <2>5. TowerInv'
    BY <1>27, Zenon DEF ConnTimesOut, ConnTypes, Conns, TowerInv, CliInv
  <2>6. OpenInv'
    BY <1>27, Zenon DEF ConnTimesOut, chanVars, OpenInv, CliInv
  <2>. QED
    BY <2>1, <2>2, <2>3, <2>4, <2>5, <2>6, Zenon DEF TricorderInv
<1>. QED
  BY <1>1, <1>2, <1>3, <1>4, <1>5, <1>6, <1>7, <1>8, <1>9, <1>10, <1>11, <1>12, <1>13,
     <1>14, <1>15, <1>16, <1>17, <1>18, <1>19, <1>20, <1>21, <1>22, <1>23, <1>24,
     <1>25, <1>26, <1>27, Zenon DEF Next

\* NewTricorder has dialled nothing yet.
LEMMA TricorderInit == Init => TricorderInv
<1>. SUFFICES ASSUME Init PROVE TricorderInv
  BY Zenon
<1>1. LoopTypes /\ CallTypes
  BY Zenon DEF Init, LoopTypes, CallTypes
<1>2. TryTypes /\ ChanTypes
  BY TicketsAssumption DEF Init, TryTypes, ChanTypes
<1>3. ConnTypes /\ \A k \in Conns : keep[k] = FALSE
  BY Zenon DEF Init, ConnTypes
<1>4. CliInv
  BY Zenon DEF Init, CliInv
<1>5. TowerInv
  BY <1>3, Zenon DEF Init, TowerInv
<1>6. OpenInv
  BY Zenon DEF Init, OpenInv
<1>. QED
  BY <1>1, <1>2, <1>3, <1>4, <1>5, <1>6, Zenon DEF TricorderInv

\* The inductive invariant.
LEMMA TricorderAlways == Spec => []TricorderInv
  BY TricorderInit, TricorderStep, PTL DEF Spec

\* The invariant has the types of the variables.
LEMMA InvTyped == TricorderInv => TypeOK
<1>. SUFFICES ASSUME TricorderInv PROVE TypeOK
  BY Zenon
<1>1. tk \subseteq Tickets /\ Cardinality(tk) <= 1
  <2>1. CASE tk = {}
    <3>1. Cardinality(tk) = 0
      BY <2>1, FS_EmptySet, Zenon
    <3>. QED
      BY <2>1, <3>1
  <2>2. CASE \E c \in Tickets : tk = {c}
    <3>1. Cardinality(tk) = 1
      BY <2>2, FS_Singleton, Zenon
    <3>. QED
      BY <2>2, <3>1
  <2>. QED
    BY <2>1, <2>2, Zenon DEF TricorderInv, CallTypes
<1>2. cli \in 0..MaxConns /\ sub \in 0..MaxConns
  BY TicketsAssumption DEF TricorderInv, CliInv, TowerInv, Conns
<1>3. loop \in {"select", "open", "clearing"} => cli \in Made
  BY Zenon DEF TricorderInv, CliInv, Made
<1>. QED
  BY <1>1, <1>2, <1>3, Zenon
  DEF TricorderInv, LoopTypes, TryTypes, ConnTypes, CallTypes, ChanTypes, TypeOK

\* While the Tricorder serves callers every open channel it handed out is on the connection
\* in t.cli, and after Halt none is open: closeChannels misses none.
THEOREM ChannelsAreFresh == Spec => []NoStaleChannel
<1>1. TricorderInv => NoStaleChannel
  BY InvTyped, Zenon DEF TricorderInv, OpenInv, NoStaleChannel
<1>. QED
  BY <1>1, TricorderAlways, PTL

\* A connection that works is never replaced: no notification about an earlier connection is
\* left in the tower.
THEOREM ReconnectsAreNeeded == Spec => NoNeedlessReconnect
<1>1. TricorderInv /\ [Next]_vars => [cli # 0 /\ cli' # cli => conn[cli] # "up"]_vars
  <2>. SUFFICES ASSUME TricorderInv, Next, cli # 0, cli' # cli PROVE conn[cli] # "up"
    BY Zenon
  <2>1. CASE Cleared
    BY <2>1, Zenon DEF Cleared, TricorderInv, TowerInv
  <2>2. CASE DialOK
    BY <2>2, Zenon DEF DialOK, Dialing, TricorderInv, CliInv
  <2>3. CASE DialShutdown \/ DialTofu \/ DialFails
    BY <2>3, Zenon DEF DialShutdown, DialTofu, DialFails
  <2>4. ASSUME NEW k \in Conns, \/ ConnTimesOut(k) \/ ConnLost(k) \/ ConnCloses(k)
                                \/ CloseCli(k) \/ KeepaliveFails(k) \/ KeepaliveQuits(k)
        PROVE  conn[cli] # "up"
    BY <2>4, Zenon DEF ConnTimesOut, ConnLost, ConnCloses, CloseCli, KeepaliveFails,
       KeepaliveQuits
  <2>5. ASSUME NEW c \in Tickets, \/ helperGetChannel(c) \/ OpenOK(c) \/ OpenFails(c)
                                  \/ SSHChannel(c) \/ CancelCtx(c) \/ CloseChannel(c)
        PROVE  conn[cli] # "up"
    BY <2>5, Zenon DEF helperGetChannel, OpenOK, OpenFails, SSHChannel, CancelCtx,
       CloseChannel
  <2>6. CASE ReconnectNeeded \/ ProvideCli \/ Answer \/ SeesHalt \/ MarksDone
    BY <2>6, Zenon DEF ReconnectNeeded, ProvideCli, Answer, SeesHalt, MarksDone
  <2>7. CASE LoopReturns \/ Cli \/ CliShutdown \/ RequestStop
    BY <2>7, Zenon DEF LoopReturns, Cli, CliShutdown, RequestStop
  <2>. QED
    BY <2>1, <2>2, <2>3, <2>4, <2>5, <2>6, <2>7, Zenon DEF Next
<1>. QED
  BY <1>1, TricorderAlways, PTL DEF Spec, NoNeedlessReconnect
=============================================================================
