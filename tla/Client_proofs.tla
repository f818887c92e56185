--------------------------- MODULE Client_proofs ----------------------------
(***************************************************************************)
(* The composition implements each of its parts: every step of Client is a *)
(* step of the part or leaves it alone.  What is proved of a part by       *)
(* itself so holds of SSHConnect and its tunnels, for any Uses.            *)
(***************************************************************************)
EXTENDS Client, ClientParts_proofs

\* Every step, seen from one part.
LEMMA LoginStep ==
    ASSUME use \in Uses, Next
    PROVE  [AuthNext]_authVars
<1>1. ASSUME NEW c \in Callers,
             \/ Dial(c) \/ KeyExchange(c) \/ ClientGoes(c) \/ ServerGoes(c) \/ Lost(c)
      PROVE  AuthNext
    BY <1>1, Zenon DEF Dial, KeyExchange, ClientGoes, ServerGoes, Lost, AuthNext
<1>2. ASSUME NEW c \in Callers, HostKeyCallback(c) PROVE UNCHANGED authVars
    BY <1>2, Zenon DEF HostKeyCallback
<1>3. CASE TunnelLost \/ TunnelClosed
    <2>1. PICK c \in Callers : use.tunnels = {c} /\ cli[c] = "in"
        BY <1>3, UsesAssumption, Zenon DEF TunnelLost, TunnelClosed, Tunnelling
    <2>2. /\ lost' = lost \cup {c}
          /\ UNCHANGED <<require, login, cliVars, srvVars, toServer, toClient>>
        BY <1>3, <2>1, Zenon DEF TunnelLost, TunnelClosed
    <2>3. CASE c \in lost
        BY <2>2, <2>3 DEF authVars
    <2>4. CASE c \notin lost
        BY <2>1, <2>2, <2>4 DEF AuthNext, ConnectionLost, Lose, cliVars
    <2> QED
        BY <2>3, <2>4, Zenon
<1>4. ASSUME UNCHANGED loginVars PROVE UNCHANGED authVars
    BY <1>4, Zenon DEF loginVars
<1>5. ASSUME NEW a \in Addrs, Adds(a) \/ Removes(a) \/ Accepts(a) \/ ListenerGoes(a)
      PROVE  UNCHANGED loginVars
    BY <1>5, Zenon DEF Adds, Removes, Accepts, ListenerGoes, loginVars
<1>6. ASSUME NEW n \in Networks, Handles(n) PROVE UNCHANGED loginVars
    BY <1>6, Zenon DEF Handles
<1>7. ASSUME NEW s \in Shovels, Copies(s) \/ Takes(s) \/ ClosesEnds(s) PROVE UNCHANGED loginVars
    BY <1>7, Zenon DEF Copies, Takes, ClosesEnds
<1>8. ASSUME NEW o \in Opens, OpenComes(o) PROVE UNCHANGED loginVars
    BY <1>8, Zenon DEF OpenComes
<1>9. ASSUME NEW e \in Ends, FarEnd(e) \/ FarFails(e) PROVE UNCHANGED loginVars
    BY <1>9, Zenon DEF FarEnd, FarFails
<1>10. ASSUME \/ Dispatches \/ ClosesAll \/ Starts \/ Watches \/ Answered \/ ChannelFails
              \/ StartNewReverse \/ Stops \/ Resets
       PROVE  UNCHANGED loginVars
    BY <1>10, Zenon DEF Dispatches, ClosesAll, Starts, Watches, Answered, ChannelFails,
                 StartNewReverse, Stops, Resets
<1> QED
    BY <1>1, <1>2, <1>3, <1>4, <1>5, <1>6, <1>7, <1>8, <1>9, <1>10 DEF Next, Runs, Happens

LEMMA ForwardStep ==
    ASSUME Next
    PROVE  [ForwardsNext]_forwardVars
<1>1. ASSUME NEW a \in Addrs, Adds(a) \/ Removes(a) \/ Accepts(a) \/ ListenerGoes(a)
      PROVE  ForwardsNext
    BY <1>1, Zenon DEF Adds, Removes, Accepts, ListenerGoes, ForwardsNext
<1>2. ASSUME NEW n \in Networks, Handles(n) PROVE ForwardsNext
    BY <1>2, Zenon DEF Handles, ForwardsNext
<1>3. ASSUME NEW o \in Opens, OpenComes(o) PROVE ForwardsNext
    BY <1>3, Zenon DEF OpenComes, ForwardsNext
<1>4. ASSUME Dispatches \/ ClosesAll \/ TunnelLost \/ TunnelClosed PROVE ForwardsNext
    BY <1>4, Zenon DEF Dispatches, ClosesAll, TunnelLost, TunnelClosed, ForwardsNext
<1>5. ASSUME NEW c \in Callers,
             \/ Dial(c) \/ KeyExchange(c) \/ ClientGoes(c) \/ ServerGoes(c) \/ Lost(c)
             \/ HostKeyCallback(c)
      PROVE  UNCHANGED tunnelVars
    BY <1>5, Zenon DEF Dial, KeyExchange, ClientGoes, ServerGoes, Lost, HostKeyCallback
<1>6. ASSUME UNCHANGED tunnelVars PROVE UNCHANGED forwardVars
    BY <1>6, Zenon DEF tunnelVars
<1>7. ASSUME NEW s \in Shovels, Copies(s) \/ Takes(s) \/ ClosesEnds(s) PROVE UNCHANGED forwardVars
    BY <1>7, Zenon DEF Copies, Takes, ClosesEnds
<1>8. ASSUME NEW e \in Ends, FarEnd(e) \/ FarFails(e) PROVE UNCHANGED forwardVars
    BY <1>8, Zenon DEF FarEnd, FarFails
<1>9. ASSUME \/ Starts \/ Watches \/ Answered \/ ChannelFails \/ StartNewReverse \/ Stops \/ Resets
      PROVE  UNCHANGED forwardVars
    BY <1>9, Zenon DEF Starts, Watches, Answered, ChannelFails, StartNewReverse, Stops, Resets
<1> QED
    BY <1>1, <1>2, <1>3, <1>4, <1>5, <1>6, <1>7, <1>8, <1>9 DEF Next, Runs, Happens

LEMMA ShovellingStep ==
    ASSUME Next
    PROVE  [ShovelNext]_shovelVars
<1>1. ASSUME NEW s \in Shovels, Copies(s) \/ Takes(s) \/ ClosesEnds(s) PROVE ShovelNext
    BY <1>1, Zenon DEF Copies, Takes, ClosesEnds, ShovelNext
<1>2. ASSUME NEW e \in Ends, FarEnd(e) \/ FarFails(e) PROVE ShovelNext
    BY <1>2, Zenon DEF FarEnd, FarFails, ShovelNext
<1>3. ASSUME \/ Starts \/ Watches \/ Answered \/ ChannelFails \/ StartNewReverse \/ Stops \/ Resets
      PROVE  ShovelNext
    BY <1>3, Zenon DEF Starts, Watches, Answered, ChannelFails, StartNewReverse, Stops, Resets, ShovelNext
<1>4. ASSUME NEW c \in Callers,
             \/ Dial(c) \/ KeyExchange(c) \/ ClientGoes(c) \/ ServerGoes(c) \/ Lost(c)
             \/ HostKeyCallback(c)
      PROVE  UNCHANGED tunnelVars
    BY <1>4, Zenon DEF Dial, KeyExchange, ClientGoes, ServerGoes, Lost, HostKeyCallback
<1>5. ASSUME UNCHANGED tunnelVars PROVE UNCHANGED shovelVars
    BY <1>5, Zenon DEF tunnelVars
<1>6. ASSUME NEW a \in Addrs, Adds(a) \/ Removes(a) \/ Accepts(a) \/ ListenerGoes(a)
      PROVE  UNCHANGED shovelVars
    BY <1>6, Zenon DEF Adds, Removes, Accepts, ListenerGoes
<1>7. ASSUME NEW n \in Networks, Handles(n) PROVE UNCHANGED shovelVars
    BY <1>7, Zenon DEF Handles
<1>8. ASSUME NEW o \in Opens, OpenComes(o) PROVE UNCHANGED shovelVars
    BY <1>8, Zenon DEF OpenComes
<1>9. ASSUME Dispatches \/ ClosesAll \/ TunnelLost \/ TunnelClosed PROVE UNCHANGED shovelVars
    BY <1>9, Zenon DEF Dispatches, ClosesAll, TunnelLost, TunnelClosed
<1> QED
    BY <1>1, <1>2, <1>3, <1>4, <1>5, <1>6, <1>7, <1>8, <1>9 DEF Next, Runs, Happens

-----------------------------------------------------------------------------
\* SSHConnect, with its known hosts, its forwards and its tunnels around them, goes
\* through the authentication, the forwards and the shovels as their modules have them.
THEOREM ClientImplementsParts == Spec => AuthSpec /\ ForwardsSpec /\ ShovelSpec
<1>1. Init => /\ require \in SUBSET Factors /\ login \in [Callers -> Logins] /\ AuthInit
              /\ work \in Works /\ ForwardsInit /\ ShovelInit /\ use \in Uses
    BY UsesAssumption, Zenon DEF Init
<1>2. use \in Uses /\ [Next]_clientVars => (use \in Uses)'
    <2>1. [Next]_clientVars => use' = use
        BY Zenon DEF clientVars, Next, Runs, Happens, loginVars, Dial, HostKeyCallback, KeyExchange,
               ClientGoes, ServerGoes, Lost, ListenerGoes, OpenComes, Adds, Removes, Accepts,
               Handles, Dispatches, ClosesAll, StartNewReverse, Starts, Copies, Takes, ClosesEnds,
               Watches, Answered, FarEnd, FarFails, Resets, Stops, TunnelLost, TunnelClosed, ChannelFails
    <2> QED
        BY <2>1, Zenon
<1>3. Spec => [](use \in Uses)
    BY <1>1, <1>2, PTL DEF Spec
<1>4. Spec => AuthSpec
    <2>1. use \in Uses /\ [Next]_clientVars => [AuthNext]_authVars
        BY LoginStep, Zenon DEF clientVars
    <2> QED
        BY <1>1, <1>3, <2>1, PTL DEF Spec, AuthSpec
<1>5. Spec => ForwardsSpec
    <2>1. [Next]_clientVars => [ForwardsNext]_forwardVars
        BY ForwardStep, Zenon DEF clientVars, tunnelVars
    <2> QED
        BY <1>1, <2>1, PTL DEF Spec, ForwardsSpec
<1>6. Spec => ShovelSpec
    <2>1. [Next]_clientVars => [ShovelNext]_shovelVars
        BY ShovellingStep, Zenon DEF clientVars, tunnelVars
    <2> QED
        BY <1>1, <2>1, PTL DEF Spec, ShovelSpec
<1> QED
    BY <1>4, <1>5, <1>6, Zenon

\* So the sshd lets in only whom it has checked, nothing is sent to a closed listener, and
\* the pair cuts no tunnelled stream short.
THEOREM ClientSafe == Spec => [](LoginChecked /\ NeverSendOnClosed /\ NothingCutShort)
    BY ClientImplementsParts, OnlyTheCheckedGetIn, NoSendPanics, NoStreamCutShort, PTL
=============================================================================
