------------------------------- MODULE Client -------------------------------
(***************************************************************************)
(* SSHConnect from the dial to the end of the tunnel, composed of the      *)
(* known hosts, the authentication with the sshd, the forwards of the      *)
(* connection and the shovels of a tunnelled connection.                   *)
(*                                                                         *)
(* The callers share the table of known hosts and the sshd, whose accept   *)
(* loop serves one login at a time.  The host key callback runs in the key *)
(* exchange, between the sshd's answer and the request for the service.    *)
(* One caller goes on, when it is in, to listen and to tunnel.             *)
(***************************************************************************)
EXTENDS Authentication, KnownHosts, Forwards, Shovel

CONSTANT Uses       \* what the callers bring and do in one behaviour, see Init

\* Clients, requirements and work as the parts know them; at most one caller tunnels.
ASSUME UsesAssumption ==
    \A u \in Uses :
        /\ u.require \in SUBSET Factors /\ u.login \in [Callers -> Logins] /\ u.work \in Works
        /\ u.tunnels = {} \/ \E c \in Callers : u.tunnels = {c}

VARIABLE use        \* one of Uses

tunnelVars == <<forwardVars, shovelVars>>
\* cli and lost are common to the authentication and the known hosts.
clientVars == <<use, authVars, hostVars, tunnelVars>>

Init ==
    /\ use \in Uses
    /\ require = use.require /\ login = use.login
    /\ asks = use.asks /\ file = use.file /\ format = use.format /\ NoSave = use.NoSave
    /\ work = use.work
    /\ AuthInit /\ HostsInit /\ ForwardsInit /\ ShovelInit

-----------------------------------------------------------------------------
Dial(c) == c \in use.callers /\ mySSHDial(c) /\ UNCHANGED <<use, hostVars, tunnelVars>>

\* The callback begins in the key exchange; it goes on even if the connection ends.
HostKeyCallback(c) ==
    /\ check[c] # "none" \/ (cli[c] = "kex" /\ srv[c] = "service")
    /\ CheckStep(c)
    /\ UNCHANGED <<use, authVars, tunnelVars>>

\* Its result ends the key exchange.
KeyExchange(c) ==
    /\ \/ check[c] \in Accepting /\ HostKeyAccepted(c)
       \/ check[c] \in Refusing /\ HostKeyRefused(c)
    /\ UNCHANGED <<use, hostVars, tunnelVars>>

ClientGoes(c) == ClientStep(c) /\ UNCHANGED <<use, hostVars, tunnelVars>>
ServerGoes(c) == ServerStep(c) /\ UNCHANGED <<use, hostVars, tunnelVars>>

Lost(c) == c \in use.loses /\ ConnectionLost(c) /\ UNCHANGED <<use, hostVars, tunnelVars>>

-----------------------------------------------------------------------------
(* The caller that tunnels.                                                 *)

loginVars == <<use, authVars, hostVars>>

Tunnelling == \E c \in use.tunnels : cli[c] = "in"

ListenerGoes(a) ==
    /\ Tunnelling /\ (Listen(a) \/ CloseListener(a))
    /\ UNCHANGED <<loginVars, shovelVars>>

OpenComes(o) == Tunnelling /\ OpenArrives(o) /\ UNCHANGED <<loginVars, shovelVars>>

Adds(a) == AddForward(a) /\ UNCHANGED <<loginVars, shovelVars>>
Removes(a) == (Remove(a) \/ CancelAnswered(a)) /\ UNCHANGED <<loginVars, shovelVars>>
Accepts(a) == AcceptorStep(a) /\ UNCHANGED <<loginVars, shovelVars>>
Handles(n) == HandlerStep(n) /\ UNCHANGED <<loginVars, shovelVars>>
Dispatches == DispatchStep /\ UNCHANGED <<loginVars, shovelVars>>
ClosesAll == CloseAll /\ UNCHANGED <<loginVars, shovelVars>>

\* StartNewReverse, when its dial succeeds.
StartNewReverse ==
    /\ use.copies /\ \E o \in Opens : answered[o] = "accepted"
    /\ StartPair
    /\ UNCHANGED <<loginVars, forwardVars>>

Starts == StartShovel /\ UNCHANGED <<loginVars, forwardVars>>
Copies(s) == ShovelStep(s) /\ UNCHANGED <<loginVars, forwardVars>>
ClosesEnds(s) == Closer(s) /\ UNCHANGED <<loginVars, forwardVars>>
Watches == Watcher /\ UNCHANGED <<loginVars, forwardVars>>
Answered == PeerCloses /\ UNCHANGED <<loginVars, forwardVars>>
Takes(s) == CopyWrite(s) /\ UNCHANGED <<loginVars, forwardVars>>
FarEnd(e) == FarStep(e) /\ UNCHANGED <<loginVars, forwardVars>>
FarFails(e) == use.breaks /\ FarCloses(e) /\ UNCHANGED <<loginVars, forwardVars>>
Resets == use.breaks /\ SocketReset /\ UNCHANGED <<loginVars, forwardVars>>
Stops == use.stops /\ StopPair /\ UNCHANGED <<loginVars, forwardVars>>

\* The connection of the tunnel ends: the mux loop does, and its channels fail; or it is
\* closed or halted here, which closes netconn too.
TunnelLost ==
    /\ Tunnelling /\ MuxEnds
    /\ lost' = lost \cup use.tunnels
    /\ UNCHANGED <<use, require, login, cliVars, srvVars, toServer, toClient, hostVars, shovelVars>>
TunnelClosed ==
    /\ Tunnelling /\ ConnClosed
    /\ lost' = lost \cup use.tunnels
    /\ UNCHANGED <<use, require, login, cliVars, srvVars, toServer, toClient, hostVars, shovelVars>>
ChannelFails == muxOver /\ ChannelLost /\ UNCHANGED <<loginVars, forwardVars>>

-----------------------------------------------------------------------------
\* What a goroutine does when it can run, and the peer's mux, which answers a close and a
\* request to cancel a forward.
Runs ==
    \/ \E c \in Callers : HostKeyCallback(c) \/ KeyExchange(c) \/ ClientGoes(c) \/ ServerGoes(c)
    \/ \E a \in Addrs : Adds(a) \/ Removes(a) \/ Accepts(a)
    \/ \E n \in Networks : Handles(n)
    \/ Dispatches \/ ClosesAll \/ Starts
    \/ \E s \in Shovels : Copies(s) \/ ClosesEnds(s)
    \/ Watches \/ Answered \/ ChannelFails

\* What is up to the users, the peers and the network.
Happens ==
    \/ \E c \in Callers : Dial(c) \/ Lost(c)
    \/ \E a \in Addrs : ListenerGoes(a)
    \/ \E o \in Opens : OpenComes(o)
    \/ \E e \in Ends : FarEnd(e) \/ FarFails(e)
    \/ \E s \in Shovels : Takes(s)
    \/ Resets \/ StartNewReverse \/ Stops \/ TunnelLost \/ TunnelClosed

Next == Runs \/ Happens

\* Every goroutine that can run does, in the end.  No behaviour of the module goes in
\* circles, so that it is enough to ask it of all of them together.
Spec == Init /\ [][Next]_clientVars /\ WF_clientVars(Runs)

-----------------------------------------------------------------------------
\* The ends of the wire never hold more than the protocol has in flight, tries stay
\* within the limit, and the tables are tables.
TypeOK ==
    /\ \A c \in Callers : Len(toServer[c]) <= 1 /\ Len(toClient[c]) <= 2
    /\ \A c \in Callers : authFailures[c] \in -1..MaxAuthTries
    /\ lost \subseteq Callers /\ added \subseteq {asks[c].name : c \in Callers}
    /\ entries \subseteq work.listens /\ closed \subseteq work.listens

\* A caller that takes itself for logged in has checked the host key, for a name that is
\* in the table, before it showed anything; and its sshd has let it in.
SessionSound ==
    /\ TypeOK /\ EndsAgree /\ HostListed
    /\ \A c \in Callers : cli[c] \notin {"idle", "kex", "failed"} => check[c] \in Accepting

\* SSHConnect returns, however the logins and the checks of host keys of the callers
\* interleave, unless a callback has kept the Mut of the record: then its own caller
\* waits for its connection to end, others for the Mut, and the sshd for a login that
\* does not go on.
ConnectReturns ==
    (\E c \in Callers : cli[c] = "kex")
        ~> (\A c \in Callers : cli[c] \in {"idle", "in", "failed"}) \/ recordMut # "free"

\* A client with everything that is asked for gets in: with a method for it, and without
\* more keys than the sshd lets it try.
HasAll(c) ==
    LET methods == {login[c].order[i] : i \in DOMAIN login[c].order} IN
        /\ login[c].known
        /\ "rsa" \in require => "publickey" \in methods /\ Registered \in Offers(c) \cap login[c].holds
        /\ "pass" \in require => login[c].pass = "right"
        /\ "totp" \in require => login[c].code = "right"
        /\ require \cap {"pass", "totp"} # {} => "keyboard-interactive" \in methods
        /\ Len(login[c].signers) < MaxAuthTries

RightGetsIn ==
    (\E c \in Callers : cli[c] = "start")
        ~> \A c \in Callers :
               check[c] \in Accepting /\ HasAll(c) /\ c \notin use.loses => cli[c] = "in"

\* Both: every call comes to an end, and to the right one.
ConnectsRight == ConnectReturns /\ RightGetsIn
=============================================================================
