----------------------------- MODULE Tricorder -----------------------------
(***************************************************************************)
(* The client that reconnects: tri.go, the tower that tells it to (buzz.go)*)
(* and the keepalives that notice a lost connection (cli.go).              *)
(*                                                                         *)
(* One goroutine, startReconnectLoop, owns the Tricorder: it dials, hands  *)
(* out the client and opens channels for callers of SSHChannel, a ticket   *)
(* each.  Connections are numbered in the order they were made, 0 is nil;  *)
(* each has the goroutine of startKeepalives.  A ticket also names the     *)
(* channel it was given.  The notification in the tower is the number of   *)
(* the connection that was lost; in the code it is the UHP, which is the   *)
(* same for all of them.  Pings that are answered change nothing.          *)
(*                                                                         *)
(* In the code t.cli is never nil and lastConnectTime is never set while   *)
(* the loop selects (a failed dial ends the loop), so neither the dial of  *)
(* helperGetChannel nor the refusal of early notifications is here.        *)
(***************************************************************************)
EXTENDS Naturals, FiniteSets

CONSTANTS
    Tickets,    \* the calls of SSHChannel
    Linked,     \* those of type custom-inproc-stream, whose Halter OpenChannel
                \* puts below channelsHalt; the others are direct-tcpip
    Retries,    \* t.retries
    MaxConns    \* bound on the connections made

ASSUME TicketsAssumption ==
    Linked \subseteq Tickets /\ Retries \in Nat \ {0} /\ MaxConns \in Nat \ {0}

VARIABLES
    loop,       \* where the goroutine is
    tries,      \* i of helperNewClientConnect
    tofu,       \* t.tofu
    cli,        \* t.cli
    conn,       \* conn[k]: the state of a connection and its mux
    quit,       \* quit[k]: the Halter of the client was told to stop
    keep,       \* keep[k]: its keepalive goroutine runs
    sub,        \* reconnectNeededCh, which has room for one
    halted,     \* t.Halt was told to stop
    done,       \* t.Halt.DoneChan is closed
    ticket,     \* ticket[c]: where the call is
    tkCtx,      \* tkCtx[c]: its context is cancelled
    chan,       \* chan[c]: the channel opened for it
    chanConn,   \* chanConn[c]: its connection
    tk,         \* the tickets in helperGetChannel, at most one
    msg,        \* what openChannel can read from ch.msg
    sshChannels,\* t.sshChannels
    below,      \* the channels whose Halters are downstream of channelsHalt
    asks        \* a caller of Cli or Nc

dialVars == <<tries, tofu>>
connVars == <<conn, quit, keep>>
chanVars == <<chan, chanConn, sshChannels, below>>
callVars == <<ticket, tkCtx, tk, msg>>
vars == <<loop, dialVars, cli, connVars, sub, halted, done, callVars, chanVars, asks>>

Conns == 1..MaxConns
Made == {k \in Conns : conn[k] # "none"}

\* The mux.loop of connection k goes on.
Loops(k) == conn[k] \in {"up", "spins", "stuck"}

Init ==
    /\ loop = "first" /\ tries = 0 /\ tofu \in BOOLEAN /\ cli = 0
    /\ conn = [k \in Conns |-> "none"]
    /\ quit = [k \in Conns |-> FALSE] /\ keep = [k \in Conns |-> FALSE]
    /\ sub = 0 /\ halted = FALSE /\ done = FALSE
    /\ ticket = [c \in Tickets |-> "idle"] /\ tkCtx = [c \in Tickets |-> FALSE]
    /\ chan = [c \in Tickets |-> "none"] /\ chanConn = [c \in Tickets |-> 0]
    /\ tk = {} /\ msg = "empty" /\ sshChannels = {} /\ below = {} /\ asks = "idle"

-----------------------------------------------------------------------------
(* helperNewClientConnect, called by NewTricorder and by the loop.          *)

Dialing == loop \in {"first", "again"}

\* What the callers do with an error; the loop panics, unless it is ErrShutdown.
Fails == loop' = IF loop = "first" THEN "failed" ELSE "panicked"

DialShutdown ==
    /\ Dialing /\ halted
    /\ loop' = IF loop = "first" THEN "failed" ELSE "ending"
    /\ UNCHANGED <<dialVars, cli, connVars, sub, halted, done, callVars, chanVars, asks>>

\* Dial, with its own retries, comes back with a client whose first keepalive was
\* answered.  While tofu is set it only does if oneshot connections are allowed.
DialOK ==
    LET k == Cardinality(Made) + 1 IN
    /\ Dialing /\ ~halted /\ k \in Conns
    /\ conn' = [conn EXCEPT ![k] = "up"] /\ keep' = [keep EXCEPT ![k] = TRUE]
    /\ cli' = k /\ loop' = "select" /\ tries' = 0 /\ tofu' = FALSE
    /\ UNCHANGED <<quit, sub, halted, done, callVars, chanVars, asks>>

\* "Re-run without -new": the host was added, dial again without AddIfNotKnown.
DialTofu ==
    /\ Dialing /\ ~halted /\ tofu
    /\ tofu' = FALSE
    /\ IF tries + 1 < Retries THEN tries' = tries + 1 /\ UNCHANGED loop
                              ELSE tries' = 0 /\ Fails
    /\ UNCHANGED <<cli, connVars, sub, halted, done, callVars, chanVars, asks>>

\* Any other error is retried; the same one, when tofu is not set, is returned at once.
DialFails ==
    /\ Dialing /\ ~halted
    /\ \/ /\ tries + 1 < Retries
          /\ tries' = tries + 1 /\ UNCHANGED loop
       \/ /\ tries + 1 = Retries \/ ~tofu
          /\ tries' = 0 /\ Fails
    /\ UNCHANGED <<tofu, cli, connVars, sub, halted, done, callVars, chanVars, asks>>

-----------------------------------------------------------------------------
(* Connections and keepalives.                                              *)

\* Of connection k: dropAll in mux.loop closes its channels, and those it is
\* still opening.
Dropped(k) ==
    /\ conn' = [conn EXCEPT ![k] = "dropped"]
    /\ chan' = [c \in Tickets |-> IF chanConn[c] = k /\ chan[c] = "open"
                                  THEN "closed" ELSE chan[c]]
    /\ msg' = IF cli = k /\ msg = "wait" THEN "closed" ELSE msg

\* The mux reads an error that says it is a timeout: mux.loop takes it for none and spins
\* on it, closing nothing, while all that is written fails.  A keepalive whose ping is
\* unanswered by then ("stuck") waits for the reply; otherwise ("spins") its next ping fails.
ConnTimesOut(k) ==
    /\ conn[k] = "up"
    /\ \E s \in {"spins", "stuck"} : conn' = [conn EXCEPT ![k] = s]
    /\ UNCHANGED <<loop, dialVars, cli, quit, keep, sub, halted, done, callVars,
                   chanVars, asks>>

\* The mux reads any other error...
ConnLost(k) ==
    /\ conn[k] = "up"
    /\ Dropped(k)
    /\ UNCHANGED <<loop, dialVars, cli, quit, keep, sub, halted, done, ticket, tkCtx,
                   tk, chanConn, sshChannels, below, asks>>

\* ... and closes the transport a little later: packets are accepted until then.
ConnCloses(k) ==
    /\ conn[k] = "dropped"
    /\ conn' = [conn EXCEPT ![k] = "closed"]
    /\ UNCHANGED <<loop, dialVars, cli, quit, keep, sub, halted, done, callVars,
                   chanVars, asks>>

\* A caller that got the client closes it, which stops its Halter.  openChannel
\* and a loop that spins then also see the Halter.
CloseCli(k) ==
    /\ Loops(k) /\ asks = "got" /\ cli = k
    /\ Dropped(k) /\ quit' = [quit EXCEPT ![k] = TRUE]
    /\ UNCHANGED <<loop, dialVars, cli, keep, sub, halted, done, ticket, tkCtx, tk,
                   chanConn, sshChannels, below, asks>>

\* Broadcast discards what the subscriber has not read.
Broadcast(k) == sub' = k

\* SendRequest returns an error: the ping cannot be written, or globalResponses is
\* closed.
KeepaliveRepeats(k) ==
    /\ keep[k] /\ conn[k] \notin {"up", "stuck"}
    /\ Broadcast(k)
    /\ UNCHANGED <<loop, dialVars, cli, connVars, halted, done, callVars, chanVars,
                   asks>>
KeepaliveSilent(k) ==
    /\ keep[k] /\ conn[k] \notin {"up", "stuck"}
    /\ keep' = [keep EXCEPT ![k] = FALSE]
    /\ UNCHANGED <<loop, dialVars, cli, conn, quit, sub, halted, done, callVars, chanVars,
                   asks>>
KeepaliveFails(k) ==
    /\ keep[k] /\ conn[k] \notin {"up", "stuck"}
    /\ keep' = [keep EXCEPT ![k] = FALSE]
    /\ Broadcast(k)
    /\ UNCHANGED <<loop, dialVars, cli, conn, quit, halted, done, callVars, chanVars,
                   asks>>

\* Between two pings the goroutine sees the Halter instead, and says nothing.
KeepaliveQuits(k) ==
    /\ keep[k] /\ quit[k]
    /\ keep' = [keep EXCEPT ![k] = FALSE]
    /\ UNCHANGED <<loop, dialVars, cli, conn, quit, sub, halted, done, callVars,
                   chanVars, asks>>

-----------------------------------------------------------------------------
(* The cases of the loop.                                                   *)

forgetChannels == sshChannels' = {} /\ UNCHANGED chan
closeChannels ==
    /\ chan' = [c \in Tickets |-> IF c \in sshChannels THEN "closed" ELSE chan[c]]
    /\ sshChannels' = {}

ReconnectNeeded ==
    /\ loop = "select" /\ sub # 0
    /\ sub' = 0 /\ loop' = "clearing"
    /\ closeChannels
    /\ UNCHANGED <<dialVars, cli, connVars, halted, done, callVars, chanConn, below,
                   asks>>

\* channelsHalt.MarkDone waits for the Halters below; a channel that is closed
\* has marked its own.
ChannelsDone == \A c \in below : chan[c] = "closed"

\* The new channelsHalt, and t.cli = nil.
Cleared ==
    /\ loop = "clearing" /\ ChannelsDone
    /\ below' = {} /\ cli' = 0 /\ loop' = "again"
    /\ UNCHANGED <<dialVars, connVars, sub, halted, done, callVars, chan, chanConn,
                   sshChannels, asks>>

ProvideCli ==
    /\ loop = "select" /\ asks = "waits"
    /\ asks' = "got"
    /\ UNCHANGED <<loop, dialVars, cli, connVars, sub, halted, done, callVars, chanVars>>

\* helperGetChannel: openChannel registers the channel and sends the opening, which
\* fails on a transport that is closed or has timed out.  After dropAll nobody will
\* close its ch.msg.
helperGetChannel(c) ==
    /\ loop = "select" /\ ticket[c] = "sent"
    /\ IF conn[cli] \in {"spins", "stuck", "closed"}
       THEN ticket' = [ticket EXCEPT ![c] = "err"] /\ UNCHANGED <<loop, tk, msg>>
       ELSE /\ loop' = "open" /\ tk' = {c}
            /\ msg' = IF conn[cli] = "up" THEN "wait" ELSE "never"
            /\ UNCHANGED ticket
    /\ UNCHANGED <<dialVars, cli, connVars, sub, halted, done, tkCtx, chanVars, asks>>

\* The answer of the server.
Answer ==
    /\ loop = "open" /\ msg = "wait" /\ conn[cli] = "up"
    /\ msg' \in {"confirm", "failure"}
    /\ UNCHANGED <<loop, dialVars, cli, connVars, sub, halted, done, ticket, tkCtx, tk,
                   chanVars, asks>>

\* openChannel returned: the ticket is closed.
Returned(c, how) ==
    /\ ticket' = [ticket EXCEPT ![c] = how]
    /\ loop' = "select" /\ tk' = {} /\ msg' = "empty"

OpenOK(c) ==
    /\ loop = "open" /\ c \in tk /\ msg = "confirm"
    /\ Returned(c, "ok")
    /\ chan' = [chan EXCEPT ![c] = IF Loops(cli) THEN "open" ELSE "closed"]
    /\ chanConn' = [chanConn EXCEPT ![c] = cli]
    /\ sshChannels' = sshChannels \cup {c}
    /\ below' = below \cup ({c} \cap Linked)
    /\ UNCHANGED <<dialVars, cli, connVars, sub, halted, done, tkCtx, asks>>

OpenFails(c) ==
    /\ loop = "open" /\ c \in tk
    /\ msg \in {"failure", "closed"} \/ tkCtx[c] \/ quit[cli]
    /\ Returned(c, "err")
    /\ UNCHANGED <<dialVars, cli, connVars, sub, halted, done, tkCtx, chanVars, asks>>

\* Halt: the deferred function of the loop.
SeesHalt ==
    /\ loop = "select" /\ halted
    /\ loop' = "ending"
    /\ UNCHANGED <<dialVars, cli, connVars, sub, halted, done, callVars, chanVars, asks>>

MarksDoneAll ==
    /\ loop = "ending" /\ ChannelsDone /\ \A c \in sshChannels : chan[c] = "closed"
    /\ loop' = "closing" /\ done' = TRUE /\ below' = {}
    /\ UNCHANGED <<dialVars, cli, connVars, sub, halted, callVars, chan, chanConn,
                   sshChannels, asks>>
MarksDone ==
    /\ loop = "ending" /\ ChannelsDone
    /\ loop' = "closing" /\ done' = TRUE /\ below' = {}
    /\ UNCHANGED <<dialVars, cli, connVars, sub, halted, callVars, chan, chanConn,
                   sshChannels, asks>>

LoopReturns ==
    /\ loop = "closing"
    /\ closeChannels
    /\ loop' = "ended"
    /\ UNCHANGED <<dialVars, cli, connVars, sub, halted, done, callVars, chanConn,
                   below, asks>>

-----------------------------------------------------------------------------
(* Callers.                                                                 *)

Running == loop \notin {"first", "failed", "panicked"}

SSHChannel(c) ==
    /\ Running /\ ticket[c] = "idle"
    /\ ticket' = [ticket EXCEPT ![c] = "sent"]
    /\ UNCHANGED <<loop, dialVars, cli, connVars, sub, halted, done, tkCtx, tk, msg,
                   chanVars, asks>>

CancelCtx(c) ==
    /\ ticket[c] = "sent" /\ ~tkCtx[c]
    /\ tkCtx' = [tkCtx EXCEPT ![c] = TRUE]
    /\ UNCHANGED <<loop, dialVars, cli, connVars, sub, halted, done, ticket, tk, msg,
                   chanVars, asks>>

CloseChannel(c) ==
    /\ chan[c] = "open"
    /\ chan' = [chan EXCEPT ![c] = "closed"]
    /\ UNCHANGED <<loop, dialVars, cli, connVars, sub, halted, done, callVars, chanConn,
                   sshChannels, below, asks>>

Cli ==
    /\ Running /\ asks = "idle"
    /\ asks' = "waits"
    /\ UNCHANGED <<loop, dialVars, cli, connVars, sub, halted, done, callVars, chanVars>>

CliShutdown ==
    /\ asks = "waits" /\ halted
    /\ asks' = "shutdown"
    /\ UNCHANGED <<loop, dialVars, cli, connVars, sub, halted, done, callVars, chanVars>>

\* t.Halt is told to stop, by a caller or by the parent's Halter.
RequestStop ==
    /\ ~halted
    /\ halted' = TRUE
    /\ UNCHANGED <<loop, dialVars, cli, connVars, sub, done, callVars, chanVars, asks>>

-----------------------------------------------------------------------------
Next ==
    \/ DialShutdown \/ DialOK \/ DialTofu \/ DialFails
    \/ \E k \in Conns : \/ ConnTimesOut(k) \/ ConnLost(k) \/ ConnCloses(k) \/ CloseCli(k)
                        \/ KeepaliveFails(k) \/ KeepaliveQuits(k)
    \/ ReconnectNeeded \/ Cleared \/ ProvideCli
    \/ \E c \in Tickets : \/ helperGetChannel(c) \/ OpenOK(c) \/ OpenFails(c)
                          \/ SSHChannel(c) \/ CancelCtx(c) \/ CloseChannel(c)
    \/ Answer \/ SeesHalt \/ MarksDone \/ LoopReturns
    \/ Cli \/ CliShutdown \/ RequestStop

Spec == Init /\ [][Next]_vars

\* The goroutines run, and a dial comes back.  Each case of the select is taken
\* finitely often, so that the others get their turn, as they do in the code, where
\* a select with several cases ready chooses at random.
Loop ==
    \/ DialShutdown \/ DialOK \/ DialTofu \/ DialFails
    \/ ReconnectNeeded \/ Cleared \/ ProvideCli
    \/ \E c \in Tickets : helperGetChannel(c) \/ OpenOK(c) \/ OpenFails(c)
    \/ SeesHalt \/ MarksDone \/ LoopReturns

FairSpec ==
    /\ Spec
    /\ WF_vars(Loop) /\ WF_vars(CliShutdown)
    /\ \A k \in Conns :
          WF_vars(ConnCloses(k) \/ KeepaliveFails(k) \/ KeepaliveQuits(k))

-----------------------------------------------------------------------------
\* Everything has its type, and the loop only selects with a client in t.cli.
TypeOK ==
    /\ loop \in {"first", "again", "failed", "panicked", "select", "clearing", "open",
                 "ending", "closing", "ended"}
    /\ tries \in 0..(Retries - 1) /\ tofu \in BOOLEAN /\ cli \in 0..MaxConns
    /\ conn \in [Conns -> {"none", "up", "spins", "stuck", "dropped", "closed"}]
    /\ quit \in [Conns -> BOOLEAN] /\ keep \in [Conns -> BOOLEAN]
    /\ sub \in 0..MaxConns /\ {halted, done} \subseteq BOOLEAN
    /\ ticket \in [Tickets -> {"idle", "sent", "ok", "err"}]
    /\ tkCtx \in [Tickets -> BOOLEAN]
    /\ chan \in [Tickets -> {"none", "open", "closed"}]
    /\ chanConn \in [Tickets -> 0..MaxConns]
    /\ tk \subseteq Tickets /\ Cardinality(tk) <= 1
    /\ msg \in {"empty", "wait", "never", "confirm", "failure", "closed"}
    /\ sshChannels \subseteq Tickets /\ below \subseteq Linked
    /\ asks \in {"idle", "waits", "got", "shutdown"}
    /\ loop \in {"select", "open", "clearing"} => cli \in Made

\* The loop has a client whenever it serves callers (TypeOK), and then every open channel
\* it handed out is on the connection in t.cli; after Halt none is open.  closeChannels
\* misses none, although callers close channels and connections drop them meanwhile.
NoStaleChannel ==
    /\ TypeOK
    /\ loop \in {"select", "open"} =>
          \A c \in Tickets : chan[c] = "open" => chanConn[c] = cli
    /\ loop = "ended" => \A c \in Tickets : chan[c] # "open"

\* A connection that works is never replaced: a notification in the tower is
\* always about the connection in t.cli, not about one replaced before.
NoNeedlessReconnect ==
    [][cli # 0 /\ cli' # cli => conn[cli] # "up"]_vars

\* A lost connection is replaced, unless the Tricorder is halted, the retries run
\* out, the application closed the client itself, or the loss is a read that timed out
\* while a ping was unanswered: its keepalive then waits for ever, and says nothing.
\* Openings that nobody answers must have contexts that end.
ContextsEnd == \A c \in Tickets : []<>(c \notin tk)
Reconnects ==
    ContextsEnd =>
       \A k \in Conns :
          (cli = k /\ conn[k] # "up") ~>
             (cli \notin {0, k} \/ quit[k] \/ halted \/ loop = "panicked"
                \/ conn[k] = "stuck")

\* SSHChannel returns, to callers with such contexts, while the Tricorder is not
\* halted; Cli and Nc return also when it is.
CallersReturn ==
    ContextsEnd =>
       /\ \A c \in Tickets :
             (ticket[c] = "sent") ~> (ticket[c] # "sent" \/ halted \/ loop = "panicked")
       /\ (asks = "waits") ~> (asks # "waits" \/ loop = "panicked")

\* Halt ends the loop, with all channels closed, if the owners of the channels
\* below channelsHalt close them and openings end.
HaltEnds ==
    ContextsEnd /\ (\A c \in Linked : []<>(chan[c] # "open")) =>
       (halted ~> loop \in {"ended", "failed", "panicked"})

\* Neither the callers nor the owner of a Tricorder wait for ever.
CallsEnd == CallersReturn /\ HaltEnds
=============================================================================
