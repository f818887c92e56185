# A TLA+ model of sshego

sshego is an ssh library and tunnel: an ssh client that reconnects, an embedded
sshd with its own user database, and a fork of `golang.org/x/crypto/ssh`
(xcryptossh) in which contexts, Halters and idle timers were added. This
directory holds TLA+ modules translated from that code, TLC configurations that
check them on small instances, and proofs that TLAPS checks for every instance.
`X/` below stands for `src/xendor/github.com/glycerine/xcryptossh/`.
`PROJECT.json` maps every definition to its source lines and lists the runs,
the hazards and the theorems.

## 1. The system and its parts

From the wire upwards:

| Part | Source | State | Operations | Talks to |
|---|---|---|---|---|
| packet transport | X/transport.go, cipher.go, mac.go, kex.go | keys and sequence numbers of each direction, a pending key change | readPacket, writePacket, prepareKeyChange | net.Conn below, handshake above |
| key exchange | X/handshake.go | sentInitMsg, pendingPackets, writeError, the Go channels requestKex, startKex, incoming | readLoop, kexLoop, writePacket, readPacket, enterKeyExchange | transport, mux |
| authentication | X/client_auth.go, X/server.go, X/client.go, src/server.go | attempts, methods tried, the three factors accepted so far | clientAuthenticate, serverAuthenticate, the callbacks | key exchange, user database |
| mux | X/mux.go | chanList, globalResponses, incomingChannels, incomingRequests | loop, onePacket, openChannel, SendRequest, Close | key exchange below, channels |
| channel | X/channel.go, buffer.go, window in common.go | windows, buffers, sentEOF, sentClose, msg | Read, Write, CloseWrite, Close, Accept, Reject, SendRequest, handlePacket | mux; the application |
| idle timer | X/idle.go | duration, last activity, callback | BeginAttempt, AttemptOK, SetIdleTimeout, the heartbeat | buffer, window |
| session | X/session.go | started, exit status | Start, Wait | channels |
| Halter | X/halter.go | reqStop, done, upstream and downstream maps | RequestStop, MarkDone, AddDownstream, RemoveDownstream, MAD | everything that has a goroutine |
| Tricorder | src/tri.go, buzz.go, uhp.go, cli.go | the client, the channels handed out, the subscription | SSHChannel, Cli, Nc, the reconnect loop, keepalives | ssh client, channels, Halters |
| embedded sshd | src/server.go | the listener, CommandRecv's channels | Start, Stop, CommandRecv.Start | user database, authentication |
| user database | src/user.go, filedb.go, amap.go, tcplock.go, netcli.go, usermgt.go | the file, the map in memory, the xport | AddUser, DelUser, save, Lock, Unlock | the daemon, its clients, command-line processes |
| known hosts | src/knownhosts.go, perjson.go, sshutil.go | the table of hosts, its file | HostAlreadyKnown, AddNeeded, Sync | ssh client |
| tunnels | src/sshutil.go, shovel.go, listen.go, direct.go, X/tcpip.go, streamlocal.go, client.go | listeners, ForwardList, pairs of copiers | ListenTCP, ListenUnix, Accept, Close, Forward, CloseAll, StartNewReverse, the shovels | ssh client, Halters |
| the rest | src/config.go, cmd/, rsa.go, mailgun.go, *_gen.go, X/keys.go, certs.go, messages.go, agent, terminal | | flags, files, mail, encoding | |

What makes them hard to get right and hard to test:

* **Goroutines that share a window.** A channel has any number of readers and
  writers on two streams, one uint32 window per direction, and the mux goroutine
  that updates it. The reader raises its window under one lock and announces it
  under another.
* **Messages that cross.** Closes, openings, requests and key exchanges begin at
  both ends at once; channel ids are reused; replies carry no number.
* **Go channels that fill.** The mux, the handshake and CommandRecv hand things
  over through channels of small capacity, and one blocked send stops all the
  channels of a connection.
* **Stopping.** Halters, contexts and closed connections race with the calls
  they are to end, and a Halter is waited for with mutexes held.
* **A file and several processes.** The user database is truncated and then
  written, under a TCP port used as a lock, by a daemon that may crash. The known
  hosts are appended or replaced by callers that share one table.
* **Flags that outlive an attempt.** Which factor was shown is remembered over
  the methods of a login, beside a cache of keys and a limit of tries.

`hazards` in `PROJECT.json` names the lines and the property for each of them.

## 2. The modules

| Module | Models | Abstract spec, proofs |
|---|---|---|
| `SSHChannel` | the data path of one channel between two peers | implements `ByteStream`; proofs in `SSHChannel_proofs` |
| `Mux` | opening, closing, requests and ids of channels, global requests, the loop | |
| `Handshake` | the handshakeTransport of both ends | proofs in `Handshake_proofs` |
| `Halter` | the tree of Halters, with the mutexes | proofs in `Halter_proofs` |
| `UserDb` | the database, the daemon, its clients, command-line processes | proofs in `UserDb_proofs` |
| `Tricorder` | the reconnect loop, the keepalives, the tower, the callers | proofs in `Tricorder_proofs` |
| `IdleTimer`, `IdleChannel` | the idle timer, and a Read, a Write and the packet handler under it | proofs in `IdleChannel_proofs` |
| `Dialing` | what the parts of an outgoing connection share | |
| `Authentication` | user authentication on both ends | proofs in `ClientParts_proofs` |
| `KnownHosts` | the table of host keys, its file, the host key callback | |
| `Forwards` | channel opens from the sshd, the ForwardList and its listeners | proofs in `ClientParts_proofs` |
| `Shovel` | the two copiers of a tunnelled connection | proofs in `ClientParts_proofs` |
| `Client` | SSHConnect: the composition of the four above | implements them; proofs in `Client_proofs` |

Each `MC*` module gives the constants small values. A variable or action has the
name of the field or function it stands for wherever there is one; a definition
whose name extends another's (`LinkUnlocked` beside `Link`) is a
plausible mistake in that code, kept to show which property notices it, and no
specification uses it.

### SSHChannel

Two peers, each with a writer and a reader goroutine for the main stream and
for stderr, callers of CloseWrite and Close, and the mux goroutine.
WriteExtended is `WriteExtended` (the call), `Reserve` (window.reserve, with its
wait on the condition variable) and `SendData` (one packet, under writeMu),
repeated until the data is out. ReadExtended is `ReadExtended`, `BufferRead`,
`AdjustWindow` (the sum under windowMu) and `AnnounceWindow` (the message
sent after the unlock). Close is `CloseChannel` and `SendClose`, so that packets get in
between. The mux goroutine takes one packet at a time (`OnePacket`:
`HandleData`, `HandleAdjust`, `HandleEOF`, `HandleClose`), and ends with
`LoopFails` when the connection breaks (`ConnLost`), or goes on for ever without
closing anything (`LoopSpins`) when the error says that it is a timeout.

A byte is its position in its stream, a packet the interval of bytes it carries,
so that loss, duplication and overtaking are visible. remoteWin and myWindow are
taken modulo `UintMod`, which stands for 2^32; the running totals are history
variables of the model.

`ByteStream` is what the comment on `Channel` promises, "an ordered, reliable,
flow-controlled, duplex stream", in four actions. `SSHChannel` implements it
with written = sent, delivered = rd, ended = eofSeen, broken = ~connUp.

### Mux

Each peer has its chanList (`chans`), its channel objects, the Go channels between
mux.loop and the application (capacity `ChanSize`) and one wire.
`openChannel`/`openReturns`, `Accept`, `Reject`, `Close`/`SendClose`,
`SendRequest`/`RequestReturns`/`ackRequest` and `SendGlobal`/`GlobalReturns`/
`ackGlobal` are the calls of the application, cut where they block. `onePacket`
dispatches to the handlers; `readFails`, `dropAll` and `closeConn` are the end of the
loop. A read that fails with a timeout leaves the loop spinning ("spin") until the
connection is halted. Requests are sent with and without wantReply, and an open may be
abandoned by its caller, whose channel stays in the list. Packets also carry the object
they are meant for and the number of the request they answer; no action decides anything
by these, only properties read them.

### Handshake

Both ends' readLoop (`ReadOnePacket`, `Deliver`, `Offer`, `KexDone`,
`CloseIncoming`, `StopWriters`), kexLoop (`Top`, `Select`, `Check`, the exchange,
`Finish`, `TellReader`, `Flush`), the goroutine that drains startKex (`Drain`)
and the callers of writePacket and readPacket. A key is the number of the
exchange that made it, and every packet on the wire carries the key it was
encrypted with; reading it with another key is a protocol error. The messages
of an exchange are one from the client and one from the server, of which the
second may be rejected by the host-key callback. The server sends its message
before it learns that something fails (`KexAnswer`). The first exchange is part of
the model.

### Halter

A goroutine is a stack of frames, since RequestStop recurses with each Halter's
mutex held. `CloseReqStop`, `LockTell`, `TellDownstream`, `Unlock` are
RequestStop; `LockWait`, `NextDownstream`, `DownstreamDone`, `CloseDone` are
MarkDone; `Link`/`addUpstream` and `Unlink`/`removeUpstream` take two mutexes
one after the other as the code does; `MADHalted`, `MADCancelled` are the
goroutine of MAD.

### UserDb

The daemon is two goroutines, Esshd.Start (`sshd`) and CommandRecv.Start (`cr`),
joined by unbuffered channels with their timeouts. Clients dial the xport.
Command-line processes (`-adduser`, `-deluser`) load, lock, change, save and
unlock in the order of usermgt.go, which differs between the two. `disk` is
empty between the truncation and the write of SaveToDisk; `Crash` and `Kill` may
come in between, and either step may fail, after which memory and file differ
(`failed`) until a save succeeds. The write of the file is one step. A daemon that was
stopped starts again with the database it has in memory (hostDb), one that crashed
reads the file.

### Tricorder

The goroutine of startReconnectLoop with its select, helperNewClientConnect and its
retries and trust on first use, the openings it makes for callers, one keepalive
goroutine per connection, and the tower whose subscription holds one notification. A
connection is lost (`ConnLost`), closed by the application, or its read times out
(`ConnTimesOut`): the mux loop then spins, and the keepalive fails at its next ping
("spins") or waits for a reply that does not come ("stuck"). Connections are numbered,
so that a notification about an old one can be told from one about the present one.

### IdleTimer and IdleChannel

`IdleTimer` is the goroutine of idle.go with its select: `TakeSet` (a new
duration), `Heartbeat` and `HeartbeatDone` (a tick, the decision and the
callback, `Raise`), `TimerStops`; and what others do to it: `BeginAttempt`,
`AttemptOK`, `SetIdleTimeout`, `SetOneshotIdleTimeout` (a deadline), `RequestStop`.
Time is a count of `Tick`s: the age of the attempt, and, as history, the `lull`, how
long nothing has succeeded since the duration was set; a lull that has become longer than
the duration is kept, since the timeout raised for it stays raised.
`IdleChannel` is one channel around it: buffer.Read cut at its mutex, at the
question to the timer and at the Wait; window.reserve likewise; handlePacket,
which reports every packet to the timer; timeout(), which broadcasts without a
mutex; and the close from either side.

### Authentication

The client's `RequestService`, `noneAuth`, the rounds of publickey (`KeyOK`,
`SignFails`, `KeyRefused`) and keyboard-interactive (`helper`), `findNext` with the methods
tried and listed; the sshd's accept loop, which serves one login at a time,
serverAuthenticate (`NoneRequest`, `KeyQuery`, `KeySigned`, `KeyMissigned`, `Challenge`,
the end of a round in `Fails` with the limit), the pubKeyCache (`Candidate`, `Cached`), and
the callbacks of src/server.go with the flags PublicKeyOK and OneTimeOK. A key is
a member of a set, and a caller may offer keys it cannot sign with; an answer is right,
wrong or missing. The connection may be
lost at any step.

### KnownHosts

The file is the lines, each a sequence of names with the port that may be left
out; `LoadSshKnownHosts` and `FormatLine` are the conversions, with both passes
over a line and the port carried from name to name. `HostAlreadyKnown`,
`CompareNames`, `AddNeeded`, `AddHostPort`, `saveSshKnownHosts`/`MarkSaved` and
`saveJSONSnappy`/`MoveOntoFile` are the callback, cut where it takes or gives back
a mutex, so that callers interleave. A callback that locks the Mut of the record
twice stays in "stuck".

### Forwards and Shovel

`HandleChannelOpens` dispatches an open to the handler of its type (`HandleChannels`),
which looks up the listener and sends to its channel of capacity one with the lock of
the list held (`Forward`, `ForwardSend`). `AcceptForward`, `AcceptEOF`,
`CloseListener`/`CancelAnswered`/`Remove`, `AddForward` and `CloseAll` are the
listeners' side; Close waits for the reply to its cancel request. The mux loop may end
(`MuxEnds`) and the connection be closed or halted here (`ConnClosed`), which are
different things to this code. `Shovel` has the copier and the closer of each direction
and the watcher of the pair, with the Halters as sets. A Write may wait for a far end
that does not take it, and fail (`WriteFails`) when that end has closed or reset its own
connection (`FarCloses`, `SocketReset`).

### How they compose

`Client` EXTENDS the four and joins them as SSHConnect does: the host key
callback runs inside the key exchange, its result lets the authentication begin
or ends it, and a caller that is in listens, accepts and copies; the end of the
mux loop reaches the listeners through CloseAll and the copiers through their
channel. Every step of `Client` is a step of one part and leaves the others alone,
or a loss, which they share. That it implements each of them is a theorem
(`ClientImplementsParts`).

The layers below are not joined in one specification, whose state space would be
the product. Mux relies on Handshake for a wire that keeps packets in order and
loses only a suffix (`PacketsInOrder`), SSHChannel relies on Mux for packets that
reach the right channel (`RouteRight`), and its `NeverInvalidChannel` is the same
fact from the channel's side. Tricorder takes from Mux that an opening returns
when the connection ends (`OpensRequestsReturn`) and from Halter that stopping
channelsHalt ends what is below it (`StopEndsAll`). Shovel takes from SSHChannel
that a Read of a closed channel returns with the peer's answer (`CloseUnblocks`),
and Forwards from Mux that opens reach incomingChannels (`PacketsProcessed`).

## 3. The runs

States are distinct states; times are for two workers.

| Run | Instance | Checks | Size |
|---|---|---|---|
| `channel_window` | three bytes one way, window 1, packets of 1, counters modulo 4 | FlowControlRespected, ImplementsStream, WritesReturn, CloseUnblocks | 304k, 115 s |
| `channel_streams` | a byte on each of two streams through a window of 1 | WindowConserved, StreamsIntact, ClosesClean | 1.49M, 95 s |
| `mux_routes` | two channels; or two requests on a channel; or global requests of both sides, abandoned or not | RouteRight, AnswersMatchWhileOpen, OpensRequestsReturn, PacketsProcessed | 521k, 109 s |
| `rekey` | both ends rekey and write; or the connection breaks, a host key is rejected, an end is halted | KeysAgree, PacketsInOrder, PacketsArrive, LoopsEnd | 279k, 60 s |
| `rekey_halted` | an end is halted | WritersStopped is violated | |
| `halter_tree` | a chain of three, a shortcut that comes and goes, a context, four goroutines | VisitsComplete, CallsReturn, StopEndsAll | 565k, 125 s |
| `user_db` | two clients of a daemon that may crash and start again; three `-deluser`; an `-adduser` beside the daemon | DiskIsMemory, UsersKept, DelsSerial, ReplyTrue, StopEnds | 402k, 35 s |
| `user_db_writers` | an `-adduser` beside the daemon | OneWriter is violated | |
| `reconnect` | two connections, two retries, a channel of each kind, a caller of Cli | NoStaleChannel, NoNeedlessReconnect, Reconnects, CallsEnd | 182k, 85 s |
| `idle_timer` | durations 0 to 2; readers and writers with data, other packets, deadlines, closes from either side | WriteEofMeansClosed, TimeoutsTrue, IdleWaitsEnd, TimerAnswers | 248k, 120 s |
| `idle_read_stuck` | a reader, durations 0 and 1 | ReadsTimeOut is violated | |
| `client` | twelve logins against every set of requirements; two callers that share the known hosts; two listeners with three opens; a tunnelled connection | LoginChecked, SessionSound, AddedIsSaved, NeverSendOnClosed, NothingCutShort, ConnectsRight, ListenersReturn, OpensAnswered, PairEnds | 97k, 125 s |

A property with several parts (`KeysAgree`, `VisitsComplete`, `SessionSound`, ...) is
the conjunction of definitions that say one thing each, the type invariant among
them; `TypeOK` and `WindowBounded` of SSHChannel are proved (section 4).

What the passing runs show:

* **Channel.** However the goroutines of two streams, closes and a broken
  connection interleave, the window is conserved, neither end accuses the other,
  each stream stays in order, and io.EOF on a connection that stands means that
  all was read. window.reserve loses no wakeup, and Close, which broadcasts to
  nobody, unblocks callers through the peer's answer. The last two except a mux loop
  that spins on a read that timed out.
* **Mux.** An id is not reused while a packet for its former owner is on the
  way. A SendRequest on an open channel, and a global request as long as none is
  abandoned, gets its own reply. Openings and requests return, also when the
  channel was registered after dropAll, unless the loop spins on a timeout or the
  other side is held up by what it abandoned. The loop itself is held up for good only
  by that: the reply to a second abandoned global request, or requests on the channel of
  an abandoned open.
* **Handshake.** The keys of a direction change at one point of the stream,
  whoever started the exchange; queued packets keep their order and arrive; after
  a loss or a rejection every goroutine ends.
* **Halter.** The mutexes held across recursion and waiting do not deadlock on an
  acyclic graph; whatever is linked when the mutex is taken is told or waited for.
* **UserDb.** The daemon forgets no user nobody asked to delete, over stops, crashes and
  new starts, unless its process ended between truncation and write or after a save that
  failed. The file and the daemon's memory agree outside SaveToDisk as long as it does not
  fail, what a client is told is true of the file, and `-deluser` processes that hold the
  xport do not lose each other's work. Stop ends both goroutines and frees the xport.
* **Tricorder.** No channel of an old connection stays open once the loop serves
  callers again; a working connection is never replaced and a lost one is, unless
  retries run out, somebody halts or closes it, or its read timed out while a ping was
  unanswered (section 5).
* **Idle timer.** ErrTimeout is given only if the channel was idle, without a
  successful Read and without a packet, for longer than the duration in force, and it never
  leaves data behind, whatever timeouts were raised and set before. Without deadlines, a
  Write gets io.EOF only on a closed channel. A wait that the running ticker finds idle is
  ended. No call into the timer's goroutine waits for ever, also while it stops.
* **Client.** Whoever is let in has offered the key on file and answered right what is
  asked, or given a good signature when nothing is asked, whatever was tried before
  and cached; and whoever has everything gets in, within the limit of tries. A
  caller shows nothing before the host key was accepted for a name that is listed
  or was added, and an added name is in the file, unless another one came in
  during the save. SSHConnect returns, unless a callback has locked record.Mut
  twice (section 5). On the connection, nothing is sent to a
  closed listener, Close and Accept of listeners return and opens are answered when
  somebody accepts on every listener or the connection is done, and
  when one direction of a tunnel ends both ends are closed and every goroutine of
  the pair returns; no end is closed before one direction is complete, unless
  somebody stops the pair, the connection is lost or a far end closes or resets its own.

### Bounds and why they are enough

* *Channel.* Three bytes through a window of one force two waits and two credits,
  and the two streams to compete for it. `UintMod` close above the window puts the
  overflow checks at their boundary. Reservations and Reads of a part of what there is
  need a larger window; they are left to the proofs, which remove these bounds for all of
  the channel's safety.
* *Mux.* Two channels are what reusing an id takes, two requests what mistaking a
  reply takes, and `ChanSize` 1 makes every Go channel fill. The connection may be lost at
  any moment in every use; reads may time out in those with requests of the client and
  with global requests.
* *Handshake.* The first exchange and one rekey asked for by each end give the
  collision of two inits and an exchange directly after another; two packets each
  are what order takes. The proofs remove these bounds for the safety properties.
* *Halter.* Three levels are the least with recursion inside recursion; the
  shortcut gives a Halter two upstreams.
* *UserDb.* Two starts give a crash and a recovery; two clients give an answer
  that could go to the wrong one; three admins give a repeated deletion.
* *Tricorder.* Two connections give one reconnection, with notifications about
  the first; two retries give a failed attempt and a last one.
* *Idle timer.* Durations 0, 1 and 2 give no timeout, a shorter and a longer one;
  ages are counted to one above the longest, where all is decided. One buffered
  datum and a window of one are what a Read and a Write wait for.
* *Client.* The uses of `MCClient` are scenarios whose states add up. Logins: two
  keys are what a wrong one before the right one takes, four keys what meets the
  limit of three tries, a cache of one what is full. Hosts: two callers are what
  a race on the table takes; files with no line, one, two lines of one key, and a line
  that mixes names with and without a port.
  Forwards: a listener of each kind, two opens for one of them fill its channel
  of one. Shovel: one chunk each way.

Deadlock checking is off everywhere, because every one of these systems may come
to rest: an idle connection, a closed channel, Halters that are all done. That
nothing stops too early is what the liveness properties say.

### Fairness

Weak fairness is assumed of goroutines that the Go scheduler runs and that wait
for nothing but their guard: the mux loop, the handshake's loops, the keepalives,
calls in progress. Nothing is assumed of the application's decision to call. Where
a property needs the application, it says so as a premise: `ReadersRead`
(WritesReturn), `ContextsEnd` (an opening that the server never answers has a
context that ends), `LoginsEnd` (no login is stuck in its handshake), and that somebody
accepts on every listener (ListenersReturn, OpensAnswered). Mux assumes that
channels and requests are serviced and that a connection whose loop has ended is
closed, which the documentation of Conn and NewChannel demands. Halter assumes
that an owner asked to stop ends. Tricorder's `Loop` is one weakly fair action:
every case of its select can be taken only finitely often, so that the others get
their turn, as a Go select gives them at random. Mux and Client ask weak fairness
of all goroutine steps together (`Runs`), which is less than asking it of each: no
behaviour of these modules goes in circles, so it is enough. IdleChannel assumes
that time passes and that the goroutines in a call go on; nobody has to read,
write, or set a timeout.

## 4. What is proved

TLAPS checks the theorems below for every value of the constants. Each rests on
an inductive invariant, which TLC finds to hold on the instances of section 3; one
lemma per action, or per group of actions that touch the same
variables, shows that a step preserves it.

| Theorem | Module | States |
|---|---|---|
| `LedgerHolds`, `TypeCorrect` | `SSHChannel_proofs` | []FlowInv, []TypeOK |
| `FlowControl`, `WindowsBounded` | | []FlowControlRespected, []WindowBounded |
| `StreamsAreIntact`, `ClosesAreClean` | | []StreamsIntact, []ClosesClean |
| `WindowIsConserved` | | []WindowConserved |
| `ChannelIsAStream` | | ImplementsStream: the refinement of `ByteStream` |
| `KeysAlwaysAgree`, `PacketsAlwaysInOrder` | `Handshake_proofs` | []KeysAgree, []PacketsInOrder |
| `VisitsAreComplete` | `Halter_proofs` | []VisitsComplete |
| `UsersAreKept`, `DiskFollowsMemory`, `DelsAreSerial` | `UserDb_proofs` | []UsersKept, []DiskIsMemory, []DelsSerial |
| `RepliesAreTrue` | | ReplyTrue, about steps |
| `ChannelsAreFresh` | `Tricorder_proofs` | []NoStaleChannel |
| `ReconnectsAreNeeded` | | NoNeedlessReconnect, about steps |
| `EofIsClosed` | `IdleChannel_proofs` | []WriteEofMeansClosed |
| `TimeoutsAreTrue` | | TimeoutsTrue, about steps |
| `OnlyTheCheckedGetIn` | `ClientParts_proofs` | AuthSpec => []LoginChecked |
| `NoSendPanics` | | ForwardsSpec => []NeverSendOnClosed |
| `NoStreamCutShort` | | ShovelSpec => []NothingCutShort |
| `ClientImplementsParts` | `Client_proofs` | Spec => AuthSpec /\ ForwardsSpec /\ ShovelSpec |
| `ClientSafe` | | the three properties of the parts, of `Client` |

### The channel: flow control

For every `WindowSize`, every `MaxPacket` between 1 and `WindowSize`, every `UintMod`
above `WindowSize` and every amount of data (`SizeAssumption`, `BytesAssumption`; the
code's 64 packets of 32 KiB and counters of 32 bits satisfy them). The windows are
declared as 0..UintMod-1, so `TypeCorrect` says that no subtraction goes below zero.
`FlowControl` says that neither end sees "remote side wrote too much", a packet over
the maximum, or an adjust that overflows; `WindowsBounded` is the claim of the comment
in adjustWindow by which its sum needs no overflow check.

None of these is inductive: whether handleData accepts a packet
depends on credit that is still on the wire, or in the hands of a reader between
its two locks. `FlowInv` is the ledger that follows each byte of the window: what a
writer has reserved and sent is covered by the initial window and the credit
received (`WriterLedger`); a reader has announced at most what it has read, and
myWindow is what its counters say, less what was read and not yet adjusted
(`ReaderLedger`); data and credit on the wire are chains of disjoint intervals
between the receiver's and the sender's totals (`DataOnWire`, `CreditOnWire`); and
a goroutine holds only what its program point allows (`InHand`). Intervals instead of
sums are what makes this provable without induction over the wire: that a
packet's bytes fit in myWindow (`InFlightFits`) is arithmetic on the ends of the
chains. The lemmas are about a chain that grows at one end or shrinks at the other,
and then about the steps of writers, readers, closes and the mux goroutine.

### The channel: streams, closes and the refinement

The chains of the ledger may have gaps, which is enough for flow control. That
nothing is lost, and that the end comes last, needs `StreamInv` on top of `FlowInv`:

* `Contiguous`: the data packets of a stream on the wire follow each other without
  gap from what the receiver has to what the sender has sent. It is stated by first,
  last and neighbouring packets, so that no step needs induction over the wire.
* `CloseLast`, `EofLast`: a close is the last packet of its sender, and no data of the
  main stream is behind an eof. `WriterDone` says why: CloseWrite is called by
  the goroutine that writes the main stream, which has no Write in progress then.
* `Left`: a channel leaves the list with its one close(), and nothing more comes for
  it, because its mux loop has ended or because the other end sent its close and the
  wire is empty. From this `ClosesAreClean` follows.
* `AllArrived`, `AllRead`: while the connection stands, a closed buffer means that all
  of the main stream has arrived, and io.EOF that it was read. `EndIsAll` combines
  them with `Contiguous` into what `StreamsAreIntact` says.

`ChannelIsAStream` maps written to sent, delivered to rd, ended to eofSeen and broken
to ~connUp. SendData is a Write of the stream and BufferRead a Read or an End
(`SendDataWrites`, `BufferReadReads`), the loss of the connection is the Break, and
all other steps stutter (`StepRefines`).

`WindowIsConserved` says of the window what the ledger only bounds. `WindowInv`: until
p closes or the connection breaks, the two inequalities of its ledger are equations
(`Books`), and the credit on the wire is `Contiguous` as the data is. A closed channel is
where window is lost for good: reserve takes from a closed window and returns io.EOF, and
adjusts are no longer sent. `BooksMoved` is the one fact about sums; each step moves
bytes from one account to another.

### The key exchange

For any number of packets and of rekeys of either end, and whatever may fail: the
connection, a rejected host key, a halt. Two loops of each end read the same wire in turn,
and what the next packet is to be is nowhere a variable of the code. `StreamInv` derives
it: `ReadPhase` is what a reader expects (anything outside an exchange, the message of
the exchange, the change of keys, or nothing any more), `SendPhase` what the other end
may send next, both from where the two loops are. The wire between them is a `Chain`:
each packet has the key that those before it leave, and is one that its reader then
expects; behind the last packet the phase and the key are the sender's. A step takes the
first packet or adds one behind the last, and the loops of one end (`Asking`,
`Exchanging`, `Locking`, `Ending`) decide which. When an end is halted or rejects a key,
the other may still send data where a message of the exchange was due: the chain then
says only what remains true, and `NoProtocolError` allows the error. `KeysAlwaysAgree`
follows from the chain.

`PacketsInOrder` is inductive on top of it. What writePacket has accepted is in one of
five places (read, in incoming, in readLoop's hand, on the wire, pending), each with
lower numbers than the next. That nothing is pending while writePacket sends directly, and
that no data is dropped inside an exchange, is what `StreamInv` adds.

### Halter

For any set of Halters, any acyclic links and any goroutines (`LinksAssumption`; the
proof of safety does not use the acyclicity). `StackInv` says of every frame of
every goroutine what holds wherever it is (`Local`: between Lock and Unlock it has
the mutex, what it has waited for is done, it was stopped before it tells others) and
what holds because of its place (`Position`: no two frames have the same mutex; above
a frame that tells there are only calls of RequestStop, one of them on the Halter
that is not told yet). The steps are cases of pushing a frame, changing the top
one and returning.

### UserDb

For any logins, commands, clients, processes, starts and logins (`UsesAssumption`:
commands are commands, and no process has the daemon's name). `ServeInv` says that
from the moment Esshd.Start takes a command until it answers, CommandRecv waits for
that answer with the connection of that client or has ended, and that the command was
carried out in memory. `RepliesAreTrue` is then a fact about the one step that answers.
UsersKept is about memory only, and a new start takes the users from the file: `KeptInv`
says that they are in the file too, outside the time in which it is truncated, and that a
command on its way was given.
`SerialInv` says that a `-deluser` between Lock and Unlock has the xport, and that what
it read or will write is what those before it have left.

### Tricorder

For any tickets, retries and number of connections (`TicketsAssumption`). `TowerInv`:
only the keepalives of the connection in t.cli run, and they end with their one
notification, so that a notification in the tower is about t.cli and t.cli is down.
`OpenInv`: an open channel is in t.sshChannels, on t.cli, and the loop has not yet
closed the channels. `CliInv` ties t.cli to where the loop is.

### IdleChannel

For any durations, window and use (`DurAssumption`, `WinAssumption`). `TimerInv`: an
attempt that is not answered is no older than the lull, so that a timeout raised for it
means a lull longer than the duration. `EndInv`: a reader that asks the timer saw an empty
buffer and holds its mutex, and the timer is stopped only by a close or a deadline.

### The parts of the client, and the client

`OnlyTheCheckedGetIn` holds for any callers, keys, requirements, limit and cache size
(`AuthAssumption`: the key on file is a key, the limit of tries is positive, the size
of the cache a number). LoginChecked is not inductive: the sshd decides by flags and by
the cache. `AuthInv` says what these and the wire can hold (`WireInv`: a request
carries only keys and answers its client has; `FlagInv`: PublicKeyOK, OneTimeOK and a
cached acceptance are each evidence of what was shown, and "noted" and "in" need both).

`NoSendPanics` holds for any addresses, opens and work (`OpensAssumption`: opens are
not the names of a handler's states). `ForwardInv` says who can hold the lock of the
list (`HolderInv`) and that an address is in the list or closed, never both, while the
lock's holder has one that is in the list (`ListInv`).

`NoStreamCutShort` holds for streams of any length. `ShovelInv` follows a close back
over closer, watcher and Halter to the copier that ended, and says why it did.

`ClientImplementsParts` has the identity as its refinement mapping, and for any `Uses`
(`UsesAssumption`: logins and work are such, and at most one caller tunnels) shows
which part each step moves and that the others stutter. `ClientSafe` follows.

### Only model-checked

* All liveness: the prover does not reason about fairness and ENABLED.
* `RouteRight` and `AnswersMatchWhileOpen` of Mux: no theorem yet. The invariant
  has to say what every kind of packet on the two wires means for both ends.
* `SessionSound`, `AddedIsSaved` and `ConnectsRight` of the client: no theorem yet for the
  first two; the third is liveness.

## 5. Where the code and its comments disagree

Three runs expect a violation, each of something a comment says:

1. `rekey_halted`: kexLoop returns at X/handshake.go:364-367 with t.mu locked when
   a halt or a cancelled context is chosen over request.done; later calls of
   writePacket, and the "Stop writers too" of readLoop, block.
2. `user_db_writers`: TcpPort.Lock's timeout error is not ErrCouldNotAquirePort, so
   the command-line processes go on as if they held the xport; "There should only
   one writer to disk at a time".
3. `idle_read_stuck`: after a timeout the ticker is stopped, and SetIdleTimeout with
   the same duration takes the early return at X/idle.go:304 without starting it
   again, although it "starts the timing machinery off and running" (X/channel.go:882).

Met while modelling, and left out of the properties that would otherwise fail
(each is named in the property's premise or in a hazard's note):

* *Halter, mux, channel.* A Halter linked after its upstream was stopped is not
  told, and a Halter stopped by its context tells nobody below. A SendRequest that
  races with Close, or follows an abandoned global request, can return an earlier
  reply; the second reply that nobody waits for blocks the loop at X/mux.go:299,
  which "will process packets until an error is encountered". A response to a
  channel closed locally can end the loop (X/channel.go:614). "We can't have timeout
  errors here cause us to leave the loop and close down, because we need to be able to
  resume from a timeout where we left off" (X/mux.go:210-212), but after a timeout of the
  connection readLoop has ended, readPacket returns the same error for ever, and writes
  fail: the loop spins, and ends no call.
* *Idle timer.* Every packet counts as activity of the reader (X/channel.go:541), so
  a Read on a busy channel does not time out. A broadcast between a Read's question
  and its Wait is lost (X/buffer.go:111). A deadline followed by one success halts the
  timer, and later Writes get io.EOF. A Read that began before SetIdleTimeout is not
  timed out, as X/idle.go:164 says. A call made after the timeout was raised gets
  ErrTimeout at once, a Write that finds window too.
* *User database, sshd.* An empty file left by a crash inside SaveToDisk is read as a
  database without users; `-adduser` loads before it locks; CommandRecv waits for an
  answer after a delivery that timed out; Stop hangs when Listen failed.
* *Authentication.* PublicKeyOK is set when the key on file is offered, before any
  signature (src/server.go:723-818): with right answers no signature is needed, and without
  questions one for any offered key is enough, where the comment at src/server.go:860 says
  that the sshd "requires *both* public key and one-time password validation".
* *Tricorder.* A keepalive whose ping is unanswered when the read times out waits for ever,
  and nothing reconnects. SSHChannel does not return after Halt; Halt "shuts down everything,
  include the cli", and nothing closes the client.
* *Known hosts.* A name that is not among those of a known key makes the callback
  lock record.Mut twice (src/sshutil.go:127 and 140), so KnownRecordMismatch is never
  returned; its caller, and the sshd's accept loop, wait until the connection ends. A
  name added between the writing of a line and AlreadySaved = true
  (src/knownhosts.go:417) is not saved; overlapping saveJSONSnappy calls can leave the
  older table. On a line that mixes names with and without a port, the name without
  one takes another's (src/knownhosts.go:264-309).
* *Tunnels.* Forward sends with the lock of the list held (X/tcpip.go:293), so a
  listener that nobody accepts on holds up Close of the others and CloseAll. A forward
  added after CloseAll is closed by nobody. The end of the mux loop alone does not
  close conn.Done(), and HandleChannelOpens then spins on a closed channel; "The
  channel is closed when the connection is closed" (X/client.go:32) is code that is
  not reached. The first end of file closes both directions: there is no half-close.
  shovel.Stop "returns only once the goroutine is done" (src/shovel.go:82), but the
  closer's MarkDone may come before io.Copy has ended. When a listener or a dial fails,
  SSHConnect, NewForward and StartNewReverse leave the connection they have open
  (src/sshutil.go:321, 395, 463). Accept returns io.EOF when its listener is closed or the
  mux loop has ended, which is not the net.OpError that StartupReverseListener expects,
  and its goroutine panics (src/sshutil.go:443).

## 6. What is not modelled

* Cryptography, key formats, certificates, message encoding: functions on bytes
  without state. Handshake has the points at which keys change, and a callback
  that may refuse.
* Generated serialisation, command line, mail, key files, the pty: pure I/O.
* The agent, terminal and knownhosts packages of xcryptossh, which sshego does not
  use.
* Sessions: Start and Wait are calls on a channel, whose requests and data are in
  Mux and SSHChannel; the commands and the pty behind them are the operating system's.
* In the modelled parts: extended data codes above 1; keys, passwords and one-time secrets
  of a user; a file of which only a part was written; Unsub, Signal, Clear and Close of the
  tower, which only tests call; keepalive pings that are answered, and the keepalives that
  SSHConnect starts (src/sshutil.go:572-579), which are in Tricorder and not in Client.
* Of authentication: the password method, which this sshd never lists; certificates
  and source addresses; the version exchange. Of known hosts: the gob format, which is
  saved as json is; markers and comments. Of tunnels: listening on local
  sockets, and forward tunnels, which differ from reverse ones in who opens the channel.
* Most lines of the repository by count. Of some 88,000 lines of Go without tests,
  60,600 are vendored packages, 3,600 the agent, terminal and other packages beside
  xcryptossh, 2,900 word lists, and 3,400 generated serialisers. What remains is
  xcryptossh with 10,300 lines, more than a third of them cryptography and encodings, and
  sshego with 6,800. The map names 5,100 lines of these, which are a fifth of
  the repository all together; section 7 says what could be added.

## 7. What could come next

1. Theorems: `RouteRight` of Mux (an id stays taken until both closes have arrived);
   `AddedIsSaved` of KnownHosts; that a channel which
   implements `ByteStream` is what Shovel copies.
2. `Session`: the exit status is reported after the output.
3. findAgreedAlgorithms and the padding of packets as operators, checked against their
   definitions over bounded inputs.
