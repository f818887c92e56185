------------------------------- MODULE UserDb -------------------------------
(***************************************************************************)
(* The user database of the embedded sshd and the processes that change    *)
(* it: user.go, filedb.go, tcplock.go, server.go, netcli.go, usermgt.go.   *)
(*                                                                         *)
(* The daemon runs two goroutines, CommandRecv.Start (cr) and Esshd.Start  *)
(* (sshd), joined by unbuffered channels.  Clients give commands to cr     *)
(* over the xport.  Admins are `gosshtun -adduser` and `-deluser`: they    *)
(* change the file themselves.  Listening on the xport is the lock of the  *)
(* file.  A database is the set of its logins; keys, passwords and their   *)
(* files are left out.  The file exists when the model starts.             *)
(***************************************************************************)
EXTENDS Naturals, FiniteSets

CONSTANTS
    Logins,       \* login names
    Uses,         \* who acts on the database, one of these per behaviour
    MaxStarts,    \* bound on the starts of the daemon
    MaxLogins     \* bound on the ssh logins it accepts

None == "none"
NoJob == [op |-> "none"]
Noted == [op |-> "login"]
Daemon == "daemon"
Command == [op : {"add", "del"}, login : Logins]

\* The file at first, the commands of the clients and of the admins, and whether
\* the daemon runs.  An admin is a process of its own.
ASSUME UsesAssumption ==
    /\ MaxStarts \in Nat /\ MaxLogins \in Nat
    /\ \A u \in Uses : /\ u.daemon \in BOOLEAN /\ u.disk \subseteq Logins
                       /\ \A c \in DOMAIN u.client : u.client[c] \in Command
                       /\ \A a \in DOMAIN u.admin : u.admin[a] \in Command
                       /\ {Daemon, None} \cap DOMAIN u.admin = {}

VARIABLES
    use,       \* the one of Uses
    disk,      \* the logins in msgp.db; {} also while the file is truncated
    port,      \* the process that listens on the xport
    mem,       \* mem[p]: HostDb.Persist.Users of process p
    admin,     \* where each admin is
    gaveUp,    \* the admins whose Lock timed out
    sshd,      \* where the goroutine of Esshd.Start is
    cr,        \* where the goroutine of CommandRecv.Start is
    conn,      \* the client whose connection cr holds
    job,       \* what sshd saves for: a command, or a login to note
    ok,        \* the answer sshd will send
    hostDb,    \* the daemon's process has a cfg.HostDb
    failed,    \* its last SaveToDisk returned an error
    lost,      \* it ended with the file truncated, or after a SaveToDisk that failed
    reqStop,   \* cr.reqStop is closed
    halt,      \* Halt.RequestStop was called
    ctx,       \* the context is cancelled
    client,    \* what each client knows
    backlog,   \* clients whose connection waits to be accepted
    starts, logins

admVars == <<admin, gaveUp>>
saveVars == <<hostDb, failed, lost>>
daemonVars == <<sshd, cr, conn, job, ok, reqStop, halt, ctx, logins, saveVars>>
clientVars == <<client, backlog>>
vars == <<use, disk, port, mem, admin, gaveUp, daemonVars, clientVars, starts>>

Clients == DOMAIN use.client
Admins == DOMAIN use.admin

Init ==
    /\ use \in Uses
    /\ disk = use.disk
    /\ port = None
    /\ mem = [p \in Admins \cup {Daemon} |-> {}]
    /\ admin = [a \in Admins |-> "start"] /\ gaveUp = {}
    /\ sshd = "down" /\ cr = "off" /\ conn = None /\ job = NoJob /\ ok = FALSE
    /\ reqStop = FALSE /\ halt = FALSE /\ ctx = FALSE
    /\ hostDb = FALSE /\ failed = FALSE /\ lost = FALSE
    /\ client = [c \in Clients |-> "idle"] /\ backlog = {}
    /\ starts = 0 /\ logins = 0

-----------------------------------------------------------------------------
(* HostDb: what the operations make of a database and of the file.          *)

\* SaveToDisk opens the file with O_TRUNC, and writes it afterwards.
Truncated == {}
Stored(p) == mem[p]

\* An empty file is read as an empty database: loadOrCreate relies on it for the
\* file that NewFiledb creates.
NewFiledb == disk
NewHostDb(p) == mem' = [mem EXCEPT ![p] = NewFiledb]

\* finishUserBuildout, which is what the daemon calls, does not look whether
\* the login exists; DelUser does.  The mutant puts the new user in a new map.
ChangedAnew(d, c) == IF c.op = "add" THEN {c.login} ELSE d \ {c.login}
Changed(d, c) == IF c.op = "add" THEN d \cup {c.login} ELSE d \ {c.login}
Refused(d, c) == c.op = "del" /\ c.login \notin d

-----------------------------------------------------------------------------
(* The daemon: NewEsshd, Esshd.Start, CommandRecv.Start.                    *)

\* A stopped server is started again with its config, whose HostDb is kept, or with
\* a new one, which loads the file.
NewEsshd ==
    /\ use.daemon /\ sshd = "down" /\ cr = "off" /\ starts < MaxStarts
    /\ starts' = starts + 1
    /\ \/ hostDb /\ UNCHANGED <<mem, failed, lost>>
       \/ NewHostDb(Daemon) /\ failed' = FALSE /\ lost' = (lost \/ failed)
    /\ hostDb' = TRUE
    /\ sshd' = "new" /\ reqStop' = FALSE /\ halt' = FALSE /\ ctx' = FALSE
    /\ conn' = None /\ job' = NoJob /\ ok' = FALSE
    /\ UNCHANGED <<use, disk, port, admVars, cr, logins, clientVars>>

\* The process of the daemon ends, and with it what it had in memory; the system
\* closes its sockets.
Dies ==
    /\ sshd' = "down" /\ cr' = "off" /\ backlog' = {}
    /\ port' = IF port = Daemon THEN None ELSE port
    /\ hostDb' = FALSE /\ failed' = FALSE
    /\ lost' = (lost \/ failed \/ sshd = "save")

\* CommandRecv takes the xport, or 100 ms pass and Start panics.
StartTakesXport ==
    /\ sshd = "new" /\ port = None
    /\ port' = Daemon
    /\ sshd' = "listen" /\ cr' = "accept"
    /\ UNCHANGED <<use, disk, mem, admVars, conn, job, ok, reqStop, halt, ctx,
                   logins, clientVars, starts, saveVars>>

StartPanics ==
    /\ sshd = "new" /\ port # None
    /\ Dies
    /\ UNCHANGED <<use, disk, mem, admVars, conn, job, ok, reqStop, halt, ctx, logins,
                   client, starts>>

\* net.Listen on the address of the sshd.  When it fails the goroutine ends, and
\* neither reqStop nor Halt.Done is closed.
Listen ==
    /\ sshd = "listen"
    /\ sshd' \in {"loop", "deaf"}
    /\ UNCHANGED <<use, disk, port, mem, admVars, cr, conn, job, ok, reqStop, halt,
                   ctx, logins, clientVars, starts, saveVars>>

\* The deferred cleanup of the goroutine.
SshdJustReturns == sshd' = "done" /\ UNCHANGED reqStop
SshdReturns == sshd' = "done" /\ reqStop' = TRUE

\* The polls after a timeout of Accept: the context or Halt...
PollStop ==
    /\ sshd = "loop" /\ (ctx \/ halt)
    /\ SshdReturns
    /\ UNCHANGED <<use, disk, port, mem, admVars, cr, conn, job, ok, halt, ctx,
                   logins, clientVars, starts, saveVars>>

\* ... or a command, which changes the database and goes on to save it, or is
\* refused.  The mutants let CommandRecv go on without the answer, or do not save
\* what they delete.
PollCommandHasty ==
    LET c == use.client[conn] IN
    /\ sshd = "loop" /\ cr = "deliver"
    /\ cr' \in {"await", "accept"}
    /\ job' = c /\ ok' = ~Refused(mem[Daemon], c)
    /\ mem' = [mem EXCEPT ![Daemon] = IF ok' THEN Changed(@, c) ELSE @]
    /\ sshd' = IF ok' THEN "open" ELSE "reply"
    /\ UNCHANGED <<use, disk, port, admVars, conn, reqStop, halt, ctx, logins, clientVars,
                   starts, saveVars>>
PollCommandKeepsFile ==
    LET c == use.client[conn] IN
    /\ sshd = "loop" /\ cr = "deliver"
    /\ cr' = "await"
    /\ job' = c /\ ok' = ~Refused(mem[Daemon], c)
    /\ mem' = [mem EXCEPT ![Daemon] = IF ok' THEN Changed(@, c) ELSE @]
    /\ sshd' = IF ok' /\ c.op # "del" THEN "open" ELSE "reply"
    /\ UNCHANGED <<use, disk, port, admVars, conn, reqStop, halt, ctx, logins, clientVars,
                   starts, saveVars>>
PollCommand ==
    LET c == use.client[conn] IN
    /\ sshd = "loop" /\ cr = "deliver"
    /\ cr' = "await"
    /\ job' = c /\ ok' = ~Refused(mem[Daemon], c)
    /\ mem' = [mem EXCEPT ![Daemon] = IF ok' THEN Changed(@, c) ELSE @]
    /\ sshd' = IF ok' THEN "open" ELSE "reply"
    /\ UNCHANGED <<use, disk, port, admVars, conn, reqStop, halt, ctx, logins, clientVars,
                   starts, saveVars>>

\* Accept returned a connection: PerConnection authenticates it in this
\* goroutine, and saves the database to note the login or the key it saw.
AcceptLogin ==
    /\ sshd = "loop" /\ logins < MaxLogins
    /\ sshd' = "login" /\ logins' = logins + 1
    /\ UNCHANGED <<use, disk, port, mem, admVars, cr, conn, job, ok, reqStop, halt,
                   ctx, clientVars, starts, saveVars>>

NoteLogin ==
    /\ sshd = "login" /\ mem[Daemon] # {}
    /\ job' = Noted /\ sshd' = "open"
    /\ UNCHANGED <<use, disk, port, mem, admVars, cr, conn, ok, reqStop, halt, ctx, logins,
                   clientVars, starts, saveVars>>

LoginEnds ==
    /\ sshd = "login"
    /\ sshd' = "loop" /\ job' = NoJob
    /\ UNCHANGED <<use, disk, port, mem, admVars, cr, conn, ok, reqStop, halt,
                   ctx, logins, clientVars, starts, saveVars>>

\* SaveToDisk: os.OpenFile with O_TRUNC, ...
OpenFile ==
    /\ sshd = "open"
    /\ disk' = Truncated /\ sshd' = "save"
    /\ UNCHANGED <<use, port, mem, admVars, cr, conn, job, ok, reqStop, halt, ctx,
                   logins, clientVars, starts, saveVars>>

\* ... then the json file, and then what is in memory.
SaveToDisk ==
    /\ sshd = "save"
    /\ disk' = Stored(Daemon)
    /\ sshd' = IF job = Noted THEN "login" ELSE "reply"
    /\ failed' = FALSE
    /\ UNCHANGED <<use, port, mem, admVars, cr, conn, job, ok, reqStop, halt, ctx,
                   logins, clientVars, starts, hostDb, lost>>

\* One of its error returns, before or after the truncation.  The callers of a login
\* ignore it, DelUser's answers that the command failed, finishUserBuildout's panics.
SaveFails ==
    /\ sshd \in {"open", "save"}
    /\ \/ /\ job = Noted
          /\ sshd' = "login" /\ failed' = TRUE
          /\ UNCHANGED <<ok, cr, port, backlog, hostDb, lost>>
       \/ /\ job.op = "del"
          /\ sshd' = "reply" /\ ok' = FALSE /\ failed' = TRUE
          /\ UNCHANGED <<cr, port, backlog, hostDb, lost>>
       \/ job.op = "add" /\ Dies /\ UNCHANGED ok
    /\ UNCHANGED <<use, disk, mem, admVars, conn, job, reqStop, halt, ctx, logins, client,
                   starts>>

\* replyWithCreatedUser and replyWithDeletedDone meet cr, which writes the answer
\* to the connection it holds.
Answered(c) == [client EXCEPT ![c] = IF @ # "sent" THEN @
                                     ELSE IF ok THEN "ok" ELSE "failed"]
Reply ==
    /\ sshd = "reply" /\ cr = "await" /\ job.op = use.client[conn].op
    /\ sshd' = "loop" /\ cr' = "accept" /\ conn' = None /\ job' = NoJob
    /\ client' = Answered(conn)
    /\ UNCHANGED <<use, disk, port, mem, admVars, ok, reqStop, halt, ctx, logins,
                   backlog, starts, saveVars>>

ReplyHalted ==
    /\ sshd = "reply" /\ halt
    /\ SshdReturns
    /\ UNCHANGED <<use, disk, port, mem, admVars, cr, conn, job, ok, halt, ctx,
                   logins, clientVars, starts, saveVars>>

\* cr accepts a connection and reads a whole command from it, or drops it.
Accept(c) ==
    /\ cr = "accept" /\ c \in backlog
    /\ backlog' = backlog \ {c}
    /\ \/ cr' = "deliver" /\ conn' = c
       \/ UNCHANGED <<cr, conn>>
    /\ UNCHANGED <<use, disk, port, mem, admVars, sshd, job, ok, reqStop, halt, ctx,
                   logins, client, starts, saveVars>>

\* time.After(10 * time.Second): cr goes on to wait for an answer all the same.
DeliverTimesOut ==
    /\ cr = "deliver"
    /\ cr' = "await"
    /\ UNCHANGED <<use, disk, port, mem, admVars, sshd, conn, job, ok, reqStop, halt,
                   ctx, logins, clientVars, starts, saveVars>>

\* cr sees reqStop or the context, at every wait; it unlocks the xport.
CommandRecvStops ==
    /\ cr \in {"accept", "deliver", "await"} /\ (reqStop \/ ctx)
    /\ cr' = "off" /\ port' = None /\ backlog' = {}
    /\ UNCHANGED <<use, disk, mem, admVars, sshd, conn, job, ok, reqStop, halt, ctx,
                   logins, client, starts, saveVars>>

\* Callers: Esshd.Stop, the cancellation of the context, and the end of a
\* stopped server, which may be started again.
Stop ==
    /\ sshd \notin {"down", "new"} /\ ~halt
    /\ halt' = TRUE
    /\ UNCHANGED <<use, disk, port, mem, admVars, sshd, cr, conn, job, ok, reqStop,
                   ctx, logins, clientVars, starts, saveVars>>

CancelCtx ==
    /\ sshd \notin {"down", "new"} /\ ~ctx
    /\ ctx' = TRUE
    /\ UNCHANGED <<use, disk, port, mem, admVars, sshd, cr, conn, job, ok, reqStop,
                   halt, logins, clientVars, starts, saveVars>>

StopDone ==
    /\ sshd = "done" /\ port # Daemon
    /\ sshd' = "down"
    /\ UNCHANGED <<use, disk, port, mem, admVars, cr, conn, job, ok, reqStop, halt,
                   ctx, logins, clientVars, starts, saveVars>>

\* The daemon is killed, or panics.
Crash ==
    /\ sshd # "down"
    /\ Dies
    /\ UNCHANGED <<use, disk, mem, admVars, conn, job, ok, reqStop, halt, ctx, logins,
                   client, starts>>

-----------------------------------------------------------------------------
(* TcpClientUserAdd and TcpClientUserDel.                                   *)

Dial(c) ==
    /\ client[c] = "idle"
    /\ IF port = Daemon
       THEN client' = [client EXCEPT ![c] = "sent"] /\ backlog' = backlog \cup {c}
       ELSE client' = [client EXCEPT ![c] = "panic"] /\ UNCHANGED backlog
    /\ UNCHANGED <<use, disk, port, mem, admVars, daemonVars, starts>>

\* The deadline of 10 s, or a closed connection.  What was sent can still be read.
ReadFails(c) ==
    /\ client[c] = "sent"
    /\ client' = [client EXCEPT ![c] = "panic"]
    /\ UNCHANGED <<use, disk, port, mem, admVars, daemonVars, backlog, starts>>

-----------------------------------------------------------------------------
(* AddUserAndExit and DelUserAndExit.                                       *)

\* AddUserAndExit reads the database first, DelUserAndExit after Lock.
AdminStart(a) ==
    /\ admin[a] = "start"
    /\ IF use.admin[a].op = "add"
       THEN /\ NewHostDb(a)
            /\ admin' = [admin EXCEPT ![a] =
                             IF use.admin[a].login \in disk THEN "exit1" ELSE "lock"]
       ELSE admin' = [admin EXCEPT ![a] = "lock"] /\ UNCHANGED mem
    /\ UNCHANGED <<use, gaveUp, disk, port, daemonVars, clientVars, starts>>

\* TcpPort.Lock.  After 5 s it returns an error that is not
\* ErrCouldNotAquirePort: the caller changes the database in both cases.
LockShared(a) ==
    /\ admin[a] = "lock" /\ port # Daemon
    /\ port' = a /\ admin' = [admin EXCEPT ![a] = "locked"]
    /\ UNCHANGED <<use, gaveUp, disk, mem, daemonVars, clientVars, starts>>
Lock(a) ==
    /\ admin[a] = "lock" /\ port = None
    /\ port' = a /\ admin' = [admin EXCEPT ![a] = "locked"]
    /\ UNCHANGED <<use, gaveUp, disk, mem, daemonVars, clientVars, starts>>
LockTimesOut(a) ==
    /\ admin[a] = "lock" /\ port # None
    /\ admin' = [admin EXCEPT ![a] = "locked"] /\ gaveUp' = gaveUp \cup {a}
    /\ UNCHANGED <<use, disk, port, mem, daemonVars, clientVars, starts>>

AdminLoads(a) ==
    /\ admin[a] = "locked" /\ use.admin[a].op = "del"
    /\ NewHostDb(a)
    /\ admin' = [admin EXCEPT ![a] = "read"]
    /\ UNCHANGED <<use, gaveUp, disk, port, daemonVars, clientVars, starts>>

Release(a) == port' = IF port = a THEN None ELSE port

\* HostDb.AddUser and HostDb.DelUser up to SaveToDisk.
AdminChanges(a) ==
    LET c == use.admin[a] IN
    /\ admin[a] = IF c.op = "add" THEN "locked" ELSE "read"
    /\ IF Refused(mem[a], c)
       THEN /\ admin' = [admin EXCEPT ![a] = "exit1"]
            /\ Release(a)
            /\ UNCHANGED mem
       ELSE /\ mem' = [mem EXCEPT ![a] = Changed(@, c)]
            /\ admin' = [admin EXCEPT ![a] = "open"]
            /\ UNCHANGED port
    /\ UNCHANGED <<use, gaveUp, disk, daemonVars, clientVars, starts>>

\* SaveToDisk, which truncates the file, writes it, or fails before or after the
\* truncation; then Unlock.
AdminOpens(a) ==
    /\ admin[a] = "open"
    /\ disk' = Truncated
    /\ admin' = [admin EXCEPT ![a] = "save"]
    /\ UNCHANGED <<use, gaveUp, port, mem, daemonVars, clientVars, starts>>
AdminSaves(a) ==
    /\ admin[a] = "save"
    /\ disk' = Stored(a)
    /\ admin' = [admin EXCEPT ![a] = "saved"]
    /\ UNCHANGED <<use, gaveUp, port, mem, daemonVars, clientVars, starts>>
AdminSaveFails(a) ==
    /\ admin[a] \in {"open", "save"}
    /\ admin' = [admin EXCEPT ![a] = IF @ = "open" THEN "exit1" ELSE "failed"]
    /\ Release(a)
    /\ UNCHANGED <<use, gaveUp, disk, mem, daemonVars, clientVars, starts>>
Unlock(a) ==
    /\ admin[a] = "saved"
    /\ Release(a)
    /\ admin' = [admin EXCEPT ![a] = "exit0"]
    /\ UNCHANGED <<use, gaveUp, disk, mem, daemonVars, clientVars, starts>>

\* An admin is killed.
Kill(a) ==
    /\ admin[a] \notin {"start", "exit0", "exit1", "failed", "killed"}
    /\ admin' = [admin EXCEPT ![a] = "killed"]
    /\ Release(a)
    /\ UNCHANGED <<use, gaveUp, disk, mem, daemonVars, clientVars, starts>>

-----------------------------------------------------------------------------
Next ==
    \/ NewEsshd \/ StartTakesXport \/ StartPanics \/ Listen
    \/ PollStop \/ PollCommand \/ AcceptLogin \/ NoteLogin \/ LoginEnds
    \/ OpenFile \/ SaveToDisk \/ SaveFails \/ Reply \/ ReplyHalted
    \/ \E c \in Clients : Accept(c) \/ Dial(c) \/ ReadFails(c)
    \/ DeliverTimesOut \/ CommandRecvStops
    \/ Stop \/ CancelCtx \/ StopDone \/ Crash
    \/ \E a \in Admins : \/ AdminStart(a) \/ Lock(a) \/ LockTimesOut(a)
                         \/ AdminLoads(a) \/ AdminChanges(a) \/ AdminOpens(a)
                         \/ AdminSaves(a) \/ AdminSaveFails(a) \/ Unlock(a) \/ Kill(a)

Spec == Init /\ [][Next]_vars

\* The two goroutines of the daemon run.  Nothing is assumed of clients, admins,
\* logins and callers.
FairSpec ==
    /\ Spec
    /\ WF_vars(Listen) /\ WF_vars(PollStop)
    /\ WF_vars(OpenFile \/ SaveToDisk \/ SaveFails)
    /\ WF_vars(Reply \/ ReplyHalted) /\ WF_vars(CommandRecvStops)

-----------------------------------------------------------------------------
\* Everything has its type; one process listens on the xport, and it is one that
\* took it and has not closed it (TcpPort).
TypeOK ==
    /\ use \in Uses /\ disk \subseteq Logins
    /\ port \in Admins \cup {Daemon, None}
    /\ mem \in [Admins \cup {Daemon} -> SUBSET Logins]
    /\ admin \in [Admins -> {"start", "lock", "locked", "read", "open", "save", "saved",
                              "exit0", "exit1", "failed", "killed"}]
    /\ gaveUp \subseteq Admins
    /\ sshd \in {"down", "new", "listen", "deaf", "loop", "login", "open", "save",
                  "reply", "done"}
    /\ cr \in {"off", "accept", "deliver", "await"}
    /\ conn \in Clients \cup {None} /\ job \in Command \cup {NoJob, Noted}
    /\ {ok, reqStop, halt, ctx, hostDb, failed, lost} \subseteq BOOLEAN
    /\ client \in [Clients -> {"idle", "sent", "ok", "failed", "panic"}]
    /\ backlog \subseteq Clients
    /\ starts \in 0..MaxStarts /\ logins \in 0..MaxLogins
    /\ port = Daemon <=> cr # "off"

Alone == Admins = {}

\* The daemon holds the xport exactly while CommandRecv runs (TypeOK); and as long as no
\* other process changes the file, it holds the database of the daemon whenever sshd is not
\* within SaveToDisk and the last SaveToDisk did not fail: also after a stop or a crash
\* anywhere and a new start, and again after the first save that succeeds (NewEsshd, save).
DiskIsMemory ==
    /\ TypeOK
    /\ Alone /\ hostDb /\ sshd \notin {"open", "save"} /\ ~failed => disk = mem[Daemon]

\* The users the file had at first and those whose creation was confirmed to a client,
\* without those somebody asked to delete.
Enrolled ==
    {l \in Logins :
        /\ \/ l \in use.disk
           \/ \E c \in Clients : client[c] = "ok" /\ use.client[c] = [op |-> "add", login |-> l]
        /\ \A c \in Clients : use.client[c] = [op |-> "del", login |-> l] => client[c] = "idle"}

\* The daemon forgets no user nobody asked to delete, whatever is added, deleted or noted
\* beside it and wherever it is stopped, killed and started again; except when its process
\* ended between the truncation and the writing of the file, or after a SaveToDisk that
\* failed and before one that succeeded (SaveToDisk, loadOrCreate, DelUser).
UsersKept == Alone /\ hostDb /\ ~lost => Enrolled \subseteq mem[Daemon]

\* A client that is told its command was carried out can rely on it: the file then has the
\* login it added or lacks the login it deleted.  Only a deletion is told of a failure: the
\* daemon does not know the login, or no longer, and the file has it only if the database
\* could not be saved (CommandRecv.Start, Esshd.Start, DelUser).
ReplyTrue ==
    [][\A c \in Clients :
          LET cmd == use.client[c] IN
          Alone /\ client'[c] # client[c] =>
             /\ client'[c] = "ok" => (cmd.login \in disk <=> cmd.op = "add")
             /\ client'[c] = "failed" => /\ cmd.op = "del" /\ cmd.login \notin mem[Daemon]
                                         /\ cmd.login \in disk => failed]_vars

\* `-deluser` processes that each got the xport, as DelUserAndExit intends, and of which
\* none was killed or failed after it truncated the file, delete their logins and no
\* other, whatever their order.
DelsSerial ==
    /\ ~use.daemon
    /\ \A a \in Admins : /\ use.admin[a].op = "del" /\ a \notin gaveUp
                        /\ admin[a] \notin {"save", "failed", "killed"}
    => disk = use.disk \ {use.admin[a].login :
                             a \in {x \in Admins : admin[x] \in {"saved", "exit0"}}}

\* Esshd.Stop on a server that listens ends both goroutines and frees the xport,
\* provided that no login is stuck in its handshake, whatever commands and answers
\* are on their way (Esshd.Stop, the deferred cleanup, CommandRecv.Start).
LoginsEnd == []<>(sshd # "login" /\ job # Noted)
StopEnds ==
    LoginsEnd =>
       ((halt /\ sshd \in {"loop", "login", "open", "save", "reply", "done"})
          ~> (sshd \in {"done", "down"} /\ port # Daemon))

\* "There should only one writer to disk at a time" (HostDb.save).
OneWriter ==
    Cardinality({a \in Admins : admin[a] = "save"} \cup
                {d \in {Daemon} : sshd = "save"}) <= 1
=============================================================================
