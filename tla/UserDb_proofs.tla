---------------------------- MODULE UserDb_proofs ----------------------------
(***************************************************************************)
(* What is proved of the user database, for any logins, commands, number   *)
(* of processes, starts and logins.                                        *)
(*                                                                         *)
(* DiskIsMemory and ReplyTrue rest on ServeInv: from the moment Esshd.Start*)
(* takes a command until it answers, CommandRecv either waits for that     *)
(* answer with the connection of that client, or has ended.  UsersKept     *)
(* adds KeptInv: outside the time in which the file is truncated, the file *)
(* has the enrolled users too.  DelsSerial rests on SerialInv: a process   *)
(* between Lock and Unlock holds the xport, and what it has read or is     *)
(* about to write is what the processes before it left.                    *)
(***************************************************************************)
EXTENDS UserDb, TLAPS

AdminAt == {"start", "lock", "locked", "read", "open", "save", "saved", "exit0", "exit1",
            "failed", "killed"}

\* The daemon works on a command of a client.
OnCommand == sshd \in {"open", "save", "reply"} /\ job # Noted

\* The command was carried out in memory, or the login to delete is not there.
CommandDone ==
    IF ok THEN job.login \in mem[Daemon] <=> job.op = "add"
          ELSE job.op = "del" /\ job.login \notin mem[Daemon]

ServeInv ==
    /\ sshd \in {"down", "new"} => cr = "off"
    /\ sshd # "down" => hostDb
    /\ cr \in {"deliver", "await"} => conn \in Clients
    /\ sshd = "reply" => job # Noted /\ (ok => ~failed)
    /\ OnCommand => job \in Command /\ CommandDone
    /\ OnCommand /\ cr # "off" => cr = "await" /\ job = use.client[conn]

DaemonInv == DiskIsMemory /\ ServeInv

\* A command that is on its way was given; and the enrolled users are in the file as well,
\* outside the time in which it is truncated.
KeptInv ==
    /\ \A c \in backlog : client[c] # "idle"
    /\ cr = "deliver" => client[conn] # "idle"
    /\ Alone /\ ~lost => /\ hostDb => Enrolled \subseteq mem[Daemon]
                         /\ ~failed /\ sshd # "save" => Enrolled \subseteq disk

\* Only `-deluser` processes run; each got the xport and none was killed or failed
\* after it had truncated the file.
OnlyDels ==
    /\ ~use.daemon
    /\ \A a \in Admins : use.admin[a].op = "del" /\ a \notin gaveUp /\ admin[a] \notin {"failed", "killed"}

\* What is left when those that have saved have deleted their logins.
Left == use.disk \ {use.admin[a].login :
                       a \in {x \in Admins : admin[x] \in {"saved", "exit0"}}}

\* Between Lock and Unlock.
Holding == {"locked", "read", "open", "save", "saved"}

SerialInv ==
    /\ ~use.daemon => sshd = "down"
    /\ OnlyDels =>
          /\ \A a \in Admins : /\ admin[a] \in Holding => port = a
                               /\ admin[a] = "read" => mem[a] = Left
                               /\ admin[a] \in {"open", "save"} => mem[a] = Left \ {use.admin[a].login}
          /\ (\A a \in Admins : admin[a] # "save") => disk = Left

UserDbInv == DaemonInv /\ SerialInv

-----------------------------------------------------------------------------
\* What the assumption says of the one use of a behaviour.
LEMMA UseFacts ==
    ASSUME TypeOK
    PROVE  /\ use.disk \subseteq Logins
           /\ \A c \in Clients : use.client[c] \in Command
           /\ \A a \in Admins : use.admin[a] \in Command /\ a # Daemon /\ a # None
<1>1. use \in Uses
    BY Zenon DEF TypeOK
<1>2. {Daemon, None} \cap DOMAIN use.admin = {}
    BY <1>1, UsesAssumption, Zenon
<1> QED
    BY <1>1, <1>2, UsesAssumption, Zenon DEF Clients, Admins

\* A command changes a database of logins into another one.
LEMMA CommandFacts ==
    ASSUME NEW c \in Command, NEW d \in SUBSET Logins
    PROVE  /\ Changed(d, c) \in SUBSET Logins
           /\ c # Noted /\ c # NoJob
           /\ c.op \in {"add", "del"} /\ c.login \in Logins
           /\ ~Refused(d, c) => (c.login \in Changed(d, c) <=> c.op = "add")
<1>1. c.op \in {"add", "del"} /\ c.login \in Logins
    BY Zenon DEF Command
<1>2. c # Noted /\ c # NoJob
    BY <1>1 DEF Noted, NoJob
<1> QED
    BY <1>1, <1>2, Zenon DEF Changed, Refused

-----------------------------------------------------------------------------
(* Types. *)


\* Who acts on the daemon's behalf, or beside it.
ClientStep(c) == Accept(c) \/ Dial(c) \/ ReadFails(c)
AdminStep(a) ==
    \/ AdminStart(a) \/ Lock(a) \/ LockTimesOut(a) \/ AdminLoads(a)
    \/ AdminChanges(a) \/ AdminOpens(a) \/ AdminSaves(a) \/ AdminSaveFails(a)
    \/ Unlock(a) \/ Kill(a)
DaemonStep ==
    \/ NewEsshd \/ StartTakesXport \/ StartPanics \/ Listen
    \/ PollStop \/ PollCommand \/ AcceptLogin \/ NoteLogin \/ LoginEnds
    \/ OpenFile \/ SaveToDisk \/ SaveFails \/ Reply \/ ReplyHalted
    \/ DeliverTimesOut \/ CommandRecvStops
    \/ Stop \/ CancelCtx \/ StopDone \/ Crash

\* A step of the daemon keeps the types.
LEMMA DaemonTypes ==
    ASSUME TypeOK, ServeInv, DaemonStep
    PROVE  TypeOK'
<1> USE DEF admVars, daemonVars, saveVars, clientVars, Clients, Admins, SshdReturns, NewHostDb, NewFiledb, Truncated, Stored
<1>0. ASSUME Dies PROVE /\ port' \in Admins \cup {Daemon, None} /\ port' # Daemon
                       /\ sshd' = "down" /\ cr' = "off" /\ backlog' = {}
                       /\ {hostDb', failed', lost'} \subseteq BOOLEAN
    BY <1>0, Zenon DEF TypeOK, Dies, None, Daemon
<1>1. CASE NewEsshd
  <2>1. mem' \in [Admins \cup {Daemon} -> SUBSET Logins] /\ starts' \in 0..MaxStarts
    BY <1>1, UsesAssumption DEF TypeOK, NewEsshd
  <2>2. {hostDb', failed', lost'} \subseteq BOOLEAN
    BY <1>1, Zenon DEF TypeOK, NewEsshd
  <2> QED
    BY <1>1, <2>1, <2>2, Zenon DEF TypeOK, NewEsshd
<1>2. CASE StartTakesXport
    BY <1>2, UseFacts, CommandFacts, UsesAssumption, Zenon DEF TypeOK, StartTakesXport
<1>3. CASE StartPanics
    BY <1>0, <1>3, Zenon DEF TypeOK, StartPanics
<1>4. CASE Listen
    BY <1>4, UseFacts, CommandFacts, UsesAssumption, Zenon DEF TypeOK, Listen
<1>5. CASE PollStop
    BY <1>5, UseFacts, CommandFacts, UsesAssumption, Zenon DEF TypeOK, PollStop
<1>6. CASE PollCommand
  <2> DEFINE c == use.client[conn]
  <2>1. conn \in Clients /\ c \in Command
    BY <1>6, UseFacts, Zenon DEF PollCommand, ServeInv
  <2>2. mem[Daemon] \in SUBSET Logins
    BY Zenon DEF TypeOK
  <2>3. Changed(mem[Daemon], c) \in SUBSET Logins
    BY <2>1, <2>2, CommandFacts, Zenon
  <2> HIDE DEF c
  <2>4. mem' \in [Admins \cup {Daemon} -> SUBSET Logins]
    BY <1>6, <2>3, Zenon DEF TypeOK, PollCommand, c
  <2>5. job' \in Command /\ ok' \in BOOLEAN /\ cr' = "await" /\ cr = "deliver"
    BY <1>6, <2>1, Zenon DEF PollCommand, c, Refused
  <2>6. sshd' \in {"open", "reply"}
    BY <1>6, Zenon DEF TypeOK, PollCommand
  <2> QED
    BY <1>6, <2>4, <2>5, <2>6, Zenon DEF TypeOK, PollCommand
<1>7. CASE AcceptLogin
    BY <1>7, UseFacts, CommandFacts, UsesAssumption DEF TypeOK, AcceptLogin
<1>8. CASE NoteLogin
    BY <1>8, UseFacts, CommandFacts, UsesAssumption, Zenon DEF TypeOK, NoteLogin
<1>9. CASE LoginEnds
    BY <1>9, UseFacts, CommandFacts, UsesAssumption, Zenon DEF TypeOK, LoginEnds
<1>10. CASE SaveToDisk
    BY <1>10, UseFacts, CommandFacts, UsesAssumption, Zenon DEF TypeOK, SaveToDisk
<1>19. CASE OpenFile
    BY <1>19, Zenon DEF TypeOK, OpenFile
<1>20. CASE SaveFails
  <2>1. CASE Dies /\ UNCHANGED ok
    BY <1>0, <1>20, <2>1, Zenon DEF TypeOK, SaveFails
  <2>2. CASE UNCHANGED <<cr, port, backlog, hostDb, lost>>
    <3>1. sshd' \in {"login", "reply", "down"} /\ ok' \in BOOLEAN /\ failed' \in BOOLEAN
        BY <1>20, Zenon DEF TypeOK, SaveFails, Dies
    <3> QED
        BY <1>20, <2>2, <3>1, Zenon DEF TypeOK, SaveFails
  <2> QED
    BY <1>20, <2>1, <2>2, Zenon DEF SaveFails
<1>11. CASE Reply
  <2>1. client' \in [Clients -> {"idle", "sent", "ok", "failed", "panic"}]
    BY <1>11, Zenon DEF TypeOK, Reply, Answered
  <2> QED
    BY <1>11, <2>1, Zenon DEF TypeOK, Reply
<1>12. CASE ReplyHalted
    BY <1>12, UseFacts, CommandFacts, UsesAssumption, Zenon DEF TypeOK, ReplyHalted
<1>13. CASE DeliverTimesOut
    BY <1>13, UseFacts, CommandFacts, UsesAssumption, Zenon DEF TypeOK, DeliverTimesOut
<1>14. CASE CommandRecvStops
    BY <1>14, Zenon DEF TypeOK, CommandRecvStops, None, Daemon
<1>15. CASE Stop
    BY <1>15, UseFacts, CommandFacts, UsesAssumption DEF TypeOK, Stop
<1>16. CASE CancelCtx
    BY <1>16, UseFacts, CommandFacts, UsesAssumption, Zenon DEF TypeOK, CancelCtx
<1>17. CASE StopDone
    BY <1>17, UseFacts, CommandFacts, UsesAssumption, Zenon DEF TypeOK, StopDone
<1>18. CASE Crash
    BY <1>0, <1>18, Zenon DEF TypeOK, Crash
<1> QED
    BY <1>1, <1>2, <1>3, <1>4, <1>5, <1>6, <1>7, <1>8, <1>9, <1>10, <1>11, <1>12, <1>13, <1>14, <1>15, <1>16,
        <1>17, <1>18, <1>19, <1>20, Zenon DEF DaemonStep

\* A step of a client or of an admin keeps them too.
LEMMA OthersTypes ==
    ASSUME TypeOK, (\E c \in Clients : ClientStep(c)) \/ (\E a \in Admins : AdminStep(a))
    PROVE  TypeOK'
<1> USE DEF admVars, daemonVars, saveVars, clientVars, Clients, Admins, NewHostDb, NewFiledb, Truncated, Stored
<1>1. ASSUME NEW c \in Clients, ClientStep(c) PROVE TypeOK'
  <2>1. CASE Accept(c)
    BY <2>1, Zenon DEF TypeOK, Accept
  <2>2. CASE Dial(c)
    BY <2>2, Zenon DEF TypeOK, Dial
  <2>3. CASE ReadFails(c)
    BY <2>3 DEF TypeOK, ReadFails
  <2> QED
    BY <1>1, <2>1, <2>2, <2>3, Zenon DEF ClientStep
<1>2. ASSUME NEW a \in Admins, AdminStep(a) PROVE TypeOK'
  <2>1. CASE AdminStart(a)
    BY <2>1, UseFacts, CommandFacts DEF TypeOK, AdminStart
  <2>2. CASE Lock(a)
    <3>1. a # Daemon /\ None # Daemon
        BY UseFacts, Zenon DEF None, Daemon
    <3> QED
        BY <2>2, <3>1, Zenon DEF TypeOK, Lock
  <2>3. CASE LockTimesOut(a)
    BY <2>3, UseFacts, CommandFacts, Zenon DEF TypeOK, LockTimesOut
  <2>4. CASE AdminLoads(a)
    BY <2>4, UseFacts, CommandFacts DEF TypeOK, AdminLoads
  <2>5. CASE AdminChanges(a)
    <3>1. a # Daemon /\ None # Daemon /\ use.admin[a] \in Command /\ mem[a] \in SUBSET Logins
        BY UseFacts, Zenon DEF None, Daemon, TypeOK
    <3>2. Changed(mem[a], use.admin[a]) \in SUBSET Logins
        BY <3>1, CommandFacts, Zenon
    <3>3. mem' \in [Admins \cup {Daemon} -> SUBSET Logins]
        BY <2>5, <3>2, Zenon DEF TypeOK, AdminChanges
    <3>4. /\ port' \in Admins \cup {Daemon, None}
          /\ port' = Daemon <=> port = Daemon
        BY <2>5, <3>1, Zenon DEF TypeOK, AdminChanges, Release
    <3>5. admin' \in [Admins -> AdminAt]
        BY <2>5, Zenon DEF TypeOK, AdminChanges, AdminAt
    <3> QED
        BY <2>5, <3>3, <3>4, <3>5, Zenon DEF TypeOK, AdminChanges, AdminAt
  <2>6. CASE AdminSaves(a)
    BY <2>6, UseFacts, CommandFacts, Zenon DEF TypeOK, AdminSaves
  <2>7. CASE Unlock(a)
    <3>1. a # Daemon /\ None # Daemon
        BY UseFacts, Zenon DEF None, Daemon
    <3>2. /\ port' \in Admins \cup {Daemon, None}
          /\ port' = Daemon <=> port = Daemon
        BY <2>7, <3>1, Zenon DEF TypeOK, Unlock, Release
    <3> QED
        BY <2>7, <3>2, Zenon DEF TypeOK, Unlock
  <2>8. CASE Kill(a)
    <3>1. a # Daemon /\ None # Daemon
        BY UseFacts, Zenon DEF None, Daemon
    <3>2. /\ port' \in Admins \cup {Daemon, None}
          /\ port' = Daemon <=> port = Daemon
        BY <2>8, <3>1, Zenon DEF TypeOK, Kill, Release
    <3> QED
        BY <2>8, <3>2, Zenon DEF TypeOK, Kill
  <2>9. CASE AdminOpens(a)
    BY <2>9, Zenon DEF TypeOK, AdminOpens
  <2>10. CASE AdminSaveFails(a)
    <3>1. a # Daemon /\ None # Daemon
        BY UseFacts, Zenon DEF None, Daemon
    <3>2. /\ port' \in Admins \cup {Daemon, None}
          /\ port' = Daemon <=> port = Daemon
        BY <2>10, <3>1, Zenon DEF TypeOK, AdminSaveFails, Release
    <3>3. admin' \in [Admins -> AdminAt]
        BY <2>10, Zenon DEF TypeOK, AdminSaveFails, AdminAt
    <3> QED
        BY <2>10, <3>2, <3>3, Zenon DEF TypeOK, AdminSaveFails, AdminAt
  <2> QED
    BY <1>2, <2>1, <2>2, <2>3, <2>4, <2>5, <2>6, <2>7, <2>8, <2>9, <2>10, Zenon DEF AdminStep
<1> QED
    BY <1>1, <1>2, Zenon

-----------------------------------------------------------------------------
(* The daemon. *)

\* A step of the daemon keeps what it knows of the command it works on.
LEMMA DaemonServes ==
    ASSUME TypeOK, ServeInv, DaemonStep
    PROVE  ServeInv'
<1> USE DEF Clients, SshdReturns, NewHostDb, Stored, saveVars
<1>1. CASE NewEsshd
    BY <1>1, Zenon DEF TypeOK, NewEsshd, ServeInv, OnCommand, CommandDone
<1>2. CASE StartTakesXport
    BY <1>2, Zenon DEF TypeOK, StartTakesXport, ServeInv, OnCommand, CommandDone
<1>3. CASE StartPanics
    BY <1>3, Zenon DEF TypeOK, StartPanics, Dies, ServeInv, OnCommand, CommandDone
<1>4. CASE Listen
    BY <1>4, Zenon DEF TypeOK, Listen, ServeInv, OnCommand, CommandDone
<1>5. CASE PollStop
    BY <1>5, Zenon DEF TypeOK, PollStop, ServeInv, OnCommand, CommandDone
<1>6. CASE PollCommand
  <2> DEFINE c == use.client[conn]
  <2>1. conn \in Clients /\ c \in Command /\ mem[Daemon] \in SUBSET Logins
    BY <1>6, UseFacts, Zenon DEF PollCommand, ServeInv, TypeOK
  <2>2. /\ c # Noted /\ c.op \in {"add", "del"}
        /\ ~Refused(mem[Daemon], c) => (c.login \in Changed(mem[Daemon], c) <=> c.op = "add")
    BY <2>1, CommandFacts, Zenon
  <2>3. /\ job' = c /\ cr' = "await" /\ conn' = conn /\ use' = use
        /\ ok' = ~Refused(mem[Daemon], c) /\ sshd' = IF ok' THEN "open" ELSE "reply"
        /\ hostDb' = hostDb /\ sshd # "down"
        /\ mem'[Daemon] = IF ok' THEN Changed(mem[Daemon], c) ELSE mem[Daemon]
    BY <1>6, Zenon DEF PollCommand, TypeOK
  <2>4. CommandDone'
    BY <2>2, <2>3, Zenon DEF CommandDone, Refused
  <2> QED
    BY <2>1, <2>2, <2>3, <2>4, Zenon DEF ServeInv, OnCommand
<1>7. CASE AcceptLogin
    BY <1>7, Zenon DEF TypeOK, AcceptLogin, ServeInv, OnCommand, CommandDone
<1>8. CASE NoteLogin
    BY <1>8, Zenon DEF TypeOK, NoteLogin, ServeInv, OnCommand, CommandDone
<1>9. CASE LoginEnds
    BY <1>9, Zenon DEF TypeOK, LoginEnds, ServeInv, OnCommand, CommandDone
<1>10. CASE SaveToDisk
    BY <1>10, Zenon DEF TypeOK, SaveToDisk, ServeInv, OnCommand, CommandDone
<1>11. CASE Reply
    BY <1>11, Zenon DEF TypeOK, Reply, ServeInv, OnCommand, CommandDone
<1>12. CASE ReplyHalted
    BY <1>12, Zenon DEF TypeOK, ReplyHalted, ServeInv, OnCommand, CommandDone
<1>13. CASE DeliverTimesOut
    BY <1>13, Zenon DEF TypeOK, DeliverTimesOut, ServeInv, OnCommand, CommandDone
<1>14. CASE CommandRecvStops
    BY <1>14, Zenon DEF TypeOK, CommandRecvStops, ServeInv, OnCommand, CommandDone
<1>15. CASE Stop
    BY <1>15, Zenon DEF TypeOK, Stop, ServeInv, OnCommand, CommandDone
<1>16. CASE CancelCtx
    BY <1>16, Zenon DEF TypeOK, CancelCtx, ServeInv, OnCommand, CommandDone
<1>17. CASE StopDone
    BY <1>17, Zenon DEF TypeOK, StopDone, ServeInv, OnCommand, CommandDone
<1>18. CASE Crash
    BY <1>18, Zenon DEF TypeOK, Crash, Dies, ServeInv, OnCommand, CommandDone
<1>19. CASE OpenFile
    BY <1>19, Zenon DEF TypeOK, OpenFile, ServeInv, OnCommand, CommandDone
<1>20. CASE SaveFails
  <2>1. CASE Dies
    BY <1>20, <2>1, Zenon DEF SaveFails, Dies, ServeInv, OnCommand
  <2>2. CASE job = Noted /\ sshd' = "login" /\ UNCHANGED <<cr, hostDb>>
    BY <1>20, <2>2, Zenon DEF SaveFails, ServeInv, OnCommand
  <2>3. CASE job.op = "del" /\ sshd' = "reply" /\ ok' = FALSE /\ UNCHANGED <<cr, hostDb>>
    <3>0. job # Noted
        BY <2>3 DEF Noted
    <3>1. job # Noted /\ UNCHANGED <<use, mem, conn, job>>
        BY <1>20, <3>0, Zenon DEF SaveFails
    <3>2. OnCommand
        BY <1>20, <3>1, Zenon DEF SaveFails, OnCommand
    <3>3. job \in Command /\ job.login \notin mem[Daemon]
        BY <2>3, <3>2, Zenon DEF ServeInv, CommandDone
    <3> QED
        BY <1>20, <2>3, <3>1, <3>2, <3>3, Zenon DEF SaveFails, ServeInv, OnCommand, CommandDone
  <2> QED
    BY <1>20, <2>1, <2>2, <2>3, Zenon DEF SaveFails
<1> QED
    BY <1>1, <1>2, <1>3, <1>4, <1>5, <1>6, <1>7, <1>8, <1>9, <1>10, <1>11, <1>12, <1>13, <1>14, <1>15, <1>16,
        <1>17, <1>18, <1>19, <1>20, Zenon DEF DaemonStep

\* An admin changes its own database only.
LEMMA AdminFrame ==
    ASSUME TypeOK, NEW a \in Admins, AdminStep(a)
    PROVE  /\ UNCHANGED <<use, sshd, cr, conn, job, ok, hostDb, failed, lost, client, backlog>>
           /\ gaveUp \subseteq gaveUp' /\ admin[a] \notin {"failed", "killed"}
           /\ \A x \in (Admins \cup {Daemon}) \ {a} : mem'[x] = mem[x]
<1>1. UNCHANGED <<use, daemonVars, clientVars>>
    BY Zenon DEF AdminStep, AdminStart, Lock, LockTimesOut, AdminLoads, AdminChanges,
        AdminOpens, AdminSaves, AdminSaveFails, Release, Unlock, Kill
<1>2. gaveUp' \in {gaveUp, gaveUp \cup {a}}
    BY Zenon DEF AdminStep, AdminStart, Lock, LockTimesOut, AdminLoads, AdminChanges,
        AdminOpens, AdminSaves, AdminSaveFails, Release, Unlock, Kill
<1>3. admin[a] \notin {"failed", "killed"}
    BY Zenon DEF AdminStep, AdminStart, Lock, LockTimesOut, AdminLoads, AdminChanges,
        AdminOpens, AdminSaves, AdminSaveFails, Release, Unlock, Kill
<1>4. mem' = mem \/ \E d \in {disk, Changed(mem[a], use.admin[a])} : mem' = [mem EXCEPT ![a] = d]
    BY Zenon DEF AdminStep, AdminStart, Lock, LockTimesOut, AdminLoads, AdminChanges,
        AdminOpens, AdminSaves, AdminSaveFails, Release, Unlock, Kill, NewHostDb, NewFiledb
<1>5. mem \in [Admins \cup {Daemon} -> SUBSET Logins]
    BY Zenon DEF TypeOK
<1>6. \A x \in (Admins \cup {Daemon}) \ {a} : mem'[x] = mem[x]
    BY <1>4, <1>5, Zenon
<1> QED
    BY <1>1, <1>2, <1>3, <1>6, Zenon DEF daemonVars, saveVars, clientVars

\* Nobody else touches it.
LEMMA OthersServe ==
    ASSUME TypeOK, ServeInv,
           (\E c \in Clients : ClientStep(c)) \/ (\E a \in Admins : AdminStep(a))
    PROVE  ServeInv'
<1>1. ASSUME NEW c \in Clients, Accept(c) PROVE ServeInv'
  <2>1. /\ cr = "accept" /\ UNCHANGED <<use, mem, sshd, job, ok, hostDb, failed>>
        /\ (cr' = "deliver" /\ conn' = c) \/ UNCHANGED <<cr, conn>>
    BY <1>1, Zenon DEF Accept, saveVars
  <2>2. ~OnCommand
    BY <2>1, Zenon DEF ServeInv
  <2> QED
    BY <2>1, <2>2, Zenon DEF ServeInv, OnCommand, Clients
<1>2. ASSUME UNCHANGED <<use, sshd, job, ok, cr, conn, hostDb, failed>>, mem'[Daemon] = mem[Daemon]
      PROVE  ServeInv'
    BY <1>2, Zenon DEF ServeInv, OnCommand, CommandDone, Clients
<1>3. ASSUME NEW c \in Clients, Dial(c) \/ ReadFails(c) PROVE ServeInv'
  <2>1. UNCHANGED <<use, sshd, job, ok, cr, conn, hostDb, failed, mem>>
    BY <1>3, Zenon DEF Dial, ReadFails, daemonVars, saveVars
  <2> QED
    BY <1>2, <2>1, Zenon
<1>4. ASSUME NEW a \in Admins, AdminStep(a) PROVE ServeInv'
  <2>1. a # Daemon
    BY UseFacts, Zenon
  <2>2. mem'[Daemon] = mem[Daemon] /\ UNCHANGED <<use, sshd, job, ok, cr, conn, hostDb, failed>>
    BY <1>4, <2>1, AdminFrame, Zenon
  <2> QED
    BY <1>2, <2>2, Zenon
<1> QED
    BY <1>1, <1>3, <1>4, Zenon DEF ClientStep

\* With no admin, only the daemon writes the file, and it leaves SaveToDisk with the file
\* equal to its database or with an error.
LEMMA DiskStep ==
    ASSUME TypeOK, ServeInv, Next, Alone,
           hostDb /\ sshd \notin {"open", "save"} /\ ~failed => disk = mem[Daemon]
    PROVE  Alone' => (hostDb' /\ sshd' \notin {"open", "save"} /\ ~failed'
                        => disk' = mem'[Daemon])
<1>1. CASE DaemonStep
  <2>1. CASE NewEsshd
    <3>1. mem \in [Admins \cup {Daemon} -> SUBSET Logins] /\ sshd = "down" /\ disk' = disk
        BY <2>1, Zenon DEF NewEsshd, TypeOK
    <3>2. CASE mem' = [mem EXCEPT ![Daemon] = disk]
        BY <3>1, <3>2, Zenon
    <3>3. CASE hostDb /\ UNCHANGED <<mem, failed>>
        BY <3>1, <3>3, Zenon
    <3> QED
        BY <2>1, <3>2, <3>3, Zenon DEF NewEsshd, NewHostDb, NewFiledb
  <2>2. CASE PollCommand
    BY <2>2, Zenon DEF PollCommand, saveVars, ServeInv, TypeOK
  <2>3. CASE NoteLogin \/ OpenFile \/ SaveToDisk
    BY <2>3, Zenon DEF NoteLogin, OpenFile, SaveToDisk, Stored
  <2>4. CASE SaveFails \/ StartPanics \/ Crash
    BY <2>4, Zenon DEF SaveFails, StartPanics, Crash, Dies
  <2>5. CASE \/ StartTakesXport \/ Listen \/ PollStop \/ AcceptLogin \/ LoginEnds \/ Reply
             \/ ReplyHalted \/ DeliverTimesOut \/ CommandRecvStops \/ Stop \/ CancelCtx
             \/ StopDone
    BY <2>5, Zenon
    DEF StartTakesXport, Listen, PollStop, AcceptLogin, LoginEnds, Reply, ReplyHalted,
        DeliverTimesOut, CommandRecvStops, Stop, CancelCtx, StopDone, SshdReturns, saveVars
  <2> QED
    BY <1>1, <2>1, <2>2, <2>3, <2>4, <2>5, Zenon DEF DaemonStep
<1>2. CASE \E c \in Clients : ClientStep(c)
  <2>1. UNCHANGED <<disk, mem, sshd, hostDb, failed>>
    BY <1>2, Zenon DEF ClientStep, Accept, Dial, ReadFails, daemonVars, saveVars
  <2> QED
    BY <2>1, Zenon
<1>3. ~\E a \in Admins : AdminStep(a)
    BY Zenon DEF Alone
<1> QED
    BY <1>1, <1>2, <1>3, Zenon DEF Next, DaemonStep, ClientStep, AdminStep

\* The invariant of the daemon holds at the start.
LEMMA DaemonInit == Init => DaemonInv
<1> SUFFICES ASSUME Init PROVE DaemonInv
    BY Zenon
<1>1. TypeOK
  <2>1. use \in Uses /\ disk \subseteq Logins
    BY UsesAssumption, Zenon DEF Init
  <2>2. starts \in 0..MaxStarts /\ logins \in 0..MaxLogins
    BY UsesAssumption DEF Init
  <2>3. port # Daemon
    BY Zenon DEF Init, None, Daemon
  <2> QED
    BY <2>1, <2>2, <2>3, Zenon DEF Init, TypeOK
<1> QED
    BY <1>1, Zenon DEF Init, DaemonInv, DiskIsMemory, ServeInv, OnCommand

\* Every step keeps it.
LEMMA DaemonStepInv == DaemonInv /\ [Next]_vars => DaemonInv'
<1> SUFFICES ASSUME DaemonInv, [Next]_vars PROVE DaemonInv'
    BY Zenon
<1> USE DEF DaemonInv, DiskIsMemory
<1>1. CASE Next
  <2>1. \/ DaemonStep
        \/ \E c \in Clients : ClientStep(c)
        \/ \E a \in Admins : AdminStep(a)
    BY <1>1, Zenon DEF Next, DaemonStep, ClientStep, AdminStep
  <2>2. TypeOK' /\ ServeInv'
    BY <2>1, DaemonTypes, OthersTypes, DaemonServes, OthersServe, Zenon
  <2>3. use' = use
    BY <1>1, Zenon
    DEF Next, NewEsshd, StartTakesXport, StartPanics, Listen, PollStop, PollCommand,
        AcceptLogin, NoteLogin, LoginEnds, OpenFile, SaveToDisk, SaveFails, Reply, ReplyHalted, DeliverTimesOut,
        CommandRecvStops, Stop, CancelCtx, StopDone, Crash, Dies, Accept, Dial, ReadFails,
        AdminStart, Lock, LockTimesOut, AdminLoads, AdminChanges, AdminOpens, AdminSaves, AdminSaveFails, Release, Unlock, Kill
  <2>4. Alone' <=> Alone
    BY <2>3, Zenon DEF Alone, Admins
  <2> QED
    BY <1>1, <2>2, <2>4, DiskStep, Zenon
<1>2. CASE UNCHANGED vars
  <2>1. UNCHANGED <<use, disk, port, mem, admin, gaveUp, sshd, cr, conn, job, ok, reqStop,
                    halt, ctx, logins, hostDb, failed, lost, client, backlog, starts>>
    BY <1>2, Zenon DEF vars, daemonVars, saveVars, clientVars
  <2>2. TypeOK'
    BY <2>1, Zenon DEF TypeOK, Clients, Admins
  <2> QED
    BY <2>1, <2>2, Zenon DEF ServeInv, OnCommand, CommandDone, Clients, Alone, Admins
<1> QED
    BY <1>1, <1>2, Zenon

\* DiskIsMemory, for any daemon: as long as no other process changes the file, the file
\* holds the database of the daemon whenever Esshd.Start is not within SaveToDisk and the
\* last SaveToDisk did not fail, also after stops, crashes and new starts.
THEOREM DiskFollowsMemory == Spec => []DiskIsMemory
<1>1. DaemonInv => DiskIsMemory
    BY Zenon DEF DaemonInv
<1> QED
    BY DaemonInit, DaemonStepInv, <1>1, PTL DEF Spec

\* ReplyTrue, for any daemon: the answer CommandRecv gives a client is about the client's
\* own command, and true of the file, or tells of a deletion that could not be saved.
THEOREM RepliesAreTrue == Spec => ReplyTrue
<1> DEFINE True == \A c \in Clients :
                      LET cmd == use.client[c] IN
                      Alone /\ client'[c] # client[c] =>
                         /\ client'[c] = "ok" => (cmd.login \in disk <=> cmd.op = "add")
                         /\ client'[c] = "failed" => /\ cmd.op = "del" /\ cmd.login \notin mem[Daemon]
                                                     /\ cmd.login \in disk => failed
<1>1. DaemonInv /\ [Next]_vars => [True]_vars
  <2> SUFFICES ASSUME DaemonInv, Next, NEW c \in Clients, Alone, client'[c] # client[c]
               PROVE  LET cmd == use.client[c] IN
                         /\ client'[c] = "ok" => (cmd.login \in disk <=> cmd.op = "add")
                         /\ client'[c] = "failed" => /\ cmd.op = "del" /\ cmd.login \notin mem[Daemon]
                                                     /\ cmd.login \in disk => failed
    BY Zenon
  <2>0. client \in [Clients -> {"idle", "sent", "ok", "failed", "panic"}]
    BY Zenon DEF DaemonInv, DiskIsMemory, TypeOK
  <2>1. CASE Reply
    <3>1. /\ c = conn /\ client'[c] = IF ok THEN "ok" ELSE "failed"
        BY <2>0, <2>1, Zenon DEF Reply, Answered
    <3>2. sshd = "reply" /\ cr = "await"
        BY <2>1, Zenon DEF Reply
    <3>3. /\ OnCommand /\ CommandDone /\ job = use.client[c]
          /\ ok => ~failed
          /\ ~failed => disk = mem[Daemon]
        BY <3>1, <3>2, Zenon DEF DaemonInv, DiskIsMemory, ServeInv, OnCommand
    <3> QED
        BY <3>1, <3>3, Zenon DEF CommandDone
  <2>2. CASE \E d \in Clients : Dial(d) \/ ReadFails(d)
    <3>1. client'[c] \in {"sent", "panic"}
        BY <2>0, <2>2, Zenon DEF Dial, ReadFails
    <3> QED
        BY <3>1, Zenon
  <2>3. CASE ~Reply /\ ~\E d \in Clients : Dial(d) \/ ReadFails(d)
    <3>1. client' = client
        BY <2>3, Zenon
        DEF Next, NewEsshd, StartTakesXport, StartPanics, Listen, PollStop, PollCommand,
            AcceptLogin, NoteLogin, LoginEnds, OpenFile, SaveToDisk, SaveFails, ReplyHalted, DeliverTimesOut,
            CommandRecvStops, Stop, CancelCtx, StopDone, Crash, Dies, Accept, AdminStart, Lock,
            LockTimesOut, AdminLoads, AdminChanges, AdminOpens, AdminSaves, AdminSaveFails, Release, Unlock, Kill, clientVars
    <3> QED
        BY <3>1, Zenon
  <2> QED
    BY <2>1, <2>2, <2>3, Zenon
<1> QED
    BY DaemonInit, DaemonStepInv, <1>1, PTL DEF Spec, ReplyTrue

-----------------------------------------------------------------------------
(* The users. *)

\* Steps that leave the commands alone leave the enrolled users as they are; a confirmed
\* command adds at most its login.
LEMMA EnrolledStep ==
    ASSUME use' = use,
           \A c \in Clients : /\ client'[c] = "ok" => client[c] = "ok"
                              /\ client'[c] = "idle" => client[c] = "idle"
    PROVE  Enrolled' \subseteq Enrolled
    BY Zenon DEF Enrolled, Clients

\* A step that changes neither file nor memory nor what became of them keeps KeptInv, if
\* it keeps the commands.
LEMMA KeptFrame ==
    ASSUME KeptInv, UNCHANGED <<use, disk, mem, hostDb, failed, lost>>,
           Enrolled' \subseteq Enrolled, sshd = "save" => sshd' = "save",
           \A c \in backlog' : client'[c] # "idle",
           cr' = "deliver" => client'[conn'] # "idle"
    PROVE  KeptInv'
<1>1. Alone' <=> Alone
    BY Zenon DEF Alone, Admins
<1> QED
    BY <1>1, Zenon DEF KeptInv

\* The end of the daemon's process keeps it: the file then has all enrolled users, or the
\* loss is known.
LEMMA KeptDies ==
    ASSUME KeptInv, TypeOK, Dies, UNCHANGED <<use, disk, client>>
    PROVE  KeptInv'
<1>1. Enrolled' \subseteq Enrolled
    BY EnrolledStep, Zenon
<1>2. (Alone' <=> Alone) /\ backlog' = {} /\ cr' = "off" /\ ~hostDb' /\ sshd' = "down"
    BY Zenon DEF Alone, Admins, Dies
<1>3. ~lost' => ~lost /\ ~failed /\ sshd # "save"
    BY Zenon DEF Dies
<1> QED
    BY <1>1, <1>2, <1>3, Zenon DEF KeptInv

\* Every step of the daemon keeps KeptInv.
LEMMA DaemonKeeps ==
    ASSUME DaemonInv, KeptInv, DaemonStep
    PROVE  KeptInv'
<1>0. TypeOK /\ ServeInv
    BY Zenon DEF DaemonInv, DiskIsMemory
<1>1. CASE NewEsshd
  <2>1. /\ UNCHANGED <<use, disk, client, backlog, cr>> /\ cr = "off" /\ sshd = "down"
        /\ sshd' = "new"
    BY <1>1, Zenon DEF NewEsshd, clientVars
  <2>2. Enrolled' \subseteq Enrolled /\ (Alone' <=> Alone)
    BY <2>1, EnrolledStep, Zenon DEF Alone, Admins
  <2>3. CASE hostDb /\ UNCHANGED <<mem, failed, lost>>
    BY <2>1, <2>2, <2>3, Zenon DEF KeptInv
  <2>4. CASE NewHostDb(Daemon) /\ failed' = FALSE /\ lost' = (lost \/ failed)
    <3>1. mem'[Daemon] = disk
        BY <1>0, <2>4, Zenon DEF NewHostDb, NewFiledb, TypeOK
    <3> QED
        BY <2>1, <2>2, <2>4, <3>1, Zenon DEF KeptInv
  <2> QED
    BY <1>1, <2>3, <2>4, Zenon DEF NewEsshd
<1>2. CASE StartPanics \/ Crash
    BY <1>0, <1>2, KeptDies, Zenon DEF StartPanics, Crash
<1>3. CASE PollCommand
  <2> DEFINE c == use.client[conn]
  <2>1. /\ UNCHANGED <<use, disk, hostDb, failed, lost, client, backlog, conn>>
        /\ cr = "deliver" /\ cr' = "await" /\ sshd = "loop" /\ sshd' # "save"
        /\ mem' = [mem EXCEPT ![Daemon] = IF ok' THEN Changed(@, c) ELSE @]
    BY <1>3, Zenon DEF PollCommand, saveVars, clientVars
  <2>2. conn \in Clients /\ client[conn] # "idle"
    BY <1>0, <2>1, Zenon DEF ServeInv, KeptInv
  <2>3. c \in Command
    BY <1>0, <2>2, UseFacts, Zenon
  <2>4. c.op = "add" \/ c = [op |-> "del", login |-> c.login]
    BY <2>3 DEF Command
  <2>5. c.op # "add" => c.login \notin Enrolled
    BY <2>2, <2>4, Zenon DEF Enrolled
  <2>6. mem'[Daemon] \in {mem[Daemon], Changed(mem[Daemon], c)}
    BY <1>0, <2>1, Zenon DEF TypeOK
  <2>7. Enrolled \subseteq mem[Daemon] => Enrolled \subseteq mem'[Daemon]
    BY <2>5, <2>6, Zenon DEF Changed
  <2>8. Enrolled' \subseteq Enrolled /\ (Alone' <=> Alone)
    BY <2>1, EnrolledStep, Zenon DEF Alone, Admins
  <2> QED
    BY <2>1, <2>7, <2>8, Zenon DEF KeptInv
<1>4. CASE OpenFile
  <2>1. /\ UNCHANGED <<use, mem, hostDb, failed, lost, client, backlog, conn, cr>>
        /\ sshd' = "save"
    BY <1>4, Zenon DEF OpenFile, saveVars, clientVars
  <2>2. Enrolled' \subseteq Enrolled /\ (Alone' <=> Alone)
    BY <2>1, EnrolledStep, Zenon DEF Alone, Admins
  <2> QED
    BY <2>1, <2>2, Zenon DEF KeptInv
<1>5. CASE SaveToDisk
  <2>1. /\ UNCHANGED <<use, mem, hostDb, lost, client, backlog, conn, cr>>
        /\ disk' = mem[Daemon] /\ sshd # "down"
    BY <1>5, Zenon DEF SaveToDisk, clientVars, Stored
  <2>2. Enrolled' \subseteq Enrolled /\ (Alone' <=> Alone) /\ hostDb
    BY <1>0, <2>1, EnrolledStep, Zenon DEF Alone, Admins, ServeInv
  <2> QED
    BY <2>1, <2>2, Zenon DEF KeptInv
<1>6. CASE SaveFails
  <2>1. UNCHANGED <<use, disk, mem, client>>
    BY <1>6, Zenon DEF SaveFails
  <2>2. CASE Dies
    BY <1>0, <2>1, <2>2, KeptDies, Zenon
  <2>3. CASE failed' = TRUE /\ UNCHANGED <<cr, backlog, hostDb, lost>>
    <3>1. Enrolled' \subseteq Enrolled /\ (Alone' <=> Alone) /\ conn' = conn
        BY <1>6, <2>1, EnrolledStep, Zenon DEF Alone, Admins, SaveFails
    <3> QED
        BY <2>1, <2>3, <3>1, Zenon DEF KeptInv
  <2> QED
    BY <1>6, <2>2, <2>3, Zenon DEF SaveFails
<1>7. CASE Reply
  <2>1. /\ UNCHANGED <<use, disk, mem, hostDb, failed, lost, backlog>>
        /\ cr' = "accept" /\ cr = "await" /\ sshd = "reply" /\ sshd' = "loop"
        /\ client' = Answered(conn)
    BY <1>7, Zenon DEF Reply, saveVars
  <2>2. conn \in Clients /\ client \in [Clients -> {"idle", "sent", "ok", "failed", "panic"}]
    BY <1>0, <2>1, Zenon DEF ServeInv, TypeOK
  <2>3. \A c \in Clients : /\ client'[c] = "idle" <=> client[c] = "idle"
                           /\ client'[c] = "ok" => client[c] = "ok" \/ (c = conn /\ ok)
    BY <2>1, <2>2, Zenon DEF Answered
  <2>4. /\ OnCommand /\ CommandDone /\ job = use.client[conn] /\ hostDb
        /\ ok => ~failed
        /\ Alone /\ ~failed => disk = mem[Daemon]
    BY <1>0, <2>1, Zenon DEF DaemonInv, DiskIsMemory, ServeInv, OnCommand
  <2>5. backlog \subseteq Clients
    BY <1>0, Zenon DEF TypeOK
  <2>6. \A c \in backlog' : client'[c] # "idle"
    BY <2>1, <2>3, <2>5, Zenon DEF KeptInv
  <2>7. CASE ok /\ job.op = "add"
    <3>1. job.login \in mem[Daemon] /\ (Alone => job.login \in disk)
        BY <2>4, <2>7, Zenon DEF CommandDone
    <3>2. \A l \in Enrolled' : l \in Enrolled \/ l = job.login
      <4>1. ASSUME NEW l \in Enrolled', l \notin Enrolled PROVE l = job.login
        <5>1. PICK c \in Clients : /\ client'[c] = "ok" /\ client[c] # "ok"
                                   /\ use.client[c] = [op |-> "add", login |-> l]
            BY <2>1, <2>3, <4>1, Zenon DEF Enrolled, Clients
        <5>2. job = [op |-> "add", login |-> l]
            BY <2>3, <2>4, <5>1, Zenon
        <5> QED
            BY <5>2
      <4> QED
        BY <4>1, Zenon
    <3>3. Alone' <=> Alone
        BY <2>1, Zenon DEF Alone, Admins
    <3>4. \A S : Enrolled \subseteq S /\ job.login \in S => Enrolled' \subseteq S
        BY <3>2, Zenon
    <3> QED
        BY <2>1, <2>6, <3>1, <3>3, <3>4, Zenon DEF KeptInv
  <2>8. CASE ~(ok /\ job.op = "add")
    <3>1. Enrolled' \subseteq Enrolled
      <4>1. ASSUME NEW l \in Enrolled', l \notin Enrolled PROVE FALSE
        <5>1. PICK c \in Clients : /\ client'[c] = "ok" /\ client[c] # "ok"
                                   /\ use.client[c] = [op |-> "add", login |-> l]
            BY <2>1, <2>3, <4>1, Zenon DEF Enrolled, Clients
        <5>2. job = [op |-> "add", login |-> l] /\ ok
            BY <2>3, <2>4, <5>1, Zenon
        <5> QED
            BY <2>8, <5>2
      <4> QED
        BY <4>1, Zenon
    <3> QED
        BY <2>1, <2>6, <3>1, KeptFrame, Zenon
  <2> QED
    BY <2>7, <2>8, Zenon
<1>8. CASE \/ StartTakesXport \/ Listen \/ PollStop \/ AcceptLogin \/ NoteLogin \/ LoginEnds
           \/ ReplyHalted \/ DeliverTimesOut \/ CommandRecvStops \/ Stop \/ CancelCtx
           \/ StopDone
  <2>1. /\ UNCHANGED <<use, disk, mem, client, conn, hostDb, failed, lost>>
        /\ sshd = "save" => sshd' = "save"
        /\ backlog' \subseteq backlog
        /\ cr' = "deliver" => cr = "deliver"
    BY <1>8, Zenon
    DEF StartTakesXport, Listen, PollStop, AcceptLogin, NoteLogin, LoginEnds, ReplyHalted,
        DeliverTimesOut, CommandRecvStops, Stop, CancelCtx, StopDone, SshdReturns, saveVars,
        clientVars
  <2>2. Enrolled' \subseteq Enrolled
    BY <2>1, EnrolledStep, Zenon
  <2>3. (\A c \in backlog' : client'[c] # "idle") /\ (cr' = "deliver" => client'[conn'] # "idle")
    BY <2>1, Zenon DEF KeptInv
  <2> QED
    BY <2>1, <2>2, <2>3, KeptFrame, Zenon
<1> QED
    BY <1>1, <1>2, <1>3, <1>4, <1>5, <1>6, <1>7, <1>8, Zenon DEF DaemonStep

\* So does every step of a client.
LEMMA ClientKeeps ==
    ASSUME TypeOK, KeptInv, NEW c \in Clients, ClientStep(c)
    PROVE  KeptInv'
<1>0. /\ client \in [Clients -> {"idle", "sent", "ok", "failed", "panic"}]
      /\ backlog \subseteq Clients /\ conn \in Clients \cup {None}
    BY Zenon DEF TypeOK
<1>1. UNCHANGED <<use, disk, mem, hostDb, failed, lost, sshd>>
    BY Zenon DEF ClientStep, Accept, Dial, ReadFails, daemonVars, saveVars
<1>2. CASE Accept(c)
  <2>1. client' = client /\ c \in backlog /\ backlog' \subseteq backlog
    BY <1>2, Zenon DEF Accept
  <2>2. (cr' = "deliver" /\ conn' = c) \/ UNCHANGED <<cr, conn>>
    BY <1>2, Zenon DEF Accept
  <2>3. Enrolled' \subseteq Enrolled
    BY <1>1, <2>1, EnrolledStep, Zenon
  <2>4. (\A d \in backlog' : client'[d] # "idle") /\ (cr' = "deliver" => client'[conn'] # "idle")
    BY <2>1, <2>2, Zenon DEF KeptInv
  <2> QED
    BY <1>1, <2>3, <2>4, KeptFrame, Zenon
<1>3. CASE Dial(c) \/ ReadFails(c)
  <2>1. /\ \E v \in {"sent", "panic"} : client' = [client EXCEPT ![c] = v]
        /\ backlog' \subseteq backlog \cup {c} /\ UNCHANGED <<cr, conn>>
    BY <1>3, Zenon DEF Dial, ReadFails, daemonVars
  <2>2. client'[c] \in {"sent", "panic"} /\ \A d \in Clients \ {c} : client'[d] = client[d]
    BY <1>0, <2>1, Zenon
  <2>3. \A d : client[d] # "idle" => client'[d] # "idle"
    <3>1. ASSUME NEW d, client[d] # "idle", d # c PROVE client'[d] # "idle"
      <4>1. PICK v \in {"sent", "panic"} : client' = [client EXCEPT ![c] = v]
        BY <2>1, Zenon
      <4>2. client'[d] = client[d]
        BY <1>0, <3>1, <4>1
      <4> QED
        BY <3>1, <4>2, Zenon
    <3> QED
        BY <2>2, <3>1, Zenon
  <2>4. Enrolled' \subseteq Enrolled
    BY <1>1, <2>2, EnrolledStep, Zenon
  <2>5. (\A d \in backlog' : client'[d] # "idle") /\ (cr' = "deliver" => client'[conn'] # "idle")
    BY <2>1, <2>2, <2>3, Zenon DEF KeptInv
  <2> QED
    BY <1>1, <2>4, <2>5, KeptFrame, Zenon
<1> QED
    BY <1>2, <1>3, Zenon DEF ClientStep

\* UsersKept, for any clients and commands, starts and crashes: without a process beside
\* it, the daemon forgets no user nobody asked to delete, unless its process ended between
\* the truncation and the writing of the file or after a save that failed.
THEOREM UsersAreKept == Spec => []UsersKept
<1>1. Init => DaemonInv /\ KeptInv
  <2> SUFFICES ASSUME Init PROVE KeptInv
    BY DaemonInit, Zenon
  <2>1. Enrolled \subseteq disk
    BY Zenon DEF Init, Enrolled
  <2> QED
    BY <2>1, Zenon DEF Init, KeptInv
<1>2. DaemonInv /\ KeptInv /\ [Next]_vars => DaemonInv' /\ KeptInv'
  <2> SUFFICES ASSUME DaemonInv, KeptInv, [Next]_vars PROVE KeptInv'
    BY DaemonStepInv, Zenon
  <2>0. TypeOK
    BY Zenon DEF DaemonInv, DiskIsMemory
  <2>1. CASE DaemonStep
    BY <2>1, DaemonKeeps, Zenon
  <2>2. CASE \E c \in Clients : ClientStep(c)
    BY <2>0, <2>2, ClientKeeps, Zenon
  <2>3. CASE \E a \in Admins : AdminStep(a)
    <3>1. PICK a \in Admins : AdminStep(a)
        BY <2>3, Zenon
    <3>2. UNCHANGED <<use, cr, conn, client, backlog>>
        BY <2>0, <3>1, AdminFrame, Zenon
    <3>3. ~Alone'
        BY <3>2, Zenon DEF Alone, Admins
    <3> QED
        BY <3>2, <3>3, Zenon DEF KeptInv
  <2>4. CASE UNCHANGED vars
    <3>1. UNCHANGED <<use, disk, mem, sshd, cr, conn, hostDb, failed, lost, client, backlog>>
        BY <2>4, Zenon DEF vars, daemonVars, saveVars, clientVars
    <3>2. Enrolled' \subseteq Enrolled
        BY <3>1, EnrolledStep, Zenon
    <3>3. /\ \A c \in backlog' : client'[c] # "idle"
          /\ cr' = "deliver" => client'[conn'] # "idle"
        BY <3>1, Zenon DEF KeptInv
    <3> QED
        BY <3>1, <3>2, <3>3, KeptFrame, Zenon
  <2> QED
    BY <2>1, <2>2, <2>3, <2>4, Zenon DEF Next, DaemonStep, ClientStep, AdminStep
<1>3. KeptInv => UsersKept
    BY Zenon DEF KeptInv, UsersKept
<1> QED
    BY <1>1, <1>2, <1>3, PTL DEF Spec

-----------------------------------------------------------------------------
(* The `-deluser` processes. *)

\* Between Lock and Unlock a process is alone.
LEMMA OneHolds ==
    ASSUME SerialInv, OnlyDels, NEW a \in Admins, NEW x \in Admins,
           admin[a] \in Holding, admin[x] \in Holding
    PROVE  x = a
    BY Zenon DEF SerialInv, Holding

\* Every step of a process keeps SerialInv.
LEMMA AdminSerial ==
    ASSUME TypeOK, SerialInv, NEW a \in Admins, AdminStep(a)
    PROVE  SerialInv'
<1> DEFINE login(x) == use.admin[x].login
           Saved == {x \in Admins : admin[x] \in {"saved", "exit0"}}
<1>1. /\ UNCHANGED <<use, sshd>>
      /\ gaveUp \subseteq gaveUp'
      /\ admin[a] \notin {"failed", "killed"}
      /\ admin' \in [Admins -> AdminAt]
      /\ \A x \in Admins : x # a => admin'[x] = admin[x]
      /\ \A x \in Admins : x # a => mem'[x] = mem[x]
  <2>1. \E v \in AdminAt : admin' = [admin EXCEPT ![a] = v]
    BY Zenon DEF AdminStep, AdminStart, Lock, LockTimesOut, AdminLoads, AdminChanges,
        AdminOpens, AdminSaves, AdminSaveFails, Release, Unlock, Kill, AdminAt
  <2>2. admin \in [Admins -> AdminAt]
    BY Zenon DEF TypeOK, AdminAt
  <2> QED
    BY <2>1, <2>2, AdminFrame, Zenon
<1>2. ~use'.daemon => sshd' = "down"
    BY <1>1, Zenon DEF SerialInv
<1>3. OnlyDels' => OnlyDels
    BY <1>1, Zenon DEF OnlyDels, Admins
<1> SUFFICES ASSUME OnlyDels, OnlyDels'
             PROVE  /\ \A x \in Admins : /\ admin'[x] \in Holding => port' = x
                                         /\ admin'[x] = "read" => mem'[x] = Left'
                                         /\ admin'[x] \in {"open", "save"} =>
                                               mem'[x] = Left' \ {login(x)}
                    /\ (\A x \in Admins : admin'[x] # "save") => disk' = Left'
    BY <1>1, <1>2, <1>3, Zenon DEF SerialInv, Holding, Admins
<1>4. /\ \A x \in Admins : /\ admin[x] \in Holding => port = x
                           /\ admin[x] = "read" => mem[x] = Left
                           /\ admin[x] \in {"open", "save"} => mem[x] = Left \ {login(x)}
      /\ (\A x \in Admins : admin[x] # "save") => disk = Left
    BY Zenon DEF SerialInv, Holding
<1>5. use.admin[a].op = "del" /\ a # None
    BY UseFacts, Zenon DEF OnlyDels
<1>6. /\ admin \in [Admins -> AdminAt]
      /\ mem \in [Admins \cup {Daemon} -> SUBSET Logins]
    BY Zenon DEF TypeOK, AdminAt
<1>7. ASSUME admin'[a] \in {"saved", "exit0"} <=> admin[a] \in {"saved", "exit0"}
      PROVE  Left' = Left
  <2>1. \A x \in Admins : admin'[x] \in {"saved", "exit0"} <=> admin[x] \in {"saved", "exit0"}
    BY <1>1, <1>7, Zenon
  <2>2. {x \in Admins' : admin'[x] \in {"saved", "exit0"}} = Saved
    BY <1>1, <2>1, Zenon DEF Admins
  <2> QED
    BY <1>1, <2>2, Zenon DEF Left
<1>8. CASE AdminStart(a)
  <2>1. admin[a] = "start" /\ admin'[a] = "lock" /\ UNCHANGED <<disk, port, mem>>
    BY <1>5, <1>6, <1>8, Zenon DEF AdminStart
  <2> QED
    BY <1>1, <1>4, <1>7, <2>1, Zenon DEF Holding
<1>9. CASE Lock(a)
  <2>1. /\ admin[a] = "lock" /\ admin'[a] = "locked" /\ UNCHANGED <<disk, mem>>
        /\ port = None /\ port' = a
    BY <1>6, <1>9, Zenon DEF Lock
  <2>2. \A x \in Admins : admin[x] \notin Holding
    BY <1>4, <2>1, UseFacts, Zenon
  <2> QED
    BY <1>1, <1>4, <1>7, <2>1, <2>2, Zenon DEF Holding
<1>10. CASE LockTimesOut(a)
    BY <1>10, Zenon DEF LockTimesOut, OnlyDels, Admins
<1>11. CASE AdminLoads(a)
  <2>1. /\ admin[a] = "locked" /\ admin'[a] = "read" /\ mem'[a] = disk
        /\ UNCHANGED <<disk, port>>
    BY <1>6, <1>11, Zenon DEF AdminLoads, NewHostDb, NewFiledb
  <2>2. \A x \in Admins : x # a => admin[x] \notin Holding
    BY <2>1, OneHolds, Zenon DEF Holding
  <2>3. disk = Left
    BY <1>4, <2>1, <2>2, Zenon DEF Holding
  <2> QED
    BY <1>1, <1>4, <1>7, <2>1, <2>2, <2>3, Zenon DEF Holding
<1>12. CASE AdminChanges(a)
  <2>1. admin[a] = "read" /\ port = a /\ mem[a] = Left
    BY <1>4, <1>5, <1>12, Zenon DEF AdminChanges, Holding
  <2>2. \A x \in Admins : x # a => admin[x] \notin Holding
    BY <2>1, OneHolds, Zenon DEF Holding
  <2>5. disk' = disk
    BY <1>12, Zenon DEF AdminChanges
  <2>3. CASE Refused(mem[a], use.admin[a])
    <3>1. admin'[a] = "exit1" /\ UNCHANGED mem
        BY <1>6, <1>12, <2>3, Zenon DEF AdminChanges
    <3>2. Left' = Left
        BY <1>7, <2>1, <3>1, Zenon
    <3> QED
        BY <1>1, <1>4, <2>1, <2>2, <2>5, <3>1, <3>2, Zenon DEF Holding
  <2>4. CASE ~Refused(mem[a], use.admin[a])
    <3>1. /\ admin'[a] = "open" /\ UNCHANGED port
          /\ mem'[a] = Left \ {login(a)}
        BY <1>5, <1>6, <1>12, <2>1, <2>4, Zenon DEF AdminChanges, Changed
    <3>2. Left' = Left
        BY <1>7, <2>1, <3>1, Zenon
    <3> QED
        BY <1>1, <1>4, <2>1, <2>2, <2>5, <3>1, <3>2, Zenon DEF Holding
  <2> QED
    BY <2>3, <2>4, Zenon
<1>13. CASE AdminSaves(a)
  <2>1. /\ admin[a] = "save" /\ admin'[a] = "saved" /\ UNCHANGED <<port, mem>>
        /\ disk' = mem[a]
    BY <1>6, <1>13, Zenon DEF AdminSaves, Stored
  <2>2. \A x \in Admins : x # a => admin[x] \notin Holding
    BY <2>1, OneHolds, Zenon DEF Holding
  <2>3. {x \in Admins : admin'[x] \in {"saved", "exit0"}} = Saved \cup {a}
    BY <1>1, <2>1, Zenon
  <2>4. Left' = Left \ {login(a)}
    BY <1>1, <2>3, Zenon DEF Left, Admins
  <2>5. disk' = Left' /\ port = a
    BY <1>4, <2>1, <2>4, Zenon DEF Holding
  <2> QED
    BY <1>1, <2>1, <2>2, <2>5, Zenon DEF Holding
<1>16. CASE AdminOpens(a)
  <2>1. admin[a] = "open" /\ admin'[a] = "save" /\ UNCHANGED <<port, mem>>
    BY <1>6, <1>16, Zenon DEF AdminOpens
  <2>2. \A x \in Admins : x # a => admin[x] \notin Holding
    BY <2>1, OneHolds, Zenon DEF Holding
  <2> QED
    BY <1>1, <1>4, <1>7, <2>1, <2>2, Zenon DEF Holding
<1>17. CASE AdminSaveFails(a)
  <2>1. /\ admin[a] \in {"open", "save"} /\ UNCHANGED <<disk, mem>>
        /\ admin'[a] = IF admin[a] = "open" THEN "exit1" ELSE "failed"
    BY <1>6, <1>17, Zenon DEF AdminSaveFails
  <2>2. admin[a] = "open" /\ admin'[a] = "exit1"
    BY <1>1, <2>1, Zenon DEF OnlyDels, Admins
  <2>3. \A x \in Admins : x # a => admin[x] \notin Holding
    BY <2>2, OneHolds, Zenon DEF Holding
  <2> QED
    BY <1>1, <1>4, <1>7, <2>1, <2>2, <2>3, Zenon DEF Holding
<1>14. CASE Unlock(a)
  <2>1. admin[a] = "saved" /\ admin'[a] = "exit0" /\ UNCHANGED <<disk, mem>>
    BY <1>6, <1>14, Zenon DEF Unlock
  <2>2. \A x \in Admins : x # a => admin[x] \notin Holding
    BY <2>1, OneHolds, Zenon DEF Holding
  <2>3. \A x \in Admins : admin[x] # "save"
    BY <2>1, <2>2, Zenon DEF Holding
  <2> QED
    BY <1>1, <1>4, <1>7, <2>1, <2>2, <2>3, Zenon DEF Holding
<1>15. CASE Kill(a)
    BY <1>6, <1>15, Zenon DEF Kill, OnlyDels, Admins
<1> QED
    BY <1>8, <1>9, <1>10, <1>11, <1>12, <1>13, <1>14, <1>15, <1>16, <1>17, Zenon DEF AdminStep

\* DelsSerial, for any number of `-deluser` processes: those that each got the xport delete
\* their logins and no other, whatever their order.
THEOREM DelsAreSerial == Spec => []DelsSerial
<1>1. Init => UserDbInv
  <2> SUFFICES ASSUME Init PROVE SerialInv
    BY DaemonInit, Zenon DEF UserDbInv
  <2>1. {x \in Admins : admin[x] \in {"saved", "exit0"}} = {}
    BY Zenon DEF Init
  <2>2. Left = disk
    BY <2>1, Zenon DEF Init, Left
  <2> QED
    BY <2>2, Zenon DEF Init, SerialInv, Holding
<1>2. UserDbInv /\ [Next]_vars => UserDbInv'
  <2> SUFFICES ASSUME UserDbInv, [Next]_vars PROVE SerialInv'
    BY DaemonStepInv, Zenon DEF UserDbInv
  <2>0. TypeOK /\ ServeInv /\ SerialInv
    BY Zenon DEF UserDbInv, DaemonInv, DiskIsMemory
  <2>1. CASE \E a \in Admins : AdminStep(a)
    BY <2>0, <2>1, AdminSerial, Zenon
  <2>2. ASSUME UNCHANGED <<use, admin, gaveUp, disk, port, mem, sshd>> PROVE SerialInv'
    <3>1. Left' = Left /\ (OnlyDels' <=> OnlyDels) /\ Admins' = Admins
        BY <2>2, Zenon DEF OnlyDels, Left, Admins
    <3> QED
        BY <2>0, <2>2, <3>1, Zenon DEF SerialInv
  <2>3. CASE \E c \in Clients : ClientStep(c)
    BY <2>2, <2>3, Zenon DEF ClientStep, Accept, Dial, ReadFails, admVars, daemonVars, saveVars
  <2>4. CASE DaemonStep
    <3>1. CASE use.daemon
      <4>1. use' = use
        BY <2>4, Zenon DEF DaemonStep, NewEsshd, StartTakesXport, StartPanics, Listen, PollStop,
            PollCommand, AcceptLogin, NoteLogin, LoginEnds, OpenFile, SaveToDisk, SaveFails, Reply, ReplyHalted,
            DeliverTimesOut, CommandRecvStops, Stop, CancelCtx, StopDone, Crash, Dies
      <4> QED
        BY <3>1, <4>1, Zenon DEF SerialInv, OnlyDels
    <3>2. CASE ~use.daemon
      <4>1. sshd = "down" /\ cr = "off"
        BY <2>0, <3>2, Zenon DEF SerialInv, ServeInv
      <4> QED
        BY <2>4, <3>2, <4>1, Zenon
        DEF DaemonStep, NewEsshd, StartTakesXport, StartPanics, Listen, PollStop,
            PollCommand, AcceptLogin, NoteLogin, LoginEnds, OpenFile, SaveToDisk, SaveFails, Reply, ReplyHalted,
            DeliverTimesOut, CommandRecvStops, Stop, CancelCtx, StopDone, Crash, Dies
    <3> QED
        BY <3>1, <3>2, Zenon
  <2>5. CASE UNCHANGED vars
    BY <2>2, <2>5, Zenon DEF vars, daemonVars, saveVars
  <2> QED
    BY <2>1, <2>3, <2>4, <2>5, Zenon DEF Next, DaemonStep, ClientStep, AdminStep
<1>3. UserDbInv => DelsSerial
  <2> SUFFICES ASSUME UserDbInv, ~use.daemon,
                      \A a \in Admins : /\ use.admin[a].op = "del" /\ a \notin gaveUp
                                        /\ admin[a] \notin {"save", "failed", "killed"}
               PROVE  disk = Left
    BY Zenon DEF DelsSerial, Left
  <2>1. OnlyDels /\ \A a \in Admins : admin[a] # "save"
    BY Zenon DEF OnlyDels
  <2> QED
    BY <2>1, Zenon DEF UserDbInv, SerialInv
<1> QED
    BY <1>1, <1>2, <1>3, PTL DEF Spec
=============================================================================
