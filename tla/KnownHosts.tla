----------------------------- MODULE KnownHosts -----------------------------
(***************************************************************************)
(* The table of known sshd host keys and its file (knownhosts.go,          *)
(* perjson.go), and the host key callback of SSHConnect that asks it       *)
(* (HostAlreadyKnown and AddNeeded in sshutil.go).  Several callers share  *)
(* one table.                                                              *)
(*                                                                         *)
(* They all reach the same sshd, so the module keeps the record of that    *)
(* one key; the records of other keys come from the file and are never     *)
(* written again.  A name is a host and a port; in the file the port may   *)
(* be left out.                                                            *)
(***************************************************************************)
EXTENDS Dialing, Naturals, Sequences, FiniteSets
LOCAL INSTANCE SequencesExt

VARIABLES
    asks,       \* [Callers -> [name, add, oneshot]]: the hostname, AddIfNotKnown and
                \* TestAllowOneshotConnect
    format,     \* "ssh" or "json": PersistFormat
    NoSave,     \* BOOLEAN
    listed,     \* the names the file gives the key at the start, see NamesOf
    record,     \* the ServerPubKey of the key in Hosts, or NoRecord
    file,       \* "ssh": the lines with the key; "json": the record that was saved
    hMut,       \* who holds KnownHosts.Mut across steps, or "free"
    recordMut,  \* who holds ServerPubKey.Mut across steps, or "free"
    check,      \* [Callers -> where the callback is]
    marshalled, \* [Callers -> the record saveJSONSnappy has marshalled]
    added,      \* the names that were added with the flag
    raced       \* BOOLEAN: a name came between a save's reading of the names and its end

hostVars == <<asks, format, NoSave, listed, record, file, hMut, recordMut, check, marshalled,
              added, raced>>

NoPort == 0
DefaultPort == 22
Local == "localhost"
Name(h, p) == [host |-> h, port |-> p]

NoRecord == [Hostname |-> Name("", NoPort), SplitHostnames |-> {}, AlreadySaved |-> FALSE,
             ServerBanned |-> FALSE]

-----------------------------------------------------------------------------
(* The file.                                                                *)

\* saveSshKnownHosts: a single name is written as it is, in brackets unless its port is
\* the default one; several are all written in brackets, in the order of a map.  Either
\* way the port is written.
FormatLine(r) ==
    IF Cardinality(r.SplitHostnames) = 1 THEN <<r.Hostname>> ELSE SetToSeq(r.SplitHostnames)

\* LoadSshKnownHosts: a port that is left out is the one given last, or 22.  The first
\* pass over the names of a line looks back; the second starts from the line's last port.
LastPort(ports) ==
    LET given == SelectSeq(ports, LAMBDA p : p # NoPort) IN
    IF given = <<>> THEN DefaultPort ELSE Last(given)

Ports(line) == [i \in DOMAIN line |-> line[i].port]

FirstPass(line) ==
    {Name(line[i].host, LastPort(SubSeq(Ports(line), 1, i))) : i \in DOMAIN line}

SecondPass(line, i) ==
    Name(line[i].host, IF line[i].port # NoPort THEN line[i].port ELSE LastPort(Ports(line)))

\* The lines of one key are combined under it.
LoadSshKnownHosts(lines) ==
    LET later == UNION {{n} \X DOMAIN lines[n] : n \in DOMAIN lines} \ {<<1, 1>>} IN
    IF lines = <<>> THEN NoRecord
    ELSE [Hostname |-> SecondPass(lines[1], 1),
          SplitHostnames |-> FirstPass(lines[1]) \cup {SecondPass(lines[e[1]], e[2]) : e \in later},
          AlreadySaved |-> TRUE, ServerBanned |-> FALSE]

NewKnownHosts(f) == IF format = "ssh" THEN LoadSshKnownHosts(f) ELSE f

\* The names a line stands for: a port that is left out is 22, or one that the line gives
\* another name.
NamesOf(line) ==
    LET given == Range(Ports(line)) \ {NoPort} IN
    UNION {{Name(l.host, p) : p \in IF l.port = NoPort THEN given \cup {DefaultPort} ELSE {l.port}} :
               l \in Range(line)}

\* The table is read from the file; the callbacks have not begun.
HostsInit ==
    /\ record = NewKnownHosts(file)
    /\ listed = IF format = "ssh" THEN UNION {NamesOf(file[n]) : n \in DOMAIN file}
                ELSE file.SplitHostnames
    /\ hMut = "free" /\ recordMut = "free"
    /\ check = [c \in Callers |-> "none"]
    /\ marshalled = [c \in Callers |-> NoRecord]
    /\ added = {} /\ raced = FALSE

-----------------------------------------------------------------------------
(* The callback.  It returns nil from "accept", and an error from "refuse".  *)

Goes(c, pc) == check' = [check EXCEPT ![c] = pc]

\* The record is looked up under Mut.  Nobody who knows the record looks at its names when
\* Hostname is the name; -new for a name that is known is an error.  On localhost -new
\* goes straight to AddNeeded.
VerdictAnyName(c) ==
    IF record = NoRecord THEN (IF asks[c].add THEN "add" ELSE "refuse")
    ELSE IF record.ServerBanned THEN "refuse" ELSE IF asks[c].add THEN "add" ELSE "accept"
Verdict(c) ==
    LET name == asks[c].name
        add == asks[c].add
    IN  CASE record = NoRecord -> IF add THEN "add" ELSE "refuse"
          [] record # NoRecord /\ record.ServerBanned -> "refuse"
          [] record # NoRecord /\ ~record.ServerBanned /\ name.host = Local /\ add -> "add"
          [] OTHER -> IF record.Hostname # name THEN "names"
                      ELSE IF add THEN "refuse" ELSE "accept"

HostAlreadyKnown(c) ==
    /\ check[c] = "none" /\ hMut = "free"
    /\ Goes(c, Verdict(c))
    /\ UNCHANGED <<asks, format, NoSave, listed, record, file, hMut, recordMut, marshalled,
                   added, raced>>

\* The names of the record, under its Mut, which is given back only if the name is among
\* them: otherwise the same goroutine locks it again, in AddHostPort with -new and for
\* the error without, and waits for itself.
CompareNames(c) ==
    /\ check[c] = "names" /\ recordMut = "free"
    /\ IF asks[c].name \in record.SplitHostnames
       THEN /\ Goes(c, IF asks[c].add THEN "add" ELSE "accept")
            /\ UNCHANGED recordMut
       ELSE Goes(c, "stuck") /\ recordMut' = c
    /\ UNCHANGED <<asks, format, NoSave, listed, record, file, hMut, marshalled, added, raced>>

\* AddNeeded with -new: a new record, unless there is one by now.
AddNeeded(c) ==
    /\ check[c] = "add" /\ hMut = "free"
    /\ IF record = NoRecord
       THEN /\ record' = [NoRecord EXCEPT !.Hostname = asks[c].name,
                                          !.SplitHostnames = {asks[c].name}]
            /\ added' = added \cup {asks[c].name}
            /\ Goes(c, "sync")
       ELSE Goes(c, "another name") /\ UNCHANGED <<record, added>>
    /\ UNCHANGED <<asks, format, NoSave, listed, file, hMut, recordMut, marshalled, raced>>

\* The new name is to be saved; the caller does not hold KnownHosts.Mut.
AddHostPortSaved(c) ==
    /\ check[c] = "another name" /\ recordMut = "free"
    /\ record' = [record EXCEPT !.SplitHostnames = @ \cup {asks[c].name}]
    /\ added' = added \cup {asks[c].name}
    /\ raced' = (raced \/ (format = "ssh" /\ hMut # "free"))
    /\ Goes(c, "sync")
    /\ UNCHANGED <<asks, format, NoSave, listed, file, hMut, recordMut, marshalled>>
AddHostPort(c) ==
    /\ check[c] = "another name" /\ recordMut = "free"
    /\ record' = [record EXCEPT !.SplitHostnames = @ \cup {asks[c].name},
                                !.AlreadySaved = @ /\ asks[c].name \in record.SplitHostnames]
    /\ added' = added \cup {asks[c].name}
    /\ raced' = (raced \/ (format = "ssh" /\ hMut # "free"))
    /\ Goes(c, "sync")
    /\ UNCHANGED <<asks, format, NoSave, listed, file, hMut, recordMut, marshalled>>

\* After Sync AddNeeded returns KnownOK, or AddedNew with an error.
Added(c) == IF asks[c].oneshot THEN "added" ELSE "added, refuse"

\* saveSshKnownHosts holds KnownHosts.Mut: the line of the key is appended ...
saveSshKnownHosts(c) ==
    /\ check[c] = "sync" /\ format = "ssh" /\ hMut = "free"
    /\ IF NoSave \/ record.AlreadySaved
       THEN Goes(c, Added(c)) /\ UNCHANGED <<file, hMut>>
       ELSE /\ file' = Append(file, FormatLine(record))
            /\ hMut' = c /\ Goes(c, "mark")
    /\ UNCHANGED <<asks, format, NoSave, listed, record, recordMut, marshalled, added, raced>>

\* ... and then marked as saved, whatever names it has got since.
MarkSaved(c) ==
    /\ check[c] = "mark" /\ format = "ssh"
    /\ record' = [record EXCEPT !.AlreadySaved = TRUE]
    /\ hMut' = "free" /\ Goes(c, Added(c))
    /\ UNCHANGED <<asks, format, NoSave, listed, file, recordMut, marshalled, added, raced>>

\* saveJSONSnappy takes no lock: the table is marshalled ...
saveJSONSnappy(c) ==
    /\ check[c] = "sync" /\ format = "json"
    /\ marshalled' = [marshalled EXCEPT ![c] = record]
    /\ raced' = (raced \/ \E d \in Callers : check[d] = "mark")
    /\ Goes(c, "mark")
    /\ UNCHANGED <<asks, format, NoSave, listed, record, file, hMut, recordMut, added>>

\* ... written beside the file, and moved onto it.
MoveOntoFile(c) ==
    /\ check[c] = "mark" /\ format = "json"
    /\ file' = marshalled[c]
    /\ Goes(c, Added(c))
    /\ UNCHANGED <<asks, format, NoSave, listed, record, hMut, recordMut, marshalled, added, raced>>

CheckStep(c) ==
    \/ HostAlreadyKnown(c) \/ CompareNames(c) \/ AddNeeded(c) \/ AddHostPort(c)
    \/ saveSshKnownHosts(c) \/ MarkSaved(c) \/ saveJSONSnappy(c) \/ MoveOntoFile(c)

Accepting == {"accept", "added"}
Refusing == {"refuse", "added, refuse"}

-----------------------------------------------------------------------------
\* The callback accepts the key for a name only if the file listed the name at the start
\* or somebody has added it with the flag, and never a key marked as banned.  In a line
\* with names with and without a port the port left out may be another name's
\* (LoadSshKnownHosts).  Names of localhost are checked as all others are: the code
\* behind "no host checking when coming from localhost" is commented out.
HostListed ==
    \A c \in Callers :
        check[c] \in Accepting => asks[c].name \in listed \cup added /\ ~record.ServerBanned

\* A name whose addition has returned is found again by whoever reads the file next,
\* unless another name came in while the lines were being written.
AddedIsSaved ==
    \A c \in Callers :
        check[c] \in {"added", "added, refuse"} /\ ~NoSave /\ ~raced =>
            asks[c].name \in NewKnownHosts(file).SplitHostnames
=============================================================================
