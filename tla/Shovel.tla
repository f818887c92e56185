------------------------------- MODULE Shovel -------------------------------
(***************************************************************************)
(* A shovelPair (shovel.go), which carries a tunnelled connection: two     *)
(* copiers between a socket a and an ssh channel b, a closer for each, and *)
(* the watcher that stops both when one has stopped.                       *)
(*                                                                         *)
(* A Read of a closed socket returns at once; a Read of a closed ssh       *)
(* channel returns when the peer has answered the close or the connection  *)
(* has ended.  A Write waits for the far end to take what is written, or   *)
(* fails when the end is closed here or there.                             *)
(***************************************************************************)
EXTENDS Naturals

CONSTANT Chunks     \* the most that either far end sends

VARIABLES
    sent,       \* [Ends -> the chunks that far end has sent]
    finished,   \* the ends whose far end has sent its EOF
    copied,     \* [Shovels -> the chunks written]
    closedHere, \* the ends that were closed by a closer
    gone,       \* the ends on which reads fail
    shut,       \* the ends that the far end has closed or reset
    starting,   \* where shovelPair.Start is
    copier,     \* [Shovels -> "off", "read", "write" or "end"]
    closer,     \* [Shovels -> "off", "wait", "w" or "end"]
    reqStop,    \* the Halters that were asked to stop
    haltDone,   \* the Halters that are done
    watcher,    \* where the watcher is
    stopped     \* a stop was asked for from outside

shovelVars == <<sent, finished, copied, closedHere, gone, shut, starting, copier, closer,
                reqStop, haltDone, watcher, stopped>>

Ends == {"a", "b"}
Shovels == {"AB", "BA"}
R(s) == IF s = "AB" THEN "b" ELSE "a"
W(s) == IF s = "AB" THEN "a" ELSE "b"

ShovelInit ==
    /\ sent = [e \in Ends |-> 0] /\ finished = {}
    /\ copied = [s \in Shovels |-> 0]
    /\ closedHere = {} /\ gone = {} /\ shut = {}
    /\ starting = "no"
    /\ copier = [s \in Shovels |-> "off"]
    /\ closer = [s \in Shovels |-> "off"]
    /\ reqStop = {} /\ haltDone = {}
    /\ watcher = "off" /\ stopped = FALSE

-----------------------------------------------------------------------------
(* shovelPair.Start.                                                        *)

\* NewForward, StartNewReverse or handleDirectTcp has both connections.
StartPair ==
    /\ starting = "no" /\ starting' = "AB"
    /\ UNCHANGED <<sent, finished, copied, closedHere, gone, shut, copier, closer, reqStop,
                   haltDone, watcher, stopped>>

\* Start of one shovel returns when its copier is ready; the watcher comes last.
StartShovel ==
    /\ starting \in Shovels
    /\ copier' = [copier EXCEPT ![starting] = "read"]
    /\ closer' = [closer EXCEPT ![starting] = "wait"]
    /\ starting' = IF starting = "AB" THEN "BA" ELSE "started"
    /\ watcher' = IF starting = "BA" THEN "wait" ELSE watcher
    /\ UNCHANGED <<sent, finished, copied, closedHere, gone, shut, reqStop, haltDone, stopped>>

-----------------------------------------------------------------------------
(* shovel.Start: the copier, an io.Copy, and its deferred MarkDone, which    *)
(* asks the Halter to stop too.                                             *)

CopyEndsUnmarked(s) ==
    /\ copier' = [copier EXCEPT ![s] = "end"]
    /\ UNCHANGED <<reqStop, haltDone>>
CopyEnds(s) ==
    /\ copier' = [copier EXCEPT ![s] = "end"]
    /\ reqStop' = reqStop \cup {s}
    /\ haltDone' = haltDone \cup {s}

\* io.Copy reads what comes next, or ends: with the end of the stream, or an error.
CopyRead(s) ==
    /\ copier[s] = "read"
    /\ \/ /\ copied[s] < sent[R(s)] /\ R(s) \notin gone
          /\ copier' = [copier EXCEPT ![s] = "write"]
          /\ UNCHANGED <<reqStop, haltDone>>
       \/ /\ R(s) \in gone \/ (R(s) \in finished /\ copied[s] = sent[R(s)])
          /\ CopyEnds(s)
    /\ UNCHANGED <<sent, finished, copied, closedHere, gone, shut, starting, closer, watcher, stopped>>

\* It writes what it read, when the far end takes it, or ends with the error of the Write.
CopyWrite(s) ==
    /\ copier[s] = "write" /\ W(s) \notin closedHere \cup gone
    /\ copied' = [copied EXCEPT ![s] = @ + 1]
    /\ copier' = [copier EXCEPT ![s] = "read"]
    /\ UNCHANGED <<sent, finished, closedHere, gone, shut, starting, closer, reqStop, haltDone,
                   watcher, stopped>>

WriteFails(s) ==
    /\ copier[s] = "write" /\ W(s) \in closedHere \cup gone \cup shut
    /\ CopyEnds(s)
    /\ UNCHANGED <<sent, finished, copied, closedHere, gone, shut, starting, closer, watcher,
                   stopped>>

\* Close of an end: a socket fails its reads from then on.
Closes(e) ==
    /\ closedHere' = closedHere \cup {e}
    /\ gone' = IF e = "a" THEN gone \cup {e} ELSE gone

\* The closer: r.Close, then w.Close and MarkDone.
Closer(s) ==
    /\ \/ /\ closer[s] = "wait" /\ s \in reqStop
          /\ Closes(R(s))
          /\ closer' = [closer EXCEPT ![s] = "w"]
          /\ UNCHANGED haltDone
       \/ /\ closer[s] = "w"
          /\ Closes(W(s))
          /\ closer' = [closer EXCEPT ![s] = "end"]
          /\ haltDone' = haltDone \cup {s}
    /\ UNCHANGED <<sent, finished, copied, shut, starting, copier, reqStop, watcher, stopped>>

-----------------------------------------------------------------------------
(* The watcher of the pair: Stop of both shovels, one after the other, then  *)
(* MarkDone, which waits for them.                                          *)

WatcherEager ==
    /\ \/ /\ watcher = "wait"
          /\ watcher' = "AB" /\ reqStop' = reqStop \cup {"AB"} /\ UNCHANGED haltDone
       \/ /\ watcher = "AB" /\ "AB" \in haltDone
          /\ watcher' = "BA" /\ reqStop' = reqStop \cup {"BA"} /\ UNCHANGED haltDone
       \/ /\ watcher = "BA" /\ "BA" \in haltDone
          /\ watcher' = "end"
          /\ reqStop' = reqStop \cup {"pair"} /\ haltDone' = haltDone \cup {"pair"}
    /\ UNCHANGED <<sent, finished, copied, closedHere, gone, shut, starting, copier, closer, stopped>>
Watcher ==
    /\ \/ /\ watcher = "wait"
          /\ reqStop \cup haltDone # {}
          /\ watcher' = "AB" /\ reqStop' = reqStop \cup {"AB"} /\ UNCHANGED haltDone
       \/ /\ watcher = "AB" /\ "AB" \in haltDone
          /\ watcher' = "BA" /\ reqStop' = reqStop \cup {"BA"} /\ UNCHANGED haltDone
       \/ /\ watcher = "BA" /\ "BA" \in haltDone
          /\ watcher' = "end"
          /\ reqStop' = reqStop \cup {"pair"} /\ haltDone' = haltDone \cup {"pair"}
    /\ UNCHANGED <<sent, finished, copied, closedHere, gone, shut, starting, copier, closer, stopped>>

\* RequestStop of the pair, by shovelPair.Stop or from a Halter above it: it goes down to
\* both shovels.
StopPair ==
    /\ starting # "no" /\ ~stopped
    /\ stopped' = TRUE
    /\ reqStop' = reqStop \cup {"pair", "AB", "BA"}
    /\ UNCHANGED <<sent, finished, copied, closedHere, gone, shut, starting, copier, closer,
                   haltDone, watcher>>

-----------------------------------------------------------------------------
(* The far ends and the connection.                                         *)

FarSends(e) ==
    /\ starting # "no" /\ e \notin finished \cup gone
    /\ sent[e] < Chunks
    /\ sent' = [sent EXCEPT ![e] = @ + 1]
    /\ UNCHANGED <<finished, copied, closedHere, gone, shut, starting, copier, closer, reqStop,
                   haltDone, watcher, stopped>>

FarFinishes(e) ==
    /\ starting # "no" /\ e \notin finished \cup gone
    /\ finished' = finished \cup {e}
    /\ UNCHANGED <<sent, copied, closedHere, gone, shut, starting, copier, closer, reqStop,
                   haltDone, watcher, stopped>>

\* The far end closes the connection: what it sent can still be read.
FarCloses(e) ==
    /\ starting # "no" /\ e \notin shut \cup gone
    /\ finished' = finished \cup {e} /\ shut' = shut \cup {e}
    /\ UNCHANGED <<sent, copied, closedHere, gone, starting, copier, closer, reqStop, haltDone,
                   watcher, stopped>>

\* The socket is reset: neither can be written nor read.
SocketReset ==
    /\ starting # "no" /\ "a" \notin gone
    /\ gone' = gone \cup {"a"} /\ shut' = shut \cup {"a"}
    /\ UNCHANGED <<sent, finished, copied, closedHere, starting, copier, closer, reqStop,
                   haltDone, watcher, stopped>>

\* The peer's mux answers the close of the channel.
PeerCloses ==
    /\ "b" \in closedHere \ gone
    /\ gone' = gone \cup {"b"}
    /\ UNCHANGED <<sent, finished, copied, shut, closedHere, starting, copier, closer, reqStop,
                   haltDone, watcher, stopped>>

\* The ssh connection under b ends; it counts as a stop from outside.
ChannelLost ==
    /\ starting # "no" /\ "b" \notin gone
    /\ gone' = gone \cup {"b"} /\ stopped' = TRUE
    /\ UNCHANGED <<sent, finished, copied, shut, closedHere, starting, copier, closer, reqStop,
                   haltDone, watcher>>

ShovelStep(s) == CopyRead(s) \/ WriteFails(s)
FarStep(e) == FarSends(e) \/ FarFinishes(e)

ShovelNext ==
    \/ \E s \in Shovels : ShovelStep(s) \/ CopyWrite(s) \/ Closer(s)
    \/ \E e \in Ends : FarStep(e) \/ FarCloses(e)
    \/ SocketReset \/ StartPair \/ StartShovel \/ Watcher \/ StopPair \/ PeerCloses \/ ChannelLost

ShovelSpec == ShovelInit /\ [][ShovelNext]_shovelVars

-----------------------------------------------------------------------------
\* When one direction has ended, or a stop was asked for, everything ends: both ends are
\* closed, and both copiers, both closers and the watcher return, also from a Write that
\* nobody takes.
PairEnds ==
    (\E s \in Shovels : copier[s] = "end") \/ reqStop # {} ~>
        /\ closedHere = Ends /\ watcher = "end"
        /\ \A s \in Shovels : copier[s] = "end" /\ closer[s] = "end"

\* The pair by itself cuts nothing short: when an end has been closed here, nobody asked
\* for it, the ssh connection is up and neither far end has closed or reset its own, then
\* one of the far ends had finished, and all it sent was copied.
NothingCutShort ==
    closedHere # {} /\ ~stopped /\ shut = {} =>
        \E s \in Shovels : R(s) \in finished /\ copied[s] = sent[R(s)]
=============================================================================
