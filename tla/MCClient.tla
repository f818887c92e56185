------------------------------ MODULE MCClient ------------------------------
(* Client for TLC: two callers, two listeners, three opens.  A use is one    *)
(* scenario; the scenarios add up to the state space.                       *)
EXTENDS Client

MCAddrOf(o) == IF o = "u1" THEN "U" ELSE "T"
MCNetwork(a) == IF a = "U" THEN "unix" ELSE "tcp"

-----------------------------------------------------------------------------
\* What clients bring: public keys, with the private keys of all or of some.
\* SSHConnect lists publickey, password, keyboard-interactive.
L(known, signers, pass, code, order) ==
    [known |-> known, signers |-> signers, holds |-> {"k1", "k2", "k3", "k4"}, pass |-> pass,
     code |-> code, order |-> order]
Unsigned(l, holds) == [l EXCEPT !.holds = holds]

PK == "publickey"
PW == "password"
KI == "keyboard-interactive"
Full == L(TRUE, <<"k1">>, "right", "right", <<PK, PW, KI>>)

MCLogins ==
    {Full,
     L(TRUE, <<"k2", "k1">>, "right", "right", <<KI, PK>>),
     L(TRUE, <<"k1", "k2">>, "right", "right", <<PK, KI>>),
     L(TRUE, <<"k2">>, "right", "right", <<KI, PK>>),
     L(TRUE, <<"k1">>, "wrong", "right", <<PK, PW, KI>>),
     L(TRUE, <<"k1">>, "right", "wrong", <<KI, PK>>),
     L(TRUE, <<"k1">>, "right", "none", <<PK, PW>>),
     L(TRUE, <<"k2", "k3", "k4", "k1">>, "right", "right", <<PK, KI>>),
     L(FALSE, <<"k1">>, "right", "right", <<PK, PW, KI>>),
     Unsigned(L(TRUE, <<"k1">>, "right", "right", <<KI, PK>>), {}),
     Unsigned(L(TRUE, <<"k1">>, "right", "right", <<PK, KI>>), {}),
     Unsigned(L(TRUE, <<"k2", "k1">>, "right", "wrong", <<PK, KI>>), {"k2"})}

\* What they ask the table of known hosts, and the files it comes from.
A(host, port, add, oneshot) == [name |-> Name(host, port), add |-> add, oneshot |-> oneshot]

KnownAt22 == <<<<Name("a", NoPort)>>>>
KnownMixed == <<<<Name("a", NoPort), Name("b", 2022)>>>>
KnownTwice == <<<<Name("a", 2022), Name("b", 2022)>>, <<Name("a", 22)>>>>
Saved(names, first, banned) ==
    [Hostname |-> first, SplitHostnames |-> names, AlreadySaved |-> TRUE, ServerBanned |-> banned]

NoWork ==
    [listens |-> {}, accepts |-> {}, closes |-> {}, opens |-> {}, bad |-> {}, ends |-> {}]
Idle == [callers |-> {"c1"}, require |-> {"pass"}, login |-> [c \in {"c1", "c2"} |-> Full],
         asks |-> [c \in {"c1", "c2"} |-> A("a", 22, FALSE, FALSE)],
         file |-> KnownAt22, format |-> "ssh", NoSave |-> FALSE, loses |-> {},
         tunnels |-> {}, work |-> NoWork, copies |-> FALSE, stops |-> FALSE, breaks |-> FALSE]

\* One caller with each login, against each set of requirements; its connection may be lost.
Logging ==
    {[Idle EXCEPT !.require = r, !.login = [c \in Callers |-> l], !.loses = x] :
        r \in SUBSET Factors, l \in MCLogins, x \in {{}, {"c1"}}}

    \cup
    {[Idle EXCEPT !.callers = {"c1", "c2"}, !.require = Factors,
                  !.login = [c \in Callers |-> IF c = "c1" THEN Full ELSE
                             L(TRUE, <<"k1">>, "wrong", "right", <<KI, PK>>)]]}

\* Two callers that share the table, with each pair of questions.  The sshd takes the
\* second connection while the first callback is still running only when the first
\* connection is lost.
Both(x, y) == [c \in {"c1", "c2"} |-> IF c = "c1" THEN x ELSE y]

Asking ==
    {[Idle EXCEPT !.callers = {"c1", "c2"}, !.asks = Both(x, y), !.file = f, !.loses = {"c1"}] :
        x \in {A("a", 22, FALSE, FALSE), A(Local, 2022, TRUE, TRUE), A("a", 2022, TRUE, FALSE)},
        y \in {A("a", 2022, FALSE, FALSE), A(Local, 22, TRUE, FALSE), A("b", 2022, FALSE, FALSE)},
        f \in {<<>>, KnownAt22, KnownMixed, KnownTwice}}
    \cup
    {[Idle EXCEPT !.callers = {"c1", "c2"}, !.asks = Both(x, A(Local, 22, TRUE, TRUE)),
                  !.file = f, !.format = "json", !.loses = {"c1"}] :
        x \in {A(Local, 2022, TRUE, TRUE), A("a", 22, FALSE, FALSE)},
        f \in {NoRecord, Saved({Name("a", 22)}, Name("a", 22), FALSE),
               Saved({Name("a", 22)}, Name("a", 22), TRUE)}}
    \cup
    {[Idle EXCEPT !.callers = {"c1", "c2"}, !.asks = Both(A("a", 22, TRUE, TRUE), A("a", 22, FALSE, FALSE)),
                  !.file = <<>>, !.NoSave = TRUE, !.loses = {"c1", "c2"}]}

\* One caller that is in: forwards, and a tunnelled connection.
Forwarding ==
    {[Idle EXCEPT !.tunnels = {"c1"}, !.work = w] :
        w \in {[listens |-> {"T", "U"}, accepts |-> {"T", "U"}, closes |-> {"T"},
                opens |-> {"t1", "t2", "u1"}, bad |-> {}, ends |-> {}],
               [listens |-> {"T", "U"}, accepts |-> {"T", "U"}, closes |-> {},
                opens |-> {"t1", "u1"}, bad |-> {"u1"}, ends |-> {"mux", "done"}],
               [listens |-> {"T", "U"}, accepts |-> {"U"}, closes |-> {"U"},
                opens |-> {"t1", "t2"}, bad |-> {}, ends |-> {"done"}]}}

Copying ==
    {[Idle EXCEPT !.tunnels = {"c1"}, !.copies = TRUE,
                  !.stops = (x = "stop"), !.breaks = (x = "break"),
                  !.work = [listens |-> {"T"}, accepts |-> {"T"}, closes |-> {},
                            opens |-> {"t1"}, bad |-> {}, ends |-> {x} \cap {"mux"}]] :
        x \in {"stop", "break", "mux"}}

MCUses == Logging \cup Asking \cup Forwarding \cup Copying
=============================================================================
