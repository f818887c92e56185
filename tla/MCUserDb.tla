------------------------------ MODULE MCUserDb ------------------------------
(* Small uses of the user database for TLC. *)
EXTENDS UserDb, TLC

Nobody == <<>>
Add(l) == [op |-> "add", login |-> l]
Del(l) == [op |-> "del", login |-> l]

\* Commands to the daemon and nobody else.
AddThenDel == [daemon |-> TRUE, disk |-> {"amy"}, admin |-> Nobody,
               client |-> "c1" :> Add("bob") @@ "c2" :> Del("bob")]
TwoDels == [daemon |-> TRUE, disk |-> {"amy", "bob"}, admin |-> Nobody,
            client |-> "c1" :> Del("amy") @@ "c2" :> Del("bob")]
\* Admins and no daemon.
AdminDels == [daemon |-> FALSE, disk |-> {"amy", "bob"}, client |-> Nobody,
              admin |-> "a1" :> Del("amy") @@ "a2" :> Del("bob") @@ "a3" :> Del("amy")]
\* An admin beside the daemon.
Both == [daemon |-> TRUE, disk |-> {"amy"}, client |-> "c1" :> Del("amy"),
         admin |-> "a1" :> Add("bob")]

Served == {AddThenDel, TwoDels, AdminDels, Both}
Beside == {Both}
=============================================================================
