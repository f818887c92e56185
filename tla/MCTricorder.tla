---------------------------- MODULE MCTricorder ----------------------------
(* A small Tricorder for TLC: a ticket of each type. *)
EXTENDS Tricorder

MCTickets == {"direct", "inproc"}
MCLinked == {"inproc"}
=============================================================================
