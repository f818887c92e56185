------------------------------ MODULE MCHalter ------------------------------
(* Small trees of Halters for TLC. *)
EXTENDS Halter

CONSTANTS a, b, c, x

\* A chain that stays, and a link past its middle that comes and goes.
Chain == {<<a, b>>, <<b, c>>}
Shortcut == {<<a, c>>}
=============================================================================
