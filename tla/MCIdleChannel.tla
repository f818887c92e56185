--------------------------- MODULE MCIdleChannel ---------------------------
(* A small channel with its idle timer for TLC: a reader with data and      *)
(* other packets; a reader with deadlines; a reader and a writer on a       *)
(* quiet channel; a writer with deadlines on a channel that                 *)
(* the peer closes; a reader, and a writer, on a channel that both close.   *)
EXTENDS IdleChannel

MCUses == {
    {"reads", "data", "other"},
    {"reads", "deadlines", "data"},
    {"reads", "writes"},
    {"writes", "deadlines", "adjust", "eof", "close"},
    {"reads", "close", "closes"},
    {"writes", "close", "closes"}}

MCReader == {{"reads"}}
=============================================================================
