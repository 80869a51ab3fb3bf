------------------------------- MODULE MCConn -------------------------------
(***************************************************************************)
(* Instances of Conn for TLC.                                              *)
(***************************************************************************)
EXTENDS Conn

CONSTANT none

Req(kinds, quiets, values) == [kind : kinds, quiet : quiets, value : values]

MCRequests ==
    UNION {Req({"get", "getlong", "stats", "quit", "noeol"}, {FALSE}, {0}),
           Req({"set"}, BOOLEAN, {1}),
           Req({"line", "bget", "bquit"}, BOOLEAN, {0}),
           Req({"bset"}, {FALSE}, {0}),
           Req({"bset"}, {TRUE}, {1}),
           Req({"bincr"}, {TRUE}, {0}),
           Req({"bappend", "bsasl", "bstat"}, {FALSE}, {1}),
           Req({"btouch"}, {FALSE}, {0, 1}),
           Req({"bdelete", "bflush", "bnoop", "binvalid", "bunknown"}, {FALSE}, {0})}

MCLastRequests == Req({"line"}, {FALSE}, {0})
=============================================================================
