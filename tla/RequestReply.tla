---------------------------- MODULE RequestReply ----------------------------
(***************************************************************************)
(* What a connection of the server promises its client: requests are taken *)
(* one at a time in the order in which they were sent, each is answered    *)
(* once, and only a request that asked for it may be left unanswered.      *)
(* Either side may hang up.  Conn.tla is shown to implement this.          *)
(***************************************************************************)
EXTENDS Naturals, Sequences

CONSTANTS
    Requests,   \* the requests a client can send
    Silent,     \* those that may be left unanswered (noreply, quiet commands)
    NoRequest

VARIABLES
    open,       \* the client is connected
    pending,    \* sent and not taken yet
    cur,        \* taken and not done with
    replied     \* answers given to this client

vars == <<open, pending, cur, replied>>

Init ==
    /\ open = FALSE
    /\ pending = <<>>
    /\ cur = NoRequest
    /\ replied = 0

Open ==
    /\ ~open
    /\ open' = TRUE
    /\ UNCHANGED <<pending, cur, replied>>

Send(r) ==
    /\ open
    /\ pending' = Append(pending, r)
    /\ UNCHANGED <<open, cur, replied>>

Take ==
    /\ open
    /\ cur = NoRequest
    /\ pending # <<>>
    /\ cur' = Head(pending)
    /\ pending' = Tail(pending)
    /\ UNCHANGED <<open, replied>>

Answer ==
    /\ open
    /\ cur # NoRequest
    /\ cur' = NoRequest
    /\ replied' = replied + 1
    /\ UNCHANGED <<open, pending>>

Skip ==
    /\ open
    /\ cur \in Silent
    /\ cur' = NoRequest
    /\ UNCHANGED <<open, pending, replied>>

HangUp ==
    /\ open
    /\ open' = FALSE
    /\ pending' = <<>>
    /\ cur' = NoRequest
    /\ replied' = 0

Next ==
    \/ Open
    \/ \E r \in Requests : Send(r)
    \/ Take
    \/ Answer
    \/ Skip
    \/ HangUp

Spec == Init /\ [][Next]_vars
=============================================================================
