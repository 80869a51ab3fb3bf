------------------------------ MODULE MCShake ------------------------------
(***************************************************************************)
(* Instances of Handshake for TLC.                                         *)
(***************************************************************************)
EXTENDS Handshake

MCTypeOrder == <<"PING", "BACKUP">>

Line(key, node) == [key |-> key, node |-> node]

\* The first two nodes ping each other, the last two back each other up.
MCConfig ==
    << <<Line("primary", 1), Line("PING", 2)>>,
       <<Line("me", 2), Line("BACKUP", 3), Line("PING", 1)>>,
       <<Line("me", 3), Line("BACKUP", 2)>> >>
=============================================================================
