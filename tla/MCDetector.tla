----------------------------- MODULE MCDetector -----------------------------
(* FailureDetector with two primaries on different hosts and ports. *)
EXTENDS FailureDetector

p1 == [ip |-> 1, port |-> 1]
p2 == [ip |-> 2, port |-> 2]
MCPrimaries == {p1, p2}
MCPersisted == {p1}
MCSlow == {p1}
=============================================================================
