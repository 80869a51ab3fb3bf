----------------------------- MODULE MCSegment -----------------------------
(* SegmentStore on small instances: the constants are given in the cfg files. *)
EXTENDS SegmentStore
=============================================================================
