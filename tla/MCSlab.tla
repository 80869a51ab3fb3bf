------------------------------ MODULE MCSlab ------------------------------
(***************************************************************************)
(* Instances of SlabMover for TLC.                                         *)
(***************************************************************************)
EXTENDS SlabMover

\* The first class has two pages of two chunks, the second none.
MCPerSlab == <<2, 1>>
MCInitialLists == << <<1, 2>>, <<>> >>

CONSTANTS k1, k2
MCInitialSlots == << << <<1, 2>>, <<2, 2>> >>, <<>> >>
MCStoredChunks == {<<1, 1>>, <<2, 1>>}
MCInitialItems == << <<k1, k2>>, <<>> >>
=============================================================================
