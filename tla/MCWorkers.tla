----------------------------- MODULE MCWorkers -----------------------------
(***************************************************************************)
(* Instances of WorkerThreads for TLC.                                     *)
(***************************************************************************)
EXTENDS WorkerThreads

CONSTANTS k1

\* The last bucket of the first table.
MCHashValue == [k \in Keys |-> 3]
=============================================================================
