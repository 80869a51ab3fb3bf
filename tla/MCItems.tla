------------------------------ MODULE MCItems ------------------------------
(* ItemStore with the values 1, which incr makes 2, and 2, which is no number *)
(* and what every append leads to.                                            *)
EXTENDS ItemStore, TLC

MCBump(v) == 2
MCJoin(v, w) == 2
MCOwnLock(j, k) == j = k
MCOneLock(j, k) == TRUE
MCSymmetry == Permutations(Keys) \cup Permutations(Conns)
=============================================================================
