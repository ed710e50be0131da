---------------------------- MODULE MCHeapTimer ----------------------------
(* Small instances of HeapTimer for TLC.                                   *)
EXTENDS HeapTimer, TLC

(* Identifiers are only compared for equality.                             *)
IdSymmetry == Permutations(Ids)
=============================================================================
