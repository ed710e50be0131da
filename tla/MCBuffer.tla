------------------------------ MODULE MCBuffer ------------------------------
(* Small instances of Buffer for TLC: the cfg files give the values.       *)
EXTENDS Buffer
=============================================================================
