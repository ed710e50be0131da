---------------------------- MODULE MCBlockDeque ----------------------------
(* Small instances of BlockDeque for TLC: the cfg files give the values.       *)
EXTENDS BlockDeque
=============================================================================
