----------------------------- MODULE MCProgram ------------------------------
(* Small instances of Program for TLC: the cfg files give the values.      *)
EXTENDS Program
=============================================================================
